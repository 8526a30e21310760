----------------------------- MODULE WindowsProofs -----------------------------
(***************************************************************************)
(* Proofs about the parts of yamy for Windows.                              *)
(***************************************************************************)
EXTENDS Detour, HookThreads, HookDll, KeyQue, Tasktray, ProofBasics, Integers, SequenceTheorems, TLAPS

(* ---------------------------- The ring buffer ---------------------------- *)

\* The pointers without the remainder: insert is count places after remove, or that
\* less the size of the array.
Ring ==
  /\ que \in [0..Size - 1 -> Datum] /\ insert \in 0..Size /\ remove \in 0..Size /\ count \in 0..Size
  /\ remove + count = insert \/ remove + count = insert + Size

LEMMA SlotIn ==
  ASSUME NEW p \in 0..Size, NEW i \in 1..Size
  PROVE  Slot(p, i) \in 0..Size - 1
BY KeyQueAssumption DEF Slot

LEMMA SlotOnce ==
  ASSUME NEW p \in 0..Size, NEW i \in 1..Size, NEW j \in 1..Size, Slot(p, i) = Slot(p, j)
  PROVE  i = j
BY KeyQueAssumption DEF Slot

LEMMA AdvanceIn ==
  ASSUME NEW p \in 0..Size, NEW n \in 1..Size
  PROVE  Advance(p, n) \in 0..Size
BY KeyQueAssumption DEF Advance

\* The places behind the keys are those the next block goes to.
LEMMA SlotInsert ==
  ASSUME Ring, NEW i \in 1..Size - count
  PROVE  count + i \in 1..Size /\ Slot(insert, i) = Slot(remove, count + i)
BY KeyQueAssumption DEF Ring, Slot

LEMMA SlotAdvance ==
  ASSUME NEW p \in 0..Size, NEW n \in 1..Size, NEW i \in 1..Size - n
  PROVE  n + i \in 1..Size /\ Slot(Advance(p, n), i) = Slot(p, n + i)
BY KeyQueAssumption DEF Slot, Advance

LEMMA EnqueRing ==
  ASSUME Ring, NEW b \in Seq(Datum), KqEnque(b)
  PROVE  Ring'
<1> DEFINE n == Least(Len(b), Size - count)
<1>1. n \in 0..Size - count /\ n <= Len(b) /\ Len(b) \in Nat
  BY KeyQueAssumption DEF Ring, Least
<1>2. que' \in [0..Size - 1 -> Datum]
  <2>1. \A s : (\E i \in 1..n : Slot(insert, i) = s)
                 => b[CHOOSE i \in 1..n : Slot(insert, i) = s] \in Datum
    BY <1>1
  <2>2. que' = [s \in 0..Size - 1 |-> IF \E i \in 1..n : Slot(insert, i) = s
                                      THEN b[CHOOSE i \in 1..n : Slot(insert, i) = s] ELSE que[s]]
    BY DEF KqEnque, Ring
  <2> QED
    BY <2>1, <2>2 DEF Ring
<1>3. insert' = (IF n = 0 THEN insert ELSE Advance(insert, n)) /\ count' = count + n /\ remove' = remove
  BY DEF KqEnque
<1> HIDE DEF n
<1> QED
  BY <1>1, <1>2, <1>3, KeyQueAssumption DEF Ring, Advance

LEMMA DequeRing ==
  ASSUME Ring, NEW m \in Nat, KqDeque(m)
  PROVE  Ring'
<1> DEFINE n == Least(m, count)
<1>1. n \in 0..count
  BY KeyQueAssumption DEF Ring, Least
<1>2. que' = que /\ insert' = insert /\ count' = count - n
      /\ remove' = (IF n = 0 THEN remove ELSE Advance(remove, n))
  BY DEF KqDeque
<1> HIDE DEF n
<1> QED
  BY <1>1, <1>2, KeyQueAssumption DEF Ring, Advance

LEMMA RingKept == KqSpec => []Ring
<1>1. KqInit => Ring
  BY KeyQueAssumption DEF KqInit, Ring
<1>2. Ring /\ [KqNext]_queVars => Ring'
  <2> SUFFICES ASSUME Ring, [KqNext]_queVars PROVE Ring'
    OBVIOUS
  <2>1. ASSUME NEW n \in 0..MaxBlock, KqDeque(n) PROVE Ring'
    BY <2>1, DequeRing, KeyQueAssumption
  <2>2. ASSUME NEW n \in 0..MaxBlock, NEW b \in [1..n -> Datum], KqEnque(b) PROVE Ring'
    <3>1. b \in Seq(Datum)
      BY KeyQueAssumption
    <3> QED
      BY <2>2, <3>1, EnqueRing
  <2>3. CASE KqClear
    BY <2>3, KeyQueAssumption DEF KqClear, Ring
  <2>4. CASE UNCHANGED queVars
    BY <2>4 DEF queVars, Ring
  <2> QED
    BY <2>1, <2>2, <2>3, <2>4 DEF KqNext
<1> QED
  BY <1>1, <1>2, PTL DEF KqSpec

LEMMA RingModulo ==
  ASSUME Ring
  PROVE  (remove + count) % Size = insert % Size
BY KeyQueAssumption DEF Ring

LEMMA ContentsAre ==
  ASSUME Ring
  PROVE  /\ Contents \in Seq(Datum) /\ Len(Contents) = count
         /\ \A i \in 1..count : Contents[i] = que[Slot(remove, i)]
<1>1. count \in Nat /\ \A i \in 1..count : que[Slot(remove, i)] \in Datum
  BY SlotIn, KeyQueAssumption DEF Ring
<1> QED
  BY <1>1 DEF Contents

\* The keys of the block stand behind the keys that were there.
LEMMA EnquePuts ==
  ASSUME Ring, Ring', NEW n0 \in 0..MaxBlock, NEW b \in [1..n0 -> Datum], KqEnque(b)
  PROVE  Fifo!Put(b)
<1> DEFINE n == Least(Len(b), Size - count)
<1>0. b \in Seq(Datum) /\ Len(b) \in Nat
  BY KeyQueAssumption
<1>1. n \in 0..Size - count /\ n <= Len(b) /\ count \in 0..Size
  BY <1>0, KeyQueAssumption DEF Ring, Least
<1>2. /\ que' = [s \in 0..Size - 1 |-> IF \E i \in 1..n : Slot(insert, i) = s
                                       THEN b[CHOOSE i \in 1..n : Slot(insert, i) = s] ELSE que[s]]
      /\ count' = count + n /\ remove' = remove
  BY DEF KqEnque, Ring
<1>3. answer' = [given |-> b, took |-> n, gave |-> <<>>]
  BY DEF KqEnque
<1>4. n = Fifo!AtMost(Len(b), Size - Len(Contents))
  BY ContentsAre DEF Least, Fifo!AtMost
<1> HIDE DEF n
<1>5. ASSUME NEW j \in 1..count PROVE que'[Slot(remove, j)] = que[Slot(remove, j)]
  <2>0. j \in 1..Size /\ remove \in 0..Size
    BY <1>1, KeyQueAssumption DEF Ring
  <2>1. j \in 1..Size /\ remove \in 0..Size /\ Slot(remove, j) \in 0..Size - 1
    BY <2>0, SlotIn
  <2>2. ~\E i \in 1..n : Slot(insert, i) = Slot(remove, j)
    <3> SUFFICES ASSUME NEW i \in 1..n, Slot(insert, i) = Slot(remove, j) PROVE FALSE
      OBVIOUS
    <3>1. i \in 1..Size - count
      BY <1>1, KeyQueAssumption
    <3>2. count + i \in 1..Size /\ Slot(remove, count + i) = Slot(remove, j)
      BY <3>1, SlotInsert
    <3>3. count + i = j
      BY <2>1, <3>2, SlotOnce
    <3> QED
      BY <1>1, <3>3
  <2> QED
    BY <1>2, <2>1, <2>2
<1>6. ASSUME NEW i \in 1..n PROVE que'[Slot(remove, count + i)] = b[i]
  <2>1. i \in 1..Size - count /\ insert \in 0..Size /\ i \in 1..Size
    BY <1>1, KeyQueAssumption DEF Ring
  <2>2. Slot(insert, i) = Slot(remove, count + i) /\ Slot(insert, i) \in 0..Size - 1
    BY <2>1, SlotInsert, SlotIn
  <2>3. \A x \in 1..n : Slot(insert, x) = Slot(insert, i) => x = i
    <3> SUFFICES ASSUME NEW x \in 1..n, Slot(insert, x) = Slot(insert, i) PROVE x = i
      OBVIOUS
    <3>1. x \in 1..Size
      BY <1>1, KeyQueAssumption
    <3> QED
      BY <2>1, <3>1, SlotOnce
  <2>4. (CHOOSE x \in 1..n : Slot(insert, x) = Slot(insert, i)) = i
    BY <2>3
  <2> QED
    BY <1>2, <2>2, <2>4
<1>7. Contents' = Contents \o SubSeq(b, 1, n)
  <2> DEFINE t == SubSeq(b, 1, n)
  <2>1. t \in Seq(Datum) /\ Len(t) = n /\ \A i \in 1..n : t[i] = b[i]
    BY <1>0, <1>1, SubSeqProperties
  <2>2. Contents' = [i \in 1..count + n |-> que'[Slot(remove, i)]]
    BY <1>2 DEF Contents
  <2>3. /\ Contents \in Seq(Datum) /\ Len(Contents) = count
        /\ \A i \in 1..count : Contents[i] = que[Slot(remove, i)]
    BY ContentsAre
  <2> HIDE DEF t
  <2>4. Contents \o t = [i \in 1..count + n |-> IF i <= count THEN Contents[i] ELSE t[i - count]]
    <3> DEFINE f == [i \in 1..count + n |-> IF i <= count THEN Contents[i] ELSE t[i - count]]
    <3>1. /\ Contents \o t \in Seq(Datum) /\ Len(Contents \o t) = count + n
          /\ \A i \in 1..count + n : (Contents \o t)[i] = IF i <= count THEN Contents[i] ELSE t[i - count]
      BY <2>1, <2>3, ConcatProperties
    <3>2. \A i \in 1..count + n : f[i] \in Datum
      BY <1>1, <2>1, <2>3
    <3>3. f \in Seq(Datum) /\ Len(f) = count + n
      <4>1. count + n \in Nat
        BY <1>1
      <4>2. f \in Seq(Datum)
        BY <3>2, <4>1
      <4>3. f \in [1..Len(f) -> Datum] /\ Len(f) \in Nat /\ DOMAIN f = 1..Len(f)
        BY <4>2, LenProperties
      <4>4. DOMAIN f = 1..count + n
        OBVIOUS
      <4> HIDE DEF f
      <4> QED
        BY <4>1, <4>2, <4>3, <4>4
    <3>4. \A i \in 1..Len(f) : f[i] = (Contents \o t)[i]
      BY <3>1, <3>3
    <3> HIDE DEF f
    <3>5. f = Contents \o t
      BY <3>1, <3>3, <3>4, SeqEqual
    <3> QED
      BY <3>5 DEF f
  <2>5. ASSUME NEW i \in 1..count + n
        PROVE  que'[Slot(remove, i)] = IF i <= count THEN Contents[i] ELSE t[i - count]
    <3>1. CASE i <= count
      BY <1>1, <1>5, <2>3, <3>1
    <3>2. CASE ~(i <= count)
      <4>1. i - count \in 1..n /\ count + (i - count) = i
        BY <1>1, <3>2
      <4> QED
        BY <1>6, <2>1, <3>2, <4>1
    <3> QED
      BY <3>1, <3>2
  <2>6. Contents' = Contents \o t
    BY <2>2, <2>4, <2>5
  <2> QED
    BY <2>6 DEF t
<1> QED
  BY <1>3, <1>4, <1>7 DEF Fifo!Put

\* What is taken are the first keys, and the others remain.
LEMMA DequeTakes ==
  ASSUME Ring, NEW m \in Nat, KqDeque(m)
  PROVE  Fifo!Take(m)
<1> DEFINE n == Least(m, count)
<1>1. n \in 0..count /\ count \in 0..Size /\ remove \in 0..Size /\ n \in 0..Size
  BY KeyQueAssumption DEF Ring, Least
<1>2. /\ que' = que /\ count' = count - n /\ remove' = (IF n = 0 THEN remove ELSE Advance(remove, n))
      /\ answer' = [given |-> <<>>, took |-> 0, gave |-> [i \in 1..n |-> que[Slot(remove, i)]]]
  BY DEF KqDeque
<1>3. n = Fifo!AtMost(m, Len(Contents))
  BY ContentsAre DEF Least, Fifo!AtMost
<1> HIDE DEF n
<1>4. /\ Contents \in Seq(Datum) /\ Len(Contents) = count
      /\ \A i \in 1..count : Contents[i] = que[Slot(remove, i)]
  BY ContentsAre
<1>5. SubSeq(Contents, 1, n) = [i \in 1..n |-> que[Slot(remove, i)]]
  <2>1. SubSeq(Contents, 1, n) = [i \in 1..n |-> Contents[i]]
    BY <1>1, <1>4
  <2> QED
    BY <1>1, <1>4, <2>1
<1>6. Contents' = SubSeq(Contents, n + 1, Len(Contents))
  <2>1. SubSeq(Contents, n + 1, count) = [i \in 1..count - n |-> Contents[n + i]]
    BY <1>1, <1>4
  <2>2. Contents' = [i \in 1..count - n |-> que[Slot(remove', i)]]
    BY <1>2 DEF Contents
  <2>3. ASSUME NEW i \in 1..count - n PROVE que[Slot(remove', i)] = Contents[n + i]
    <3>1. n + i \in 1..count
      BY <1>1
    <3>2. Slot(remove', i) = Slot(remove, n + i)
      <4>1. CASE n = 0
        BY <1>2, <4>1
      <4>2. CASE n # 0
        <5>1. n \in 1..Size /\ i \in 1..Size - n
          BY <1>1, <4>2, KeyQueAssumption
        <5> QED
          BY <1>1, <1>2, <4>2, <5>1, SlotAdvance
      <4> QED
        BY <4>1, <4>2
    <3> QED
      BY <1>4, <3>1, <3>2
  <2> QED
    BY <1>4, <2>1, <2>2, <2>3
<1> QED
  BY <1>2, <1>3, <1>5, <1>6 DEF Fifo!Take

LEMMA RingSteps ==
  ASSUME Ring, Ring', [KqNext]_queVars
  PROVE  [Fifo!FifoNext]_(Fifo!fifoVars)
<1>1. ASSUME NEW n \in 0..MaxBlock, KqDeque(n) PROVE Fifo!FifoNext
  BY <1>1, DequeTakes, KeyQueAssumption DEF Fifo!FifoNext
<1>2. ASSUME NEW n \in 0..MaxBlock, NEW b \in [1..n -> Datum], KqEnque(b) PROVE Fifo!FifoNext
  BY <1>2, EnquePuts DEF Fifo!FifoNext
<1>3. CASE KqClear
  <2>1. Contents' = <<>>
    BY <1>3 DEF KqClear, Contents
  <2> QED
    BY <1>3, <2>1 DEF KqClear, Fifo!FifoNext, Fifo!Clear
<1>4. CASE UNCHANGED queVars
  BY <1>4 DEF queVars, Fifo!fifoVars, Contents
<1> QED
  BY <1>1, <1>2, <1>3, <1>4 DEF KqNext

\* The driver's ring buffer is a bounded first-in first-out queue, for every size,
\* every length of the blocks and every place where they wrap: KqEnque and KqDeque
\* move the pointers together, and the two pieces of a copy are one block.
THEOREM RingIsFifo == KqSpec => KqCorrect
<1>1. Ring => RingConsistent
  BY RingModulo DEF Ring, RingConsistent
<1>2. KqSpec => []RingConsistent
  BY <1>1, RingKept, PTL
<1>3. KqInit => Fifo!FifoInit
  BY DEF KqInit, Contents, Fifo!FifoInit
<1>4. Ring /\ Ring' /\ [KqNext]_queVars => [Fifo!FifoNext]_(Fifo!fifoVars)
  BY RingSteps
<1>5. KqSpec => KqIsFifo
  BY <1>3, <1>4, RingKept, PTL DEF KqSpec, KqIsFifo, Fifo!FifoSpec
<1> QED
  BY <1>2, <1>5 DEF KqCorrect

(* -------------------------- The threads of the hooks --------------------------- *)

\* Every hook belongs to a thread that has installed it and not ended, ...
HookOfThread == \A h \in Handlers : hook[h] <=> thread[h] \in {"queue", "signal", "loop", "callback"}

\* ... a callback runs only while there is one, for an event that has happened, ...
CallbackRuns == \A h \in Handlers : thread[h] = "callback" => callbacks /\ inputs # 0

\* ... uninstall() stops the keyboard's thread when the mouse's has ended, ...
MouseFirst == owner \in {<<"stop", "keyboard">>, <<"join", "keyboard">>} => thread["mouse"] = "ended"

\* ... and without hooks no thread is at work.
ThreadsRest == ~isInstalled /\ owner = Idle => \A h \in Handlers : thread[h] \in {"suspended", "ended"}

HookTypes ==
  /\ isInstalled \in BOOLEAN /\ isEnabled \in BOOLEAN /\ callbacks \in BOOLEAN
  /\ thread \in [Handlers -> {"suspended", "install", "queue", "signal", "loop", "callback", "ended"}]
  /\ signalled \in [Handlers -> BOOLEAN] /\ quit \in [Handlers -> BOOLEAN] /\ hook \in [Handlers -> BOOLEAN]
  /\ owner \in {Idle} \cup ({"start", "wait", "stop", "join"} \X Handlers)
  /\ inputs \in 0..MaxInputs /\ toEngine \in SUBSET (1..MaxInputs) /\ toSystem \in SUBSET (1..MaxInputs)
  /\ installs \in 0..MaxInstalls

HookInv == HookTypes /\ HookOfThread /\ CallbackRuns /\ MouseFirst /\ ThreadsRest

LEMMA HookStep ==
  ASSUME HookInv, [HookNext]_hookVars
  PROVE  HookInv'
<1> USE HookThreadsAssumption DEF HookInv, HookTypes, HookOfThread, CallbackRuns, MouseFirst, ThreadsRest, Idle, Handlers
<1>1. CASE Install
  BY <1>1 DEF Install
<1>2. CASE Uninstall
  BY <1>2 DEF Uninstall
<1>3. ASSUME NEW h \in Handlers, StartThread(h) PROVE HookInv'
  BY <1>3 DEF StartThread, HookUnchanged
<1>4. ASSUME NEW h \in Handlers, StartWait(h) PROVE HookInv'
  BY <1>4 DEF StartWait
<1>5. ASSUME NEW h \in Handlers, StopThread(h) PROVE HookInv'
  BY <1>5 DEF StopThread, HookUnchanged
<1>6. ASSUME NEW h \in Handlers, StopJoin(h) PROVE HookInv'
  BY <1>6 DEF StopJoin
<1>7. ASSUME NEW h \in Handlers, ThreadInstall(h) PROVE HookInv'
  BY <1>7 DEF ThreadInstall, HookUnchanged
<1>8. ASSUME NEW h \in Handlers, ThreadQueue(h) PROVE HookInv'
  BY <1>8 DEF ThreadQueue, HookUnchanged
<1>9. ASSUME NEW h \in Handlers, ThreadSignal(h) PROVE HookInv'
  BY <1>9 DEF ThreadSignal, HookUnchanged
<1>10. ASSUME NEW h \in Handlers, ThreadEnd(h) PROVE HookInv'
  BY <1>10 DEF ThreadEnd, HookUnchanged
<1>11. ASSUME NEW h \in Handlers, Callback(h) PROVE HookInv'
  BY <1>11 DEF Callback
<1>12. ASSUME NEW h \in Handlers, Input(h) PROVE HookInv'
  <2>1. ASSUME thread' = [thread EXCEPT ![h] = "callback"], thread[h] = "loop", hook[h], callbacks, UNCHANGED toSystem
        PROVE  HookInv'
    BY <1>12, <2>1 DEF Input
  <2>2. ASSUME toSystem' = toSystem \cup {inputs + 1}, UNCHANGED thread PROVE HookInv'
    BY <1>12, <2>2 DEF Input
  <2> QED
    BY <1>12, <2>1, <2>2 DEF Input
<1>13. ASSUME NEW h \in Handlers, Injected(h) PROVE HookInv'
  BY <1>13 DEF Injected
<1>14. CASE UNCHANGED hookVars
  BY <1>14 DEF hookVars
<1> QED
  BY <1>1, <1>2, <1>3, <1>4, <1>5, <1>6, <1>7, <1>8, <1>9, <1>10, <1>11, <1>12, <1>13, <1>14
  DEF HookNext, HookThread, Owner

\* The engine's callbacks are there as long as a hook of Windows may call one, also in
\* the middle of uninstall(), and uninstall() leaves no hook behind: for any number of
\* events and installations.
THEOREM HooksAreSafe == HookSpec => []HooksSafe
<1>1. HookInit => HookInv
  <2>1. HookInit => HookTypes
    <3>1. HookInit => /\ owner \in {Idle} /\ inputs \in 0..MaxInputs /\ installs \in 0..MaxInstalls
                      /\ toEngine \in SUBSET (1..MaxInputs) /\ toSystem \in SUBSET (1..MaxInputs)
      BY HookThreadsAssumption DEF HookInit
    <3>2. HookInit => /\ thread \in [Handlers -> {"suspended"}] /\ signalled \in [Handlers -> BOOLEAN]
                      /\ quit \in [Handlers -> BOOLEAN] /\ hook \in [Handlers -> BOOLEAN]
      BY DEF HookInit
    <3> QED
      BY <3>1, <3>2 DEF HookInit, HookTypes
  <2>2. HookInit => HookOfThread /\ CallbackRuns /\ ThreadsRest
    BY DEF HookInit, HookOfThread, CallbackRuns, ThreadsRest
  <2>3. HookInit => MouseFirst
    BY DEF HookInit, MouseFirst, Idle
  <2> QED
    BY <2>1, <2>2, <2>3 DEF HookInv
<1>2. HookInv /\ [HookNext]_hookVars => HookInv'
  BY HookStep
<1>3. HookInv => HooksSafe
  BY DEF HookInv, HookTypes, HookOfThread, CallbackRuns, MouseFirst, ThreadsRest, HooksSafe, HookTypeOK,
       CallbackSafe, HooksRemoved
<1> QED
  BY <1>1, <1>2, <1>3, PTL DEF HookSpec

(* ------------------------------ The task tray ----------------------------------- *)

Reports == [code : {"ok", "error", "timeout"}, escape : BOOLEAN]

NlsTypes ==
  /\ life \in {"none", "starting", "loop", "quit", "down", "gone"} /\ session \in SUBSET {"locked", "disconnected", "end"}
  /\ enabled \in BOOLEAN /\ events \in SUBSET {"fix", "restore", "quit"}
  /\ worker \in {"wait", "write", "fix", "restore", "back", "report", "done", "ended"}
  /\ code \in {"none", "ok", "error", "timeout"} /\ late \in 0..2
  /\ nls \in BOOLEAN /\ map \in BOOLEAN /\ kept \in BOOLEAN /\ failed \in BOOLEAN /\ unwritten \in BOOLEAN
  /\ retryBox \in BOOLEAN /\ posted \in Seq(Reports)

WindowTypes ==
  /\ explorer \in BOOLEAN /\ dialog \in BOOLEAN /\ syncing \in BOOLEAN
  /\ icon \in {NoIcon, "enabled", "disabled"} /\ helper \in {"none", "hooked", "ended"} /\ budget \in 0..MaxEvents

\* The settings that exist are the engine's, which is also the window's, and the one being loaded.
SettingsKnown ==
  /\ loading \in Settings /\ setting \in Settings /\ inUse = setting /\ alive = {setting, loading} \ {0}
  /\ loading # 0 => loading # setting

\* What is in the taskbar tells whether mayu is enabled.
IconKnown ==
  /\ icon # NoIcon => (icon = "enabled" <=> enabled)
  /\ ~explorer => icon = NoIcon

\* The modified map is in the registry only while FixScancodeMap gives it to winlogon, so
\* that fix does not take it for the user's, until it cannot be written back.  What fix did
\* is known before it is reported.
MapKnown ==
  /\ unwritten => failed
  /\ ~unwritten => ~kept /\ (worker \notin {"fix", "back"} => ~map)
  /\ worker = "report" /\ map /\ ~kept => code = "error"
  /\ worker \in {"back", "report", "done"} => code # "none"

\* The thread ends when the window is gone, and has then served every request.
LifeKnown ==
  /\ life = "none" => session = {} /\ enabled
  /\ "quit" \in events => life \in {"down", "gone"}
  /\ worker = "ended" => life \in {"down", "gone"} /\ "fix" \notin events /\ "restore" \notin events
  /\ life = "gone" => worker = "ended"

\* Does someone else have the keyboard?
Off == session # {} \/ ~enabled \/ life \in {"down", "gone"}

\* A restore is still to come, ...
RestoreComes == "restore" \in events \/ (worker = "restore" /\ "fix" \notin events)

\* ... or it has been done, and no escape comes after it.
Restored == ~nls /\ "fix" \notin events /\ worker \notin {"write", "fix", "back"}

NlsKnown == EscapeNlsKeys /\ ~AnyTime /\ ~failed /\ Off => RestoreComes \/ Restored

NlsInv == NlsTypes /\ MapKnown /\ LifeKnown /\ NlsKnown
IconInv == WindowTypes /\ IconKnown
TrayInv == NlsInv /\ IconInv /\ SettingsKnown

LEMMA FreshIs ==
  ASSUME SettingsKnown, loading = 0
  PROVE  Fresh \in {1, 2, 3} /\ Fresh \notin alive
<1>1. \E s \in {1, 2, 3} : s \notin alive /\ \A t \in 1..s - 1 : t \in alive
  <2>1. CASE setting = 1
    <3>1. 2 \notin alive /\ \A t \in 1..2 - 1 : t \in alive
      BY <2>1 DEF SettingsKnown
    <3> QED
      BY <3>1
  <2>2. CASE setting # 1
    <3>1. 1 \notin alive /\ \A t \in 1..1 - 1 : t \in alive
      BY <2>2 DEF SettingsKnown
    <3> QED
      BY <3>1
  <2> QED
    BY <2>1, <2>2
<1> QED
  BY <1>1 DEF Fresh

\* load() makes a setting of its own or none.
LEMMA LoadMakes ==
  ASSUME SettingsKnown, Load, UNCHANGED <<setting, inUse>>
  PROVE  SettingsKnown'
<1>1. CASE UNCHANGED <<loading, alive>>
  BY <1>1 DEF SettingsKnown
<1>2. CASE loading' = Fresh /\ alive' = alive \cup {Fresh}
  <2>1. loading = 0 /\ Fresh \in {1, 2, 3} /\ Fresh \notin alive
    BY FreshIs DEF Load
  <2> QED
    BY <1>2, <2>1 DEF SettingsKnown, Settings
<1> QED
  BY <1>1, <1>2 DEF Load

LEMMA NlsRests ==
  ASSUME NlsInv, UNCHANGED <<life, session, enabled, nlsVars>>
  PROVE  NlsInv'
<1>1. UNCHANGED <<life, session, enabled, events, worker, code, nls, map, kept, failed, unwritten, late, posted, retryBox>>
  BY DEF nlsVars
<1>2. NlsTypes'
  BY <1>1 DEF NlsInv, NlsTypes
<1>3. MapKnown' /\ LifeKnown' /\ NlsKnown'
  BY <1>1 DEF NlsInv, MapKnown, LifeKnown, NlsKnown, Off, RestoreComes, Restored
<1> QED
  BY <1>2, <1>3 DEF NlsInv

LEMMA IconRests ==
  ASSUME IconInv, UNCHANGED <<enabled, icon, explorer>>, WindowTypes'
  PROVE  IconInv'
BY DEF IconInv, IconKnown, NoIcon

LEMMA SettingsRest ==
  ASSUME SettingsKnown, UNCHANGED <<loading, setting, inUse, alive>>
  PROVE  SettingsKnown'
BY DEF SettingsKnown

LEMMA TrayStep ==
  ASSUME TrayInv, [TasktrayNext]_tasktrayVars
  PROVE  TrayInv'
<1>0. NlsInv /\ IconInv /\ SettingsKnown /\ WindowTypes
  BY DEF TrayInv, IconInv
<1>1. CASE Construct
  <2>1. NlsInv'
    <3>1. NlsTypes'
      BY <1>0, <1>1 DEF NlsInv, NlsTypes, Construct, Escape
    <3>2. MapKnown' /\ LifeKnown'
      BY <1>0, <1>1 DEF NlsInv, NlsTypes, MapKnown, LifeKnown, Construct, Escape
    <3>3. NlsKnown'
      BY <1>0, <1>1 DEF NlsInv, NlsTypes, MapKnown, LifeKnown, NlsKnown, Off, RestoreComes, Restored, Construct, Escape
    <3> QED
      BY <3>1, <3>2, <3>3 DEF NlsInv
  <2>2. WindowTypes'
    BY <1>0, <1>1, TasktrayAssumption DEF WindowTypes, nlsVars, loadVars, NoIcon, Construct, IconAfter
  <2>3. IconInv'
    BY <1>0, <1>1, <2>2 DEF IconInv, IconKnown, WindowTypes, NoIcon, nlsVars, LifeKnown, NlsInv, Construct, IconAfter
  <2>4. SettingsKnown'
    BY <1>0, <1>1, SettingsRest DEF loadVars, Construct
  <2> QED
    BY <2>1, <2>3, <2>4 DEF TrayInv
<1>2. CASE FirstLoad
  <2>1. NlsInv'
    <3>1. NlsTypes'
      BY <1>0, <1>2 DEF NlsInv, NlsTypes, FirstLoad, nlsVars
    <3>2. MapKnown' /\ LifeKnown'
      BY <1>0, <1>2 DEF NlsInv, NlsTypes, MapKnown, LifeKnown, FirstLoad, nlsVars
    <3>3. NlsKnown'
      BY <1>0, <1>2 DEF NlsInv, NlsTypes, MapKnown, LifeKnown, NlsKnown, Off, RestoreComes, Restored, FirstLoad, nlsVars
    <3> QED
      BY <3>1, <3>2, <3>3 DEF NlsInv
  <2>2. WindowTypes' /\ UNCHANGED <<enabled, icon, explorer>>
    BY <1>0, <1>2, TasktrayAssumption DEF WindowTypes, trayVars, loadVars, FirstLoad
  <2>3. IconInv'
    BY <1>0, <2>2, IconRests
  <2>4. SettingsKnown'
    BY <1>0, <1>2, LoadMakes, SettingsRest DEF FirstLoad
  <2> QED
    BY <2>1, <2>3, <2>4 DEF TrayInv
<1>3. CASE LoadSet
  <2>1. NlsInv'
    BY <1>0, <1>3, NlsRests DEF LoadSet
  <2>2. WindowTypes' /\ UNCHANGED <<enabled, icon, explorer>>
    BY <1>0, <1>3, TasktrayAssumption DEF WindowTypes, trayVars, loadVars, LoadSet
  <2>3. IconInv'
    BY <1>0, <2>2, IconRests
  <2>4. SettingsKnown'
    BY <1>0, <1>3 DEF SettingsKnown, Settings, LoadSet
  <2> QED
    BY <2>1, <2>3, <2>4 DEF TrayInv
<1>4. CASE Reload
  <2>1. NlsInv'
    BY <1>0, <1>4, NlsRests DEF Reload
  <2>2. WindowTypes' /\ UNCHANGED <<enabled, icon, explorer>>
    BY <1>0, <1>4, TasktrayAssumption DEF WindowTypes, trayVars, loadVars, Message, Reload
  <2>3. IconInv'
    BY <1>0, <2>2, IconRests
  <2>4. SettingsKnown'
    BY <1>0, <1>4, LoadMakes, SettingsRest DEF Reload
  <2> QED
    BY <2>1, <2>3, <2>4 DEF TrayInv
<1>5. CASE OpenSetting
  <2>1. NlsInv'
    BY <1>0, <1>5, NlsRests DEF OpenSetting
  <2>2. WindowTypes' /\ UNCHANGED <<enabled, icon, explorer>>
    BY <1>0, <1>5, TasktrayAssumption DEF WindowTypes, trayVars, loadVars, Message, OpenSetting
  <2>3. IconInv'
    BY <1>0, <2>2, IconRests
  <2>4. SettingsKnown'
    BY <1>0, <1>5, SettingsRest DEF loadVars, OpenSetting
  <2> QED
    BY <2>1, <2>3, <2>4 DEF TrayInv
<1>6. CASE CloseSetting
  <2>1. NlsInv'
    BY <1>0, <1>6, NlsRests DEF CloseSetting
  <2>2. WindowTypes' /\ UNCHANGED <<enabled, icon, explorer>>
    BY <1>0, <1>6, TasktrayAssumption DEF WindowTypes, trayVars, loadVars, CloseSetting
  <2>3. IconInv'
    BY <1>0, <2>2, IconRests
  <2>4. SettingsKnown'
    BY <1>0, <1>6, LoadMakes, SettingsRest DEF CloseSetting
  <2> QED
    BY <2>1, <2>3, <2>4 DEF TrayInv
<1>7. CASE MenuDisable
  <2>1. NlsInv'
    <3>1. NlsTypes'
      BY <1>0, <1>7 DEF NlsInv, NlsTypes, MenuDisable, Message, Enable, Escape
    <3>2. MapKnown' /\ LifeKnown'
      BY <1>0, <1>7 DEF NlsInv, NlsTypes, MapKnown, LifeKnown, MenuDisable, Message, Enable, Escape
    <3>3. NlsKnown'
      BY <1>0, <1>7 DEF NlsInv, NlsTypes, MapKnown, LifeKnown, NlsKnown, Off, RestoreComes, Restored, MenuDisable, Message, Enable, Escape
    <3> QED
      BY <3>1, <3>2, <3>3 DEF NlsInv
  <2>2. WindowTypes'
    BY <1>0, <1>7, TasktrayAssumption DEF WindowTypes, nlsVars, loadVars, NoIcon, MenuDisable, Message, Enable, IconAfter
  <2>3. IconInv'
    BY <1>0, <1>7, <2>2 DEF IconInv, IconKnown, WindowTypes, NoIcon, nlsVars, MenuDisable, Message, Enable, IconAfter
  <2>4. SettingsKnown'
    BY <1>0, <1>7, SettingsRest DEF loadVars, Message, Enable, MenuDisable
  <2> QED
    BY <2>1, <2>3, <2>4 DEF TrayInv
<1>8. CASE RemoteEnable
  <2>1. NlsInv'
    <3>1. NlsTypes'
      BY <1>0, <1>8 DEF NlsInv, NlsTypes, RemoteEnable, Message, Enable, Escape
    <3>2. MapKnown' /\ LifeKnown'
      BY <1>0, <1>8 DEF NlsInv, NlsTypes, MapKnown, LifeKnown, RemoteEnable, Message, Enable, Escape
    <3>3. NlsKnown'
      <4>0. CASE AnyTime
        BY <4>0 DEF NlsKnown
      <4>1. PICK e \in BOOLEAN : Enable(e)
        BY <1>8 DEF RemoteEnable
      <4>2. ~AnyTime => life' = "loop" /\ session' = {} /\ failed' = failed
        BY <1>8, <4>1 DEF RemoteEnable, Message, Enable
      <4>3. CASE ~AnyTime /\ e
        BY <4>1, <4>2, <4>3 DEF NlsKnown, Off, Enable
      <4>4. CASE ~AnyTime /\ ~e
        BY <4>1, <4>4 DEF NlsKnown, RestoreComes, Enable, Escape
      <4> QED
        BY <4>0, <4>3, <4>4
    <3> QED
      BY <3>1, <3>2, <3>3 DEF NlsInv
<2>2. WindowTypes'
    BY <1>0, <1>8, TasktrayAssumption DEF WindowTypes, nlsVars, loadVars, NoIcon, RemoteEnable, Message, Enable, IconAfter
  <2>3. IconInv'
    BY <1>0, <1>8, <2>2 DEF IconInv, IconKnown, WindowTypes, NoIcon, nlsVars, RemoteEnable, Message, Enable, IconAfter
  <2>4. SettingsKnown'
    BY <1>0, <1>8, SettingsRest DEF loadVars, Message, Enable, RemoteEnable
  <2> QED
    BY <2>1, <2>3, <2>4 DEF TrayInv
<1>9. CASE SessionChange
  <2>1. NlsInv'
    <3>1. NlsTypes'
      BY <1>0, <1>9, ZenonT(40) DEF NlsInv, NlsTypes, SessionChange, Message, SessionOn, SessionOff, Escape, Managed
    <3>2. MapKnown' /\ LifeKnown'
      BY <1>0, <1>9 DEF NlsInv, NlsTypes, MapKnown, LifeKnown, SessionChange, Message, SessionOn, SessionOff, Escape, Managed
    <3>3. NlsKnown'
      BY <1>0, <1>9 DEF NlsInv, NlsTypes, MapKnown, LifeKnown, NlsKnown, Off, RestoreComes, Restored, SessionChange, Message,
                        SessionOn, SessionOff, Escape, Managed
    <3> QED
      BY <3>1, <3>2, <3>3 DEF NlsInv
  <2>2. WindowTypes' /\ UNCHANGED <<enabled, icon, explorer>>
    BY <1>0, <1>9, TasktrayAssumption DEF WindowTypes, trayVars, loadVars, Message, SessionChange
  <2>3. IconInv'
    BY <1>0, <2>2, IconRests
  <2>4. SettingsKnown'
    BY <1>0, <1>9, SettingsRest DEF loadVars, SessionChange
  <2> QED
    BY <2>1, <2>3, <2>4 DEF TrayInv
<1>10. CASE QueryEndSession
  <2>1. NlsInv'
    <3>1. NlsTypes'
      BY <1>0, <1>10 DEF NlsInv, NlsTypes, QueryEndSession, SessionOff, Escape, Managed
    <3>2. MapKnown' /\ LifeKnown'
      BY <1>0, <1>10 DEF NlsInv, NlsTypes, MapKnown, LifeKnown, QueryEndSession, SessionOff, Escape, Managed
    <3>3. NlsKnown'
      BY <1>0, <1>10 DEF NlsInv, NlsTypes, MapKnown, LifeKnown, NlsKnown, Off, RestoreComes, Restored, QueryEndSession, SessionOff,
                         Escape, Managed
    <3> QED
      BY <3>1, <3>2, <3>3 DEF NlsInv
  <2>2. WindowTypes' /\ UNCHANGED <<enabled, icon, explorer>>
    BY <1>0, <1>10, TasktrayAssumption DEF WindowTypes, trayVars, loadVars, QueryEndSession
  <2>3. IconInv'
    BY <1>0, <2>2, IconRests
  <2>4. SettingsKnown'
    BY <1>0, <1>10, SettingsRest DEF loadVars, QueryEndSession
  <2> QED
    BY <2>1, <2>3, <2>4 DEF TrayInv
<1>11. CASE MenuQuit
  <2>1. NlsInv'
    <3>1. NlsTypes'
      BY <1>0, <1>11 DEF NlsInv, NlsTypes, MenuQuit
    <3>2. MapKnown' /\ LifeKnown'
      BY <1>0, <1>11 DEF NlsInv, NlsTypes, MapKnown, LifeKnown, MenuQuit
    <3>3. NlsKnown'
      BY <1>0, <1>11 DEF NlsInv, NlsTypes, MapKnown, LifeKnown, NlsKnown, Off, RestoreComes, Restored, MenuQuit
    <3> QED
      BY <3>1, <3>2, <3>3 DEF NlsInv
  <2>2. WindowTypes' /\ UNCHANGED <<enabled, icon, explorer>>
    BY <1>0, <1>11, TasktrayAssumption DEF WindowTypes, trayVars, loadVars, MenuQuit
  <2>3. IconInv'
    BY <1>0, <2>2, IconRests
  <2>4. SettingsKnown'
    BY <1>0, <1>11, SettingsRest DEF loadVars, MenuQuit
  <2> QED
    BY <2>1, <2>3, <2>4 DEF TrayInv
<1>12. CASE Report
  <2>1. NlsInv'
    <3>1. NlsTypes'
      BY <1>0, <1>12 DEF NlsInv, NlsTypes, Report
    <3>2. MapKnown' /\ LifeKnown'
      BY <1>0, <1>12 DEF NlsInv, NlsTypes, MapKnown, LifeKnown, Report
    <3>3. NlsKnown'
      BY <1>0, <1>12 DEF NlsInv, NlsTypes, MapKnown, LifeKnown, NlsKnown, Off, RestoreComes, Restored, Report
    <3> QED
      BY <3>1, <3>2, <3>3 DEF NlsInv
  <2>2. WindowTypes' /\ UNCHANGED <<enabled, icon, explorer>>
    BY <1>0, <1>12, TasktrayAssumption DEF WindowTypes, trayVars, loadVars, Report
  <2>3. IconInv'
    BY <1>0, <2>2, IconRests
  <2>4. SettingsKnown'
    BY <1>0, <1>12, SettingsRest DEF loadVars, Report
  <2> QED
    BY <2>1, <2>3, <2>4 DEF TrayInv
<1>13. CASE AnswerRetry
  <2>1. NlsInv'
    <3>1. NlsTypes'
      BY <1>0, <1>13 DEF NlsInv, NlsTypes, AnswerRetry, Escape
    <3>2. MapKnown' /\ LifeKnown'
      BY <1>0, <1>13 DEF NlsInv, NlsTypes, MapKnown, LifeKnown, AnswerRetry, Escape
    <3>3. NlsKnown'
      BY <1>0, <1>13 DEF NlsInv, NlsTypes, MapKnown, LifeKnown, NlsKnown, Off, RestoreComes, Restored, AnswerRetry, Escape
    <3> QED
      BY <3>1, <3>2, <3>3 DEF NlsInv
  <2>2. WindowTypes' /\ UNCHANGED <<enabled, icon, explorer>>
    BY <1>0, <1>13, TasktrayAssumption DEF WindowTypes, trayVars, loadVars, AnswerRetry
  <2>3. IconInv'
    BY <1>0, <2>2, IconRests
  <2>4. SettingsKnown'
    BY <1>0, <1>13, SettingsRest DEF loadVars, AnswerRetry
  <2> QED
    BY <2>1, <2>3, <2>4 DEF TrayInv
<1>14. CASE ExplorerEnds
  <2>1. NlsInv'
    BY <1>0, <1>14, NlsRests DEF ExplorerEnds
  <2>2. WindowTypes'
    <3>1. budget < MaxEvents /\ budget' = budget + 1 /\ explorer' = FALSE /\ icon' = NoIcon
          /\ UNCHANGED <<dialog, helper, syncing>>
      BY <1>14 DEF ExplorerEnds, loadVars
    <3>2. budget' \in 0..MaxEvents
      BY <1>0, <3>1, TasktrayAssumption DEF WindowTypes
    <3> QED
      BY <1>0, <3>1, <3>2 DEF WindowTypes
  <2>3. IconInv'
    BY <1>0, <1>14, <2>2 DEF IconInv, IconKnown, WindowTypes, NoIcon, nlsVars, ExplorerEnds
  <2>4. SettingsKnown'
    BY <1>0, <1>14, SettingsRest DEF loadVars, ExplorerEnds
  <2> QED
    BY <2>1, <2>3, <2>4 DEF TrayInv
<1>15. CASE TaskbarRestart
  <2>1. NlsInv'
    BY <1>0, <1>15, NlsRests DEF TaskbarRestart
  <2>2. WindowTypes'
    BY <1>0, <1>15, TasktrayAssumption DEF WindowTypes, nlsVars, loadVars, NoIcon, TaskbarRestart
  <2>3. IconInv'
    BY <1>0, <1>15, <2>2 DEF IconInv, IconKnown, WindowTypes, NoIcon, nlsVars, TaskbarRestart
  <2>4. SettingsKnown'
    BY <1>0, <1>15, SettingsRest DEF loadVars, TaskbarRestart
  <2> QED
    BY <2>1, <2>3, <2>4 DEF TrayInv
<1>16. CASE Destroy
  <2>1. NlsInv'
    <3>1. NlsTypes'
      BY <1>0, <1>16 DEF NlsInv, NlsTypes, Destroy, Escape, Managed
    <3>2. MapKnown' /\ LifeKnown'
      BY <1>0, <1>16 DEF NlsInv, NlsTypes, MapKnown, LifeKnown, Destroy, Escape, Managed
    <3>3. NlsKnown'
      BY <1>0, <1>16 DEF NlsInv, NlsTypes, MapKnown, LifeKnown, NlsKnown, Off, RestoreComes, Restored, Destroy, Escape, Managed
    <3> QED
      BY <3>1, <3>2, <3>3 DEF NlsInv
  <2>2. WindowTypes'
    BY <1>0, <1>16, TasktrayAssumption DEF WindowTypes, nlsVars, loadVars, NoIcon, Destroy
  <2>3. IconInv'
    BY <1>0, <1>16, <2>2 DEF IconInv, IconKnown, WindowTypes, NoIcon, nlsVars, Destroy
  <2>4. SettingsKnown'
    BY <1>0, <1>16, SettingsRest DEF loadVars, Destroy
  <2> QED
    BY <2>1, <2>3, <2>4 DEF TrayInv
<1>17. CASE Join
  <2>1. NlsInv'
    <3>1. NlsTypes'
      BY <1>0, <1>17 DEF NlsInv, NlsTypes, Join
    <3>2. MapKnown' /\ LifeKnown'
      BY <1>0, <1>17 DEF NlsInv, NlsTypes, MapKnown, LifeKnown, Join
    <3>3. NlsKnown'
      BY <1>0, <1>17 DEF NlsInv, NlsTypes, MapKnown, LifeKnown, NlsKnown, Off, RestoreComes, Restored, Join
    <3> QED
      BY <3>1, <3>2, <3>3 DEF NlsInv
  <2>2. WindowTypes' /\ UNCHANGED <<enabled, icon, explorer>>
    BY <1>0, <1>17, TasktrayAssumption DEF WindowTypes, trayVars, loadVars, Join
  <2>3. IconInv'
    BY <1>0, <2>2, IconRests
  <2>4. SettingsKnown'
    BY <1>0, <1>17, SettingsRest DEF loadVars, Join
  <2> QED
    BY <2>1, <2>3, <2>4 DEF TrayInv
<1>18. CASE ThreadLoop
  <2>1. NlsInv'
    <3>1. NlsTypes'
      BY <1>0, <1>18 DEF NlsInv, NlsTypes, ThreadLoop
    <3>2. MapKnown' /\ LifeKnown'
      BY <1>0, <1>18 DEF NlsInv, NlsTypes, MapKnown, LifeKnown, ThreadLoop
    <3>3. NlsKnown'
      BY <1>0, <1>18 DEF NlsInv, NlsTypes, MapKnown, LifeKnown, NlsKnown, Off, RestoreComes, Restored, ThreadLoop
    <3> QED
      BY <3>1, <3>2, <3>3 DEF NlsInv
  <2>2. WindowTypes' /\ UNCHANGED <<enabled, icon, explorer>>
    BY <1>0, <1>18, TasktrayAssumption DEF WindowTypes, trayVars, loadVars, ThreadLoop
  <2>3. IconInv'
    BY <1>0, <2>2, IconRests
  <2>4. SettingsKnown'
    BY <1>0, <1>18, SettingsRest DEF loadVars, ThreadLoop
  <2> QED
    BY <2>1, <2>3, <2>4 DEF TrayInv
<1>19. CASE FixWrite
  <2>1. NlsInv'
    <3>1. NlsTypes'
      BY <1>0, <1>19 DEF NlsInv, NlsTypes, FixWrite
    <3>2. MapKnown' /\ LifeKnown'
      BY <1>0, <1>19 DEF NlsInv, NlsTypes, MapKnown, LifeKnown, FixWrite
    <3>3. NlsKnown'
      BY <1>0, <1>19 DEF NlsInv, NlsTypes, MapKnown, LifeKnown, NlsKnown, Off, RestoreComes, Restored, FixWrite
    <3> QED
      BY <3>1, <3>2, <3>3 DEF NlsInv
  <2>2. WindowTypes' /\ UNCHANGED <<enabled, icon, explorer>>
    BY <1>0, <1>19, TasktrayAssumption DEF WindowTypes, trayVars, loadVars, FixWrite
  <2>3. IconInv'
    BY <1>0, <2>2, IconRests
  <2>4. SettingsKnown'
    BY <1>0, <1>19, SettingsRest DEF loadVars, FixWrite
  <2> QED
    BY <2>1, <2>3, <2>4 DEF TrayInv
<1>20. CASE Update
  <2>1. NlsInv'
    <3>1. NlsTypes'
      <4>1. nls' \in BOOLEAN /\ failed' \in BOOLEAN
        BY <1>0, <1>20 DEF NlsInv, NlsTypes, Update
      <4>2. code' \in {"ok", "error", "timeout"} /\ late' \in 0..2 /\ worker' \in {"back", "done"}
        BY <1>0, <1>20 DEF NlsInv, NlsTypes, Update
      <4> QED
        BY <1>0, <1>20, <4>1, <4>2 DEF NlsInv, NlsTypes, Update
    <3>2. MapKnown' /\ LifeKnown'
      BY <1>0, <1>20 DEF NlsInv, NlsTypes, MapKnown, LifeKnown, Update
    <3>3. NlsKnown'
      BY <1>0, <1>20 DEF NlsInv, NlsTypes, MapKnown, LifeKnown, NlsKnown, Off, RestoreComes, Restored, Update
    <3> QED
      BY <3>1, <3>2, <3>3 DEF NlsInv
  <2>2. WindowTypes' /\ UNCHANGED <<enabled, icon, explorer>>
    BY <1>0, <1>20, TasktrayAssumption DEF WindowTypes, trayVars, loadVars, Update
  <2>3. IconInv'
    BY <1>0, <2>2, IconRests
  <2>4. SettingsKnown'
    BY <1>0, <1>20, SettingsRest DEF loadVars, Update
  <2> QED
    BY <2>1, <2>3, <2>4 DEF TrayInv
<1>21. CASE FixBack
  <2>1. NlsInv'
    <3>1. NlsTypes'
      BY <1>0, <1>21 DEF NlsInv, NlsTypes, FixBack
    <3>2. MapKnown' /\ LifeKnown'
      BY <1>0, <1>21 DEF NlsInv, NlsTypes, MapKnown, LifeKnown, FixBack
    <3>3. NlsKnown'
      BY <1>0, <1>21 DEF NlsInv, NlsTypes, MapKnown, LifeKnown, NlsKnown, Off, RestoreComes, Restored, FixBack
    <3> QED
      BY <3>1, <3>2, <3>3 DEF NlsInv
  <2>2. WindowTypes' /\ UNCHANGED <<enabled, icon, explorer>>
    BY <1>0, <1>21, TasktrayAssumption DEF WindowTypes, trayVars, loadVars, FixBack
  <2>3. IconInv'
    BY <1>0, <2>2, IconRests
  <2>4. SettingsKnown'
    BY <1>0, <1>21, SettingsRest DEF loadVars, FixBack
  <2> QED
    BY <2>1, <2>3, <2>4 DEF TrayInv
<1>22. CASE PostReport
  <2>1. NlsInv'
    <3>1. NlsTypes'
      <4>1. [code |-> code, escape |-> worker = "report"] \in Reports
        BY <1>0, <1>22 DEF NlsInv, NlsTypes, MapKnown, PostReport, Reports
      <4>2. posted' \in Seq(Reports)
        BY <1>0, <1>22, <4>1 DEF NlsInv, NlsTypes, PostReport
      <4> QED
        BY <1>0, <1>22, <4>2 DEF NlsInv, NlsTypes, PostReport
    <3>2. MapKnown' /\ LifeKnown'
      BY <1>0, <1>22 DEF NlsInv, NlsTypes, MapKnown, LifeKnown, PostReport
    <3>3. NlsKnown'
      BY <1>0, <1>22 DEF NlsInv, NlsTypes, MapKnown, LifeKnown, NlsKnown, Off, RestoreComes, Restored, PostReport
    <3> QED
      BY <3>1, <3>2, <3>3 DEF NlsInv
  <2>2. WindowTypes' /\ UNCHANGED <<enabled, icon, explorer>>
    BY <1>0, <1>22, TasktrayAssumption DEF WindowTypes, trayVars, loadVars, PostReport
  <2>3. IconInv'
    BY <1>0, <2>2, IconRests
  <2>4. SettingsKnown'
    BY <1>0, <1>22, SettingsRest DEF loadVars, PostReport
  <2> QED
    BY <2>1, <2>3, <2>4 DEF TrayInv
<1>23. CASE LateUpdate
  <2>1. NlsInv'
    <3>1. NlsTypes'
      BY <1>0, <1>23 DEF NlsInv, NlsTypes, LateUpdate
    <3>2. MapKnown' /\ LifeKnown'
      BY <1>0, <1>23 DEF NlsInv, NlsTypes, MapKnown, LifeKnown, LateUpdate
    <3>3. NlsKnown'
      BY <1>0, <1>23 DEF NlsInv, NlsTypes, MapKnown, LifeKnown, NlsKnown, Off, RestoreComes, Restored, LateUpdate
    <3> QED
      BY <3>1, <3>2, <3>3 DEF NlsInv
  <2>2. WindowTypes' /\ UNCHANGED <<enabled, icon, explorer>>
    BY <1>0, <1>23, TasktrayAssumption DEF WindowTypes, trayVars, loadVars, LateUpdate
  <2>3. IconInv'
    BY <1>0, <2>2, IconRests
  <2>4. SettingsKnown'
    BY <1>0, <1>23, SettingsRest DEF loadVars, LateUpdate
  <2> QED
    BY <2>1, <2>3, <2>4 DEF TrayInv
<1>24. CASE SyncBegins
  <2>1. NlsInv'
    BY <1>0, <1>24, NlsRests DEF SyncBegins
  <2>2. WindowTypes' /\ UNCHANGED <<enabled, icon, explorer>>
    BY <1>0, <1>24, TasktrayAssumption DEF WindowTypes, trayVars, loadVars, SyncBegins
  <2>3. IconInv'
    BY <1>0, <2>2, IconRests
  <2>4. SettingsKnown'
    BY <1>0, <1>24, SettingsRest DEF loadVars, SyncBegins
  <2> QED
    BY <2>1, <2>3, <2>4 DEF TrayInv
<1>25. CASE SyncNotify
  <2>1. NlsInv'
    BY <1>0, <1>25, NlsRests DEF SyncNotify
  <2>2. WindowTypes' /\ UNCHANGED <<enabled, icon, explorer>>
    BY <1>0, <1>25, TasktrayAssumption DEF WindowTypes, trayVars, loadVars, SyncNotify
  <2>3. IconInv'
    BY <1>0, <2>2, IconRests
  <2>4. SettingsKnown'
    BY <1>0, <1>25, SettingsRest DEF loadVars, SyncNotify
  <2> QED
    BY <2>1, <2>3, <2>4 DEF TrayInv
<1>26. CASE SyncTimeout
  <2>1. NlsInv'
    BY <1>0, <1>26, NlsRests DEF SyncTimeout
  <2>2. WindowTypes' /\ UNCHANGED <<enabled, icon, explorer>>
    BY <1>0, <1>26, TasktrayAssumption DEF WindowTypes, trayVars, loadVars, SyncTimeout
  <2>3. IconInv'
    BY <1>0, <2>2, IconRests
  <2>4. SettingsKnown'
    BY <1>0, <1>26, SettingsRest DEF loadVars, SyncTimeout
  <2> QED
    BY <2>1, <2>3, <2>4 DEF TrayInv
<1>27. CASE UNCHANGED tasktrayVars
  <2>1. UNCHANGED <<life, session, enabled, nlsVars, trayVars, dialog, loadVars, helper, budget>>
    BY <1>27 DEF tasktrayVars
  <2>2. WindowTypes' /\ UNCHANGED <<enabled, icon, explorer>>
    BY <1>0, <2>1 DEF WindowTypes, trayVars, loadVars
  <2> QED
    BY <1>0, <2>1, <2>2, NlsRests, IconRests, SettingsRest DEF TrayInv, loadVars
<1> QED
  BY <1>1, <1>2, <1>3, <1>4, <1>5, <1>6, <1>7, <1>8, <1>9, <1>10, <1>11, <1>12, <1>13, <1>14, <1>15, <1>16, <1>17, <1>18, <1>19, <1>20, <1>21, <1>22, <1>23, <1>24, <1>25, <1>26, <1>27
  DEF TasktrayNext, Window, Worker, Ending

\* Whatever the options, the messages and their number: the registry has the user's map
\* whenever FixScancodeMap is not at work, until it cannot be written back, which is
\* reported; the icon tells the truth, and the engine's setting exists.  With
\* escapeNLSKeys, and nobody to enable mayu from a session that is not there, also the
\* keys of a session that is locked, disconnected or left are restored once
\* FixScancodeMap's thread has served its requests, unless one was refused.  (Without that
\* option the last part is false, see NlsRestored.)
THEOREM TasktrayIsSafe ==
  TasktraySpec =>
    /\ [](TasktrayTypeOK /\ RegistryRestored /\ IconHonest /\ SettingAlive)
    /\ EscapeNlsKeys /\ ~AnyTime => []TasktraySafe
<1>1. TasktrayInit => TrayInv
  <2>0. TasktrayInit => late \in 0..2 /\ posted \in Seq(Reports) /\ budget \in 0..MaxEvents
    BY TasktrayAssumption DEF TasktrayInit
  <2>1. TasktrayInit => NlsTypes
    BY <2>0 DEF TasktrayInit, NlsTypes
  <2>2. TasktrayInit => MapKnown /\ LifeKnown /\ NlsKnown
    BY DEF TasktrayInit, MapKnown, LifeKnown, NlsKnown, Off
  <2>3. TasktrayInit => IconInv
    BY <2>0 DEF TasktrayInit, IconInv, WindowTypes, IconKnown
  <2>4. TasktrayInit => SettingsKnown
    BY DEF TasktrayInit, SettingsKnown, Settings
  <2> QED
    BY <2>1, <2>2, <2>3, <2>4 DEF TrayInv, NlsInv
<1>2. TrayInv /\ [TasktrayNext]_tasktrayVars => TrayInv'
  BY TrayStep
<1>3. TrayInv => TasktrayTypeOK /\ RegistryRestored /\ IconHonest /\ SettingAlive
  <2> SUFFICES ASSUME TrayInv PROVE TasktrayTypeOK /\ RegistryRestored /\ IconHonest /\ SettingAlive
    OBVIOUS
  <2>1. /\ enabled \in BOOLEAN /\ nls \in BOOLEAN /\ map \in BOOLEAN /\ kept \in BOOLEAN /\ failed \in BOOLEAN
        /\ unwritten \in BOOLEAN /\ retryBox \in BOOLEAN /\ explorer \in BOOLEAN /\ dialog \in BOOLEAN /\ syncing \in BOOLEAN
    BY DEF TrayInv, NlsInv, NlsTypes, IconInv, WindowTypes
  <2>2. {enabled, nls, map, kept, failed, unwritten, retryBox, explorer, dialog, syncing} \subseteq BOOLEAN
    BY <2>1
  <2>3. {loading, setting, inUse} \cup alive \subseteq Settings /\ SettingAlive
    BY DEF TrayInv, SettingsKnown, Settings, SettingAlive
  <2>4. \A i \in DOMAIN posted : posted[i] \in Reports
    BY DEF TrayInv, NlsInv, NlsTypes
  <2>5. TasktrayTypeOK
    BY <2>2, <2>3, <2>4 DEF TrayInv, NlsInv, NlsTypes, IconInv, WindowTypes, TasktrayTypeOK, Reports
  <2>6. RegistryRestored /\ IconHonest
    BY DEF TrayInv, NlsInv, IconInv, MapKnown, IconKnown, RegistryRestored, IconHonest
  <2> QED
    BY <2>3, <2>5, <2>6
<1>4. ASSUME EscapeNlsKeys /\ ~AnyTime
      PROVE  TrayInv => TasktraySafe
  <2>1. TrayInv => NlsRestored /\ NlsAway
    BY <1>4 DEF TrayInv, NlsInv, LifeKnown, NlsKnown, Off, RestoreComes, Restored, NlsRestored, NlsAway
  <2> QED
    BY <1>3, <2>1 DEF TasktraySafe
<1>5. TasktraySpec => []TrayInv
  BY <1>1, <1>2, PTL DEF TasktraySpec
<1>6. TasktraySpec => [](TasktrayTypeOK /\ RegistryRestored /\ IconHonest /\ SettingAlive)
  BY <1>3, <1>5, PTL
<1>7. ASSUME EscapeNlsKeys /\ ~AnyTime
      PROVE  TasktraySpec => []TasktraySafe
  <2>1. TrayInv => TasktraySafe
    BY <1>4, <1>7
  <2> QED
    BY <1>5, <2>1, PTL
<1> QED
  BY <1>6, <1>7

(* --------------------------- The DLL's notes to mayu --------------------------- *)

Notes == [type : {"setFocus", "lockState", "threadAttach", "threadDetach", "sync"},
          from : Proc, focus : BOOLEAN, lock : BOOLEAN]

FocusKind == {n \in Notes : n.type = "setFocus"}
LockKind == {n \in Notes : n.type = "lockState"}
ThreadKind(p) == {n \in Notes : n.type \in {"threadAttach", "threadDetach"} /\ n.from = p}

FocusOf(p) == {n \in Notes : n.focus /\ n.from = p}
LockIs(l) == {n \in Notes : n.lock = l}
Leaving == {n \in Notes : n.type = "threadDetach"}

DllGlobals == [loaded : BOOLEAN, init : BOOLEAN, slot : Nat, tray : Nat, focus : BOOLEAN, opened : Nat]

DllShape ==
  /\ mayu \in BOOLEAN /\ lock \in BOOLEAN /\ eLock \in BOOLEAN /\ synchronizing \in BOOLEAN
  /\ run \in 0..MaxRuns /\ moves \in 0..MaxMoves /\ (mayu => run # 0)
  /\ foreground \in Proc \cup {Nobody} /\ eFocus \in Proc \cup {Nobody}
  /\ hung \subseteq Proc /\ attached \subseteq Proc
  /\ told \in [focus : BOOLEAN, lock : BOOLEAN, heard : BOOLEAN]
  /\ mail \in Seq(Notes)

\* A DLL has the handle of the run that it joined, or nothing.
Joined(d, n) ==
  /\ d.slot = d.tray /\ (d.loaded <=> d.init)
  /\ d.init => d.slot \in 1..n /\ d.opened = 1
  /\ ~d.init => d.slot = 0 /\ d.opened = 0 /\ ~d.focus

DllsKnown == dll \in [Proc -> DllGlobals] /\ \A p \in Proc : Joined(dll[p], run)

\* A process of this run that believes to have the focus has it, and the one that has
\* got it since mayu started believes it.
FocusKnown ==
  mayu => /\ \A q \in Proc : ~Stale(q) /\ dll[q].focus => foreground = q
          /\ told.focus /\ foreground \in Proc => dll[foreground].init /\ dll[foreground].focus

\* The engine knows, or will when it has read the mail ...
FocusTold ==
  mayu /\ told.focus /\ foreground \in Proc /\ ~Stale(foreground) =>
    \/ NoneIn(mail, FocusKind) /\ eFocus = foreground
    \/ EndsIn(mail, FocusKind, FocusOf(foreground))

LockTold ==
  mayu /\ told.heard =>
    \/ NoneIn(mail, LockKind) /\ eLock = lock
    \/ ~synchronizing /\ EndsIn(mail, LockKind, LockIs(lock))

ThreadsTold ==
  mayu => \A p \in Proc :
    /\ Stale(p) => NoneIn(mail, ThreadKind(p)) /\ p \notin attached
    /\ ~dll[p].loaded => \/ NoneIn(mail, ThreadKind(p)) /\ p \notin attached
                         \/ EndsIn(mail, ThreadKind(p), Leaving)

DllInv == DllShape /\ DllsKnown /\ FocusKnown /\ FocusTold /\ LockTold /\ ThreadsTold

LEMMA NotesTyped ==
  ASSUME NEW p \in Proc, NEW t \in {"setFocus", "lockState", "threadAttach", "threadDetach", "sync"}
  PROVE  /\ Note(p, t) \in Notes /\ Note(p, t).type = t /\ Note(p, t).from = p
BY DEF Note, Notes

LEMMA LockNoteTyped ==
  ASSUME NEW p \in Proc, NEW l \in BOOLEAN
  PROVE  LockNote(p, l) \in Notes /\ LockNote(p, l).lock = l /\ LockNote(p, l).type = "lockState"
<1>1. Note(p, "lockState") \in Notes /\ Note(p, "lockState").type = "lockState"
  BY NotesTyped
<1> QED
  BY <1>1 DEF LockNote, Notes

LEMMA FocusNoteTyped ==
  ASSUME NEW p \in Proc, NEW f \in BOOLEAN, NEW n, n = [Note(p, "setFocus") EXCEPT !.focus = f]
  PROVE  n \in Notes /\ n.focus = f /\ n.type = "setFocus" /\ n.from = p
<1>1. Note(p, "setFocus") \in Notes /\ Note(p, "setFocus").type = "setFocus" /\ Note(p, "setFocus").from = p
  BY NotesTyped
<1> QED
  BY <1>1 DEF Notes

\* What a hook procedure does to a process that may open mailslot and memory.
LEMMA HookDoes ==
  ASSUME NoSlot = {}, NoMap = {}, DllShape, DllsKnown, mayu,
         NEW p \in Proc, NEW ns \in Seq(Notes), NEW f \in BOOLEAN, Hook(p, ns, f)
  PROVE  /\ UNCHANGED <<eFocus, eLock, attached, synchronizing>>
         /\ Greeting(p) \in {<<>>, <<Note(p, "threadAttach")>>}
         /\ mail' = IF Stale(p) THEN mail ELSE mail \o (Greeting(p) \o ns)
         /\ \E d \in DllGlobals : /\ dll' = [dll EXCEPT ![p] = d]
                                  /\ Joined(d, run) /\ d.init /\ d.focus = f /\ (d.tray # run <=> Stale(p))
<1> DEFINE d == [Initialized(p) EXCEPT !.focus = f]
<1>0. run \in 1..MaxRuns /\ MaxRuns \in Nat
  BY HookDllAssumption DEF DllShape
<1>1. d \in DllGlobals /\ Joined(d, run) /\ d.init /\ d.focus = f /\ (d.tray # run <=> Stale(p))
  <2>0. dll[p] \in DllGlobals /\ Joined(dll[p], run)
    BY DEF DllsKnown
  <2>1. CASE ~dll[p].init
    <3>1. Initialized(p) = [dll[p] EXCEPT !.loaded = TRUE, !.init = TRUE, !.slot = run, !.opened = @ + 1, !.tray = run]
      BY <2>1 DEF Initialized
    <3>2. Initialized(p) \in DllGlobals /\ Joined(Initialized(p), run) /\ Initialized(p).init /\ Initialized(p).tray = run
      <4>1. Initialized(p) \in DllGlobals
        <5>1. dll[p].opened + 1 \in Nat /\ run \in Nat
          BY <2>0, <1>0 DEF DllGlobals
        <5> DEFINE e == [dll[p] EXCEPT !.slot = run, !.opened = @ + 1, !.tray = run]
        <5>2. e \in DllGlobals
          BY <2>0, <5>1 DEF DllGlobals
        <5>3. Initialized(p) = [e EXCEPT !.loaded = TRUE, !.init = TRUE]
          BY <2>0, <3>1 DEF DllGlobals
        <5> HIDE DEF e
        <5> QED
          BY <5>2, <5>3 DEF DllGlobals
      <4>2. Initialized(p).slot = run /\ Initialized(p).tray = run
        BY <2>0, <3>1 DEF DllGlobals
      <4>3. Initialized(p).loaded /\ Initialized(p).init
        BY <2>0, <3>1 DEF DllGlobals
      <4>4. Initialized(p).opened = 1
        BY <2>0, <2>1, <3>1 DEF DllGlobals, Joined
      <4> QED
        BY <4>1, <4>2, <4>3, <4>4, <1>0 DEF Joined
    <3> QED
      BY <3>2, <2>1 DEF Joined, DllGlobals, Stale
  <2>2. CASE dll[p].init
    <3>1. Initialized(p) = dll[p]
      BY <2>2 DEF Initialized
    <3> QED
      BY <3>1, <2>0, <2>2 DEF Joined, DllGlobals, Stale
  <2> QED
    BY <2>1, <2>2
<1>2. dll' = [dll EXCEPT ![p] = d] /\ Notify(d, Greeting(p) \o ns)
  BY DEF Hook
<1>3. ~ViaCopyData(d, Greeting(p) \o ns) /\ (ViaMailslot(d) <=> ~Stale(p))
  BY <1>0, <1>1 DEF ViaCopyData, ViaMailslot, Joined, Invalid
<1>4. Greeting(p) \in {<<>>, <<Note(p, "threadAttach")>>}
  BY DEF Greeting
<1> HIDE DEF d
<1>5. /\ mail' = IF ViaMailslot(d) THEN mail \o (Greeting(p) \o ns) ELSE mail
      /\ EngineBecomes(EngineState)
  BY <1>2, <1>3 DEF Notify
<1>6. UNCHANGED <<eFocus, eLock, attached, synchronizing>>
  BY <1>5 DEF EngineBecomes, EngineState
<1> QED
  BY <1>1, <1>2, <1>3, <1>4, <1>5, <1>6

\* A hook in p sends ns and leaves f: the notes that arrive, and what the DLLs hold.
Sends(p, s, f) ==
  /\ mayu /\ mayu' = mayu /\ run' = run /\ UNCHANGED <<eFocus, eLock, attached, synchronizing>>
  /\ s \in Seq(Notes) /\ mail' = IF Stale(p) THEN mail ELSE mail \o s
  /\ \A q \in Proc : /\ Stale(q)' <=> Stale(q)
                     /\ q # p => dll'[q] = dll[q]
  /\ dll'[p].loaded /\ dll'[p].init /\ dll'[p].focus = f

LEMMA HookSends ==
  ASSUME NoSlot = {}, NoMap = {}, DllShape, DllsKnown, mayu, mayu' = mayu, run' = run,
         NEW p \in Proc, NEW ns \in Seq(Notes), NEW f \in BOOLEAN, Hook(p, ns, f)
  PROVE  Sends(p, Greeting(p) \o ns, f) /\ DllsKnown' /\ mail' \in Seq(Notes)
<1>1. PICK d \in DllGlobals : /\ dll' = [dll EXCEPT ![p] = d]
                              /\ Joined(d, run) /\ d.init /\ d.focus = f /\ (d.tray # run <=> Stale(p))
  BY HookDoes
<1>2. UNCHANGED <<eFocus, eLock, attached, synchronizing>> /\ mail' = IF Stale(p) THEN mail ELSE mail \o (Greeting(p) \o ns)
  BY HookDoes
<1>3. Greeting(p) \o ns \in Seq(Notes)
  <2>1. Greeting(p) \in Seq(Notes)
    <3>1. Greeting(p) \in {<<>>, <<Note(p, "threadAttach")>>} /\ Note(p, "threadAttach") \in Notes
      BY HookDoes, NotesTyped
    <3>2. <<Note(p, "threadAttach")>> \in Seq(Notes) /\ <<>> \in Seq(Notes)
      BY <3>1
    <3> QED
      BY <3>1, <3>2
  <2> QED
    BY <2>1
<1>4. mail' \in Seq(Notes)
  BY <1>2, <1>3 DEF DllShape
<1>5. dll'[p] = d /\ \A q \in Proc : q # p => dll'[q] = dll[q]
  BY <1>1 DEF DllsKnown
<1>6. \A q \in Proc : Stale(q)' <=> Stale(q)
  BY <1>1, <1>5 DEF Stale
<1>7. DllsKnown'
  BY <1>1, <1>5 DEF DllsKnown
<1>8. dll'[p].loaded /\ dll'[p].init /\ dll'[p].focus = f
  BY <1>1, <1>5 DEF Joined
<1> QED
  BY <1>2, <1>3, <1>4, <1>5, <1>6, <1>7, <1>8 DEF Sends

LEMMA Grown ==
  ASSUME NEW m \in Seq(Notes), NEW s \in Seq(Notes), NEW n, n = m \/ n = m \o s, NEW K, NEW G, NoneIn(s, K)
  PROVE  (NoneIn(m, K) => NoneIn(n, K)) /\ (EndsIn(m, K, G) => EndsIn(n, K, G))
<1>1. NoneIn(m, K) => NoneIn(m \o s, K)
  BY NoneAfter
<1>2. EndsIn(m, K, G) => EndsIn(m \o s, K, G)
  BY EndsBefore
<1> QED
  BY <1>1, <1>2

\* The greeting is of no kind but one.
LEMMA Greeted ==
  ASSUME NEW p \in Proc, NEW ns \in Seq(Notes), NEW K, NEW G, Note(p, "threadAttach") \notin K,
         Greeting(p) \in {<<>>, <<Note(p, "threadAttach")>>}
  PROVE  (NoneIn(ns, K) => NoneIn(Greeting(p) \o ns, K)) /\ (EndsIn(ns, K, G) => EndsIn(Greeting(p) \o ns, K, G))
<1>1. NoneIn(Greeting(p), K)
  BY OneElement
<1>2. Greeting(p) \in Seq(Notes)
  <2>1. <<Note(p, "threadAttach")>> \in Seq(Notes) /\ <<>> \in Seq(Notes)
    BY NotesTyped
  <2> QED
    BY <2>1
<1> QED
  BY <1>1, <1>2, NoneAfter, EndsAfter

LEMMA SendsThreads ==
  ASSUME DllShape, ThreadsTold, NEW p \in Proc, NEW s, NEW f, Sends(p, s, f),
         \A q \in Proc : q # p => NoneIn(s, ThreadKind(q))
  PROVE  ThreadsTold'
<1>1. mail \in Seq(Notes) /\ s \in Seq(Notes) /\ (mail' = mail \/ mail' = mail \o s) /\ mayu /\ attached' = attached
  BY DEF DllShape, Sends
<1>2. ASSUME NEW q \in Proc, Stale(q)'
      PROVE  NoneIn(mail', ThreadKind(q)) /\ q \notin attached'
  <2>1. Stale(q) /\ NoneIn(mail, ThreadKind(q)) /\ q \notin attached
    BY <1>1, <1>2 DEF Sends, ThreadsTold
  <2>2. CASE q = p
    BY <1>1, <2>1, <2>2 DEF Sends
  <2>3. CASE q # p
    BY <1>1, <2>1, <2>3, Grown
  <2> QED
    BY <2>2, <2>3
<1>3. ASSUME NEW q \in Proc, ~dll'[q].loaded
      PROVE  \/ NoneIn(mail', ThreadKind(q)) /\ q \notin attached'
             \/ EndsIn(mail', ThreadKind(q), Leaving)
  <2>1. q # p /\ ~dll[q].loaded
    BY <1>3 DEF Sends
  <2>2. NoneIn(s, ThreadKind(q))
    BY <2>1
  <2>3. /\ NoneIn(mail, ThreadKind(q)) => NoneIn(mail', ThreadKind(q))
        /\ EndsIn(mail, ThreadKind(q), Leaving) => EndsIn(mail', ThreadKind(q), Leaving)
    BY <1>1, <2>2, Grown
  <2> QED
    BY <1>1, <2>1, <2>3 DEF ThreadsTold
<1> QED
  BY <1>2, <1>3 DEF ThreadsTold, ThreadKind, Leaving, Notes, NoneIn, EndsIn

\* A hook that tells nothing of the lock.
LEMMA SendsLock ==
  ASSUME DllShape, LockTold, NEW p \in Proc, NEW s, NEW f, Sends(p, s, f), NoneIn(s, LockKind),
         lock' = lock, told.heard' = told.heard
  PROVE  LockTold'
<1>1. mail \in Seq(Notes) /\ s \in Seq(Notes) /\ (mail' = mail \/ mail' = mail \o s) /\ mayu
      /\ eLock' = eLock /\ synchronizing' = synchronizing
  BY DEF DllShape, Sends
<1>2. /\ NoneIn(mail, LockKind) => NoneIn(mail', LockKind)
      /\ EndsIn(mail, LockKind, LockIs(lock)) => EndsIn(mail', LockKind, LockIs(lock))
  BY <1>1, Grown
<1>3. (EndsIn(mail, LockKind, LockIs(lock)))' <=> EndsIn(mail', LockKind, LockIs(lock))
  BY DEF LockIs
<1> QED
  BY <1>1, <1>2 DEF LockTold

\* ... and one that tells it.
LEMMA SendsLockNow ==
  ASSUME DllShape, NEW p \in Proc, NEW s, NEW f, Sends(p, s, f),
         NEW l, l = lock', EndsIn(s, LockKind, LockIs(l)),
         told.heard' => ~synchronizing /\ ~Stale(p)
  PROVE  LockTold'
<1>1. mail \in Seq(Notes) /\ s \in Seq(Notes) /\ synchronizing' = synchronizing
  BY DEF DllShape, Sends
<1>2. EndsIn(mail \o s, LockKind, LockIs(l))
  BY <1>1, EndsAfter
<1>3. ~Stale(p) => mail' = mail \o s
  BY DEF Sends
<1> QED
  BY <1>1, <1>2, <1>3 DEF LockTold

LEMMA SendsFocus ==
  ASSUME DllShape, FocusTold, NEW p \in Proc, NEW s, NEW f, Sends(p, s, f), NoneIn(s, FocusKind),
         foreground' = foreground, told.focus' = told.focus
  PROVE  FocusTold'
<1>1. mail \in Seq(Notes) /\ s \in Seq(Notes) /\ (mail' = mail \/ mail' = mail \o s) /\ mayu /\ eFocus' = eFocus
  BY DEF DllShape, Sends
<1>2. /\ NoneIn(mail, FocusKind) => NoneIn(mail', FocusKind)
      /\ EndsIn(mail, FocusKind, FocusOf(foreground)) => EndsIn(mail', FocusKind, FocusOf(foreground))
  BY <1>1, Grown
<1>3. foreground \in Proc => (Stale(foreground)' <=> Stale(foreground))
  BY DEF Sends, Stale
<1> QED
  BY <1>1, <1>2, <1>3 DEF FocusTold

LEMMA SendsFocusKnown ==
  ASSUME DllShape, FocusKnown, NEW p \in Proc, NEW s, NEW f, Sends(p, s, f), f = dll[p].focus,
         foreground' = foreground, told.focus' = told.focus
  PROVE  FocusKnown'
<1>1. \A q \in Proc : dll'[q].focus = dll[q].focus /\ (dll[q].init => dll'[q].init) /\ (Stale(q)' <=> Stale(q))
  BY DEF Sends
<1> QED
  BY <1>1 DEF FocusKnown, Sends

LEMMA OtherKinds ==
  ASSUME NEW p \in Proc
  PROVE  /\ Note(p, "threadAttach") \notin FocusKind /\ Note(p, "threadAttach") \notin LockKind
         /\ Note(p, "threadDetach") \notin FocusKind /\ Note(p, "threadDetach") \notin LockKind
         /\ Note(p, "sync") \notin FocusKind /\ Note(p, "sync") \notin LockKind
         /\ \A q \in Proc : /\ Note(p, "sync") \notin ThreadKind(q)
                            /\ q # p => Note(p, "threadAttach") \notin ThreadKind(q) /\ Note(p, "threadDetach") \notin ThreadKind(q)
BY NotesTyped DEF FocusKind, LockKind, ThreadKind

\* The greeting and notes that are not of threads disturb the threads' notes of nobody else.
LEMMA HookThreadsTold ==
  ASSUME DllShape, ThreadsTold, NEW p \in Proc, NEW ns \in Seq(Notes), NEW f,
         Sends(p, Greeting(p) \o ns, f), \A q \in Proc : NoneIn(ns, ThreadKind(q)),
         Greeting(p) \in {<<>>, <<Note(p, "threadAttach")>>}
  PROVE  ThreadsTold'
<1>1. ASSUME NEW q \in Proc, q # p PROVE NoneIn(Greeting(p) \o ns, ThreadKind(q))
  <2>1. Note(p, "threadAttach") \notin ThreadKind(q) /\ NoneIn(ns, ThreadKind(q))
    BY <1>1, OtherKinds
  <2> QED
    BY <2>1, Greeted
<1> QED
  BY <1>1, SendsThreads

LEMMA SimpleHook ==
  ASSUME NoSlot = {}, NoMap = {}, DllInv, mayu, UNCHANGED <<mayu, run, foreground, lock, hung, told>>, Move,
         NEW p \in Proc, NEW ns \in Seq(Notes), ns = <<>> \/ ns = <<Note(p, "sync")>>, Hook(p, ns, dll[p].focus)
  PROVE  DllInv'
<1>0. DllShape /\ DllsKnown /\ FocusKnown /\ FocusTold /\ LockTold /\ ThreadsTold /\ dll[p].focus \in BOOLEAN
  BY DEF DllInv, DllsKnown, DllGlobals
<1>1. Sends(p, Greeting(p) \o ns, dll[p].focus) /\ DllsKnown' /\ mail' \in Seq(Notes)
  BY <1>0, HookSends
<1>2. Greeting(p) \in {<<>>, <<Note(p, "threadAttach")>>}
  BY DEF Greeting
<1>3. NoneIn(ns, FocusKind) /\ NoneIn(ns, LockKind) /\ \A q \in Proc : NoneIn(ns, ThreadKind(q))
  BY OneElement, OtherKinds
<1>4. NoneIn(Greeting(p) \o ns, FocusKind) /\ NoneIn(Greeting(p) \o ns, LockKind)
  BY <1>2, <1>3, Greeted, OtherKinds
<1>5. ThreadsTold'
  BY <1>0, <1>1, <1>2, <1>3, HookThreadsTold
<1>6. LockTold'
  BY <1>0, <1>1, <1>4, SendsLock
<1>7. FocusTold'
  BY <1>0, <1>1, <1>4, SendsFocus
<1>8. FocusKnown'
  BY <1>0, <1>1, SendsFocusKnown
<1>9. DllShape'
  BY <1>0, <1>1, HookDllAssumption DEF DllShape, Sends, Move
<1> QED
  BY <1>1, <1>5, <1>6, <1>7, <1>8, <1>9 DEF DllInv

LEMMA LockKeyKeeps ==
  ASSUME NoSlot = {}, NoMap = {}, DllInv, mayu, NEW p \in Proc, LockKey(p)
  PROVE  DllInv'
<1> DEFINE ns == <<LockNote(p, ~lock)>>
<1>0. DllShape /\ DllsKnown /\ FocusKnown /\ FocusTold /\ LockTold /\ ThreadsTold /\ dll[p].focus \in BOOLEAN
  BY DEF DllInv, DllsKnown, DllGlobals
<1>a. /\ Hook(p, ns, dll[p].focus) /\ UNCHANGED <<mayu, run, foreground, hung>> /\ lock' = ~lock /\ Move
      /\ told' = [told EXCEPT !.lock = TRUE, !.heard = ~synchronizing /\ ~Stale(p)]
  BY DEF LockKey
<1>b. /\ LockNote(p, ~lock) \in Notes /\ LockNote(p, ~lock).lock = ~lock /\ LockNote(p, ~lock).type = "lockState"
  BY <1>0, LockNoteTyped DEF DllShape
<1>c. ns \in Seq(Notes)
  BY <1>b
<1>1. Sends(p, Greeting(p) \o ns, dll[p].focus) /\ DllsKnown' /\ mail' \in Seq(Notes)
  BY <1>0, <1>a, <1>c, HookSends
<1>2. Greeting(p) \in {<<>>, <<Note(p, "threadAttach")>>}
  BY DEF Greeting
<1>d. /\ LockNote(p, ~lock) \notin FocusKind /\ LockNote(p, ~lock) \in LockKind /\ LockNote(p, ~lock) \in LockIs(~lock)
      /\ \A q \in Proc : LockNote(p, ~lock) \notin ThreadKind(q)
  BY <1>b DEF FocusKind, LockKind, LockIs, ThreadKind
<1>3. NoneIn(ns, FocusKind) /\ EndsIn(ns, LockKind, LockIs(~lock)) /\ \A q \in Proc : NoneIn(ns, ThreadKind(q))
  BY <1>d, OneElement
<1> HIDE DEF ns
<1>4. NoneIn(Greeting(p) \o ns, FocusKind) /\ EndsIn(Greeting(p) \o ns, LockKind, LockIs(~lock))
  BY <1>2, <1>3, <1>c, Greeted, OtherKinds
<1>e. /\ told'.focus = told.focus /\ (told'.heard => ~synchronizing /\ ~Stale(p))
      /\ told' \in [focus : BOOLEAN, lock : BOOLEAN, heard : BOOLEAN]
  BY <1>0, <1>a DEF DllShape, Stale
<1>5. ThreadsTold'
  BY <1>0, <1>1, <1>2, <1>3, <1>c, HookThreadsTold
<1>6. LockTold'
  BY <1>0, <1>1, <1>4, <1>a, <1>e, SendsLockNow
<1>7. FocusTold'
  BY <1>0, <1>1, <1>4, <1>a, <1>e, SendsFocus
<1>8. FocusKnown'
  BY <1>0, <1>1, <1>a, <1>e, SendsFocusKnown
<1>9. DllShape'
  BY <1>0, <1>1, <1>a, <1>e, HookDllAssumption DEF DllShape, Sends, Move
<1> QED
  BY <1>1, <1>5, <1>6, <1>7, <1>8, <1>9 DEF DllInv

LEMMA GetFocusKeeps ==
  ASSUME NoSlot = {}, NoMap = {}, DllInv, mayu, NEW p \in Proc, GetFocus(p)
  PROVE  DllInv'
<1> DEFINE fs == FocusNotes(p, TRUE)
           ns == fs \o <<LockNote(p, lock)>>
<1>0. DllShape /\ DllsKnown /\ FocusKnown /\ FocusTold /\ LockTold /\ ThreadsTold /\ dll[p].focus \in BOOLEAN
  BY DEF DllInv, DllsKnown, DllGlobals
<1>a. /\ Hook(p, ns, TRUE) /\ UNCHANGED <<mayu, run, lock, hung>> /\ foreground = Nobody /\ foreground' = p /\ Move
      /\ told' = [focus |-> TRUE, lock |-> TRUE, heard |-> ~synchronizing /\ ~Stale(p)]
  BY DEF GetFocus
<1>b. /\ LockNote(p, lock) \in Notes /\ LockNote(p, lock).lock = lock /\ LockNote(p, lock).type = "lockState"
  BY <1>0, LockNoteTyped DEF DllShape
<1>c. PICK x : x = [Note(p, "setFocus") EXCEPT !.focus = TRUE]
  OBVIOUS
<1>d. x \in Notes /\ x.focus = TRUE /\ x.type = "setFocus" /\ x.from = p
  BY <1>c, FocusNoteTyped, ZenonT(40)
<1>f. (fs = <<>> \/ fs = <<x>>) /\ (~Stale(p) => fs = <<x>>)
  <2>1. ~Stale(p) => dll[p].focus = FALSE
    BY <1>0, <1>a, HookDllAssumption DEF FocusKnown
  <2> QED
    BY <1>0, <1>c, <2>1 DEF FocusNotes
<1>g. fs \in Seq(Notes) /\ <<LockNote(p, lock)>> \in Seq(Notes) /\ ns \in Seq(Notes)
  <2>1. <<x>> \in Seq(Notes) /\ <<>> \in Seq(Notes) /\ <<LockNote(p, lock)>> \in Seq(Notes)
    BY <1>b, <1>d
  <2>2. fs \in Seq(Notes)
    BY <1>f, <2>1
  <2>3. ns \in Seq(Notes)
    BY <2>1, <2>2, ConcatProperties
  <2> QED
    BY <2>1, <2>2, <2>3
<1>1. Sends(p, Greeting(p) \o ns, TRUE) /\ DllsKnown' /\ mail' \in Seq(Notes)
  BY <1>0, <1>a, <1>g, HookSends
<1>2. Greeting(p) \in {<<>>, <<Note(p, "threadAttach")>>}
  BY DEF Greeting
<1>h. /\ LockNote(p, lock) \notin FocusKind /\ LockNote(p, lock) \in LockKind /\ LockNote(p, lock) \in LockIs(lock)
      /\ \A q \in Proc : LockNote(p, lock) \notin ThreadKind(q) /\ x \notin ThreadKind(q)
      /\ x \in FocusKind /\ x \in FocusOf(p)
  BY <1>b, <1>d DEF FocusKind, LockKind, LockIs, ThreadKind, FocusOf
<1>i. /\ ~Stale(p) => EndsIn(fs, FocusKind, FocusOf(p))
      /\ NoneIn(<<LockNote(p, lock)>>, FocusKind) /\ EndsIn(<<LockNote(p, lock)>>, LockKind, LockIs(lock))
      /\ \A q \in Proc : NoneIn(fs, ThreadKind(q)) /\ NoneIn(<<LockNote(p, lock)>>, ThreadKind(q))
  BY <1>f, <1>h, OneElement
<1>3. /\ ~Stale(p) => EndsIn(ns, FocusKind, FocusOf(p))
      /\ EndsIn(ns, LockKind, LockIs(lock)) /\ \A q \in Proc : NoneIn(ns, ThreadKind(q))
  <2>1. ~Stale(p) => EndsIn(ns, FocusKind, FocusOf(p))
    BY <1>g, <1>i, EndsBefore
  <2>2. EndsIn(ns, LockKind, LockIs(lock))
    BY <1>g, <1>i, EndsAfter
  <2>3. ASSUME NEW q \in Proc PROVE NoneIn(ns, ThreadKind(q))
    BY <1>g, <1>i, NoneAfter
  <2> QED
    BY <2>1, <2>2, <2>3
<1> HIDE DEF ns, fs
<1>4. /\ ~Stale(p) => EndsIn(Greeting(p) \o ns, FocusKind, FocusOf(p))
      /\ EndsIn(Greeting(p) \o ns, LockKind, LockIs(lock))
  BY <1>2, <1>3, <1>g, Greeted, OtherKinds
<1>e. /\ told'.focus /\ (told'.heard => ~synchronizing /\ ~Stale(p))
      /\ told' \in [focus : BOOLEAN, lock : BOOLEAN, heard : BOOLEAN]
  BY <1>0, <1>a DEF DllShape, Stale
<1>5. ThreadsTold'
  BY <1>0, <1>1, <1>2, <1>3, <1>g, HookThreadsTold
<1>6. LockTold'
  BY <1>0, <1>1, <1>4, <1>a, <1>e, SendsLockNow
<1>7. FocusTold'
  <2>1. ~Stale(p) => EndsIn(mail \o (Greeting(p) \o ns), FocusKind, FocusOf(p))
    BY <1>0, <1>1, <1>4, EndsAfter DEF DllShape, Sends
  <2>2. (Stale(p)' <=> Stale(p)) /\ (~Stale(p) => mail' = mail \o (Greeting(p) \o ns)) /\ foreground' = p
    BY <1>1, <1>a DEF Sends
  <2> QED
    BY <2>1, <2>2 DEF FocusTold, Stale
<1>8. FocusKnown'
  <2>1. dll'[p].init /\ dll'[p].focus
    BY <1>1 DEF Sends
  <2>2. ASSUME NEW q \in Proc, q # p, ~Stale(q)' PROVE ~dll'[q].focus
    BY <1>0, <1>1, <1>a, <2>2, HookDllAssumption DEF Sends, FocusKnown
  <2> QED
    BY <1>a, <2>1, <2>2 DEF FocusKnown, Stale
<1>9. DllShape'
  BY <1>0, <1>1, <1>a, <1>e, HookDllAssumption DEF DllShape, Sends, Move
<1> QED
  BY <1>1, <1>5, <1>6, <1>7, <1>8, <1>9 DEF DllInv

LEMMA LoseFocusKeeps ==
  ASSUME NoSlot = {}, NoMap = {}, DllInv, mayu, NEW p \in Proc, LoseFocus(p)
  PROVE  DllInv'
<1> DEFINE ns == FocusNotes(p, FALSE)
<1>0. DllShape /\ DllsKnown /\ FocusKnown /\ FocusTold /\ LockTold /\ ThreadsTold
  BY DEF DllInv
<1>a. /\ Hook(p, ns, FALSE) /\ UNCHANGED <<mayu, run, lock, hung, told>> /\ foreground = p /\ foreground' = Nobody /\ Move
  BY DEF LoseFocus
<1>b. PICK x : x = [Note(p, "setFocus") EXCEPT !.focus = FALSE]
  OBVIOUS
<1>c. x \in Notes /\ x.type = "setFocus" /\ x.from = p
  BY <1>b, FocusNoteTyped, ZenonT(40)
<1>d. ns = <<>> \/ ns = <<x>>
  BY <1>b DEF FocusNotes
<1>e. <<x>> \in Seq(Notes) /\ <<>> \in Seq(Notes)
  BY <1>c
<1>f. x \notin LockKind /\ \A q \in Proc : x \notin ThreadKind(q)
  BY <1>c DEF LockKind, ThreadKind
<1> HIDE DEF ns
<1>g. ns \in Seq(Notes)
  BY <1>d, <1>e
<1>1. Sends(p, Greeting(p) \o ns, FALSE) /\ DllsKnown' /\ mail' \in Seq(Notes)
  BY <1>0, <1>a, <1>g, HookSends
<1>2. Greeting(p) \in {<<>>, <<Note(p, "threadAttach")>>}
  BY DEF Greeting
<1>3. NoneIn(ns, LockKind) /\ \A q \in Proc : NoneIn(ns, ThreadKind(q))
  BY <1>d, <1>f, OneElement
<1>4. NoneIn(Greeting(p) \o ns, LockKind)
  BY <1>2, <1>3, <1>g, Greeted, OtherKinds
<1>5. ThreadsTold'
  BY <1>0, <1>1, <1>2, <1>3, <1>g, HookThreadsTold
<1>6. LockTold'
  BY <1>0, <1>1, <1>4, <1>a, SendsLock
<1>7. FocusTold'
  BY <1>a, HookDllAssumption DEF FocusTold
<1>8. FocusKnown'
  <2>1. dll'[p].focus = FALSE
    BY <1>1 DEF Sends
  <2>2. ASSUME NEW q \in Proc, q # p, ~Stale(q)' PROVE ~dll'[q].focus
    BY <1>0, <1>1, <1>a, <2>2 DEF Sends, FocusKnown
  <2> QED
    BY <1>a, <2>1, <2>2, HookDllAssumption DEF FocusKnown, Stale
<1>9. DllShape'
  BY <1>0, <1>1, <1>a, HookDllAssumption DEF DllShape, Sends, Move
<1> QED
  BY <1>1, <1>5, <1>6, <1>7, <1>8, <1>9 DEF DllInv

\* A process that ends while mayu runs says so, if mayu knew it.
LEMMA ExitsKeeps ==
  ASSUME NoSlot = {}, NoMap = {}, DllInv, mayu, NEW p \in Proc, Exits(p)
  PROVE  DllInv'
<1> DEFINE s == <<Note(p, "threadDetach")>>
<1>0. DllShape /\ DllsKnown /\ FocusKnown /\ FocusTold /\ LockTold /\ ThreadsTold /\ mail \in Seq(Notes)
  BY DEF DllInv, DllShape
<1>1. /\ UNCHANGED <<mayu, run, lock, told>> /\ Move /\ hung' = hung \ {p}
      /\ foreground' = IF foreground = p THEN Nobody ELSE foreground
      /\ dll[p].loaded /\ Notify(dll[p], s) /\ dll' = [dll EXCEPT ![p] = Unloaded]
  BY DEF Exits, Detach
<1>2. Joined(dll[p], run) /\ run \in 1..MaxRuns /\ MaxRuns \in Nat /\ dll[p].init
  BY <1>0, <1>1, HookDllAssumption DEF DllsKnown, DllShape, Joined
<1>3. ~ViaCopyData(dll[p], s) /\ (ViaMailslot(dll[p]) <=> ~Stale(p))
  BY <1>2 DEF ViaCopyData, ViaMailslot, Joined, Invalid, Stale
<1>4. s \in Seq(Notes)
  BY NotesTyped
<1> HIDE DEF s
<1>5. mail' = (IF Stale(p) THEN mail ELSE mail \o s) /\ EngineBecomes(EngineState)
  BY <1>1, <1>3 DEF Notify
<1>6. UNCHANGED <<eFocus, eLock, attached, synchronizing>> /\ (mail' = mail \/ mail' = mail \o s) /\ mail' \in Seq(Notes)
  <2>1. UNCHANGED <<eFocus, eLock, attached, synchronizing>>
    BY <1>5 DEF EngineBecomes, EngineState
  <2> QED
    BY <1>0, <1>4, <1>5, <2>1
<1>7. dll'[p] = Unloaded /\ \A q \in Proc : q # p => dll'[q] = dll[q]
  BY <1>0, <1>1 DEF DllsKnown
<1>8. DllsKnown'
  <2>1. Unloaded \in DllGlobals /\ Joined(Unloaded, run)
    BY DEF Unloaded, DllGlobals, Joined
  <2> QED
    BY <1>0, <1>1, <2>1 DEF DllsKnown
<1>9. \A q \in Proc : Stale(q)' <=> Stale(q) /\ q # p
  BY <1>1, <1>7 DEF Stale, Unloaded
<1>10. NoneIn(s, FocusKind) /\ NoneIn(s, LockKind) /\ \A q \in Proc : q # p => NoneIn(s, ThreadKind(q))
  BY OneElement, OtherKinds DEF s
<1>11. EndsIn(s, ThreadKind(p), Leaving)
  BY OneElement, NotesTyped DEF s, ThreadKind, Leaving
<1>12. ThreadsTold'
  <2>1. ASSUME NEW q \in Proc, q # p
        PROVE  /\ NoneIn(mail, ThreadKind(q)) => NoneIn(mail', ThreadKind(q))
               /\ EndsIn(mail, ThreadKind(q), Leaving) => EndsIn(mail', ThreadKind(q), Leaving)
    BY <1>0, <1>4, <1>6, <1>10, <2>1, Grown
  <2>2. CASE Stale(p)
    <3>1. NoneIn(mail', ThreadKind(p)) /\ p \notin attached'
      BY <1>0, <1>5, <1>6, <2>2 DEF ThreadsTold
    <3> QED
      BY <1>0, <1>6, <1>7, <1>9, <2>1, <3>1 DEF ThreadsTold
  <2>3. CASE ~Stale(p)
    <3>1. EndsIn(mail', ThreadKind(p), Leaving)
      BY <1>0, <1>4, <1>5, <1>11, <2>3, EndsAfter
    <3> QED
      BY <1>0, <1>6, <1>7, <1>9, <2>1, <3>1 DEF ThreadsTold
  <2> QED
    BY <2>2, <2>3
<1>13. LockTold'
  <2>1. /\ NoneIn(mail, LockKind) => NoneIn(mail', LockKind)
        /\ EndsIn(mail, LockKind, LockIs(lock)) => EndsIn(mail', LockKind, LockIs(lock))
    BY <1>0, <1>4, <1>6, <1>10, Grown
  <2> QED
    BY <1>0, <1>1, <1>6, <2>1 DEF LockTold
<1>14. FocusTold'
  <2>1. /\ NoneIn(mail, FocusKind) => NoneIn(mail', FocusKind)
        /\ EndsIn(mail, FocusKind, FocusOf(foreground)) => EndsIn(mail', FocusKind, FocusOf(foreground))
    BY <1>0, <1>4, <1>6, <1>10, Grown
  <2>2. foreground' \in Proc => foreground' = foreground /\ foreground # p
    BY <1>1, HookDllAssumption
  <2>3. foreground' \in Proc => (Stale(foreground)' <=> Stale(foreground))
    BY <2>2, <1>9, <1>1, <1>7 DEF Stale
  <2> QED
    BY <1>0, <1>1, <1>6, <2>1, <2>2, <2>3 DEF FocusTold
<1>15. FocusKnown'
  <2>1. dll'[p].focus = FALSE
    BY <1>7 DEF Unloaded
  <2>2. foreground' \in Proc => foreground' = foreground /\ foreground # p
    BY <1>1, HookDllAssumption
  <2>3. ASSUME NEW q \in Proc, ~Stale(q)', dll'[q].focus PROVE foreground' = q
    <3>1. q # p
      BY <2>1, <2>3
    <3>2. ~Stale(q) /\ dll[q].focus
      BY <1>7, <1>9, <2>3, <3>1
    <3> QED
      BY <1>0, <1>1, <3>1, <3>2 DEF FocusKnown
  <2> QED
    BY <1>0, <1>1, <1>7, <2>2, <2>3 DEF FocusKnown, Stale
<1>16. DllShape'
  BY <1>0, <1>1, <1>6, HookDllAssumption DEF DllShape, Move
<1> QED
  BY <1>8, <1>12, <1>13, <1>14, <1>15, <1>16 DEF DllInv

LEMMA ReadKeeps ==
  ASSUME DllInv, ReadMailslot
  PROVE  DllInv'
<1>0. DllShape /\ DllsKnown /\ FocusKnown /\ FocusTold /\ LockTold /\ ThreadsTold /\ mail \in Seq(Notes)
  BY DEF DllInv, DllShape
<1>1. /\ mayu /\ mail # <<>> /\ mail' = Tail(mail) /\ EngineBecomes(Handled(EngineState, Head(mail)))
      /\ UNCHANGED <<mayu, run, foreground, lock, dll, hung, told, moves>>
  BY DEF ReadMailslot
<1>2. PICK n \in Notes : n = Head(mail)
  BY <1>0, <1>1
<1>3. mail' \in Seq(Notes)
  BY <1>0, <1>1
<1>4. n.type \in {"setFocus", "lockState", "threadAttach", "threadDetach", "sync"} /\ n.from \in Proc
      /\ n.focus \in BOOLEAN /\ n.lock \in BOOLEAN
  BY DEF Notes
<1>5. /\ eFocus' = IF n.type = "setFocus" THEN (IF n.focus THEN n.from ELSE Nobody) ELSE eFocus
      /\ eLock' = IF n.type = "lockState" /\ ~synchronizing THEN n.lock ELSE eLock
      /\ attached' = CASE n.type = "threadAttach" -> attached \cup {n.from}
                       [] n.type = "threadDetach" -> attached \ {n.from}
                       [] OTHER -> attached
      /\ synchronizing' = IF n.type = "sync" THEN FALSE ELSE synchronizing
  <2>1. CASE n.type = "setFocus"
    BY <1>1, <1>2, <2>1 DEF EngineBecomes, Handled, EngineState
  <2>2. CASE n.type = "lockState"
    BY <1>1, <1>2, <2>2 DEF EngineBecomes, Handled, EngineState
  <2>3. CASE n.type = "threadAttach"
    BY <1>1, <1>2, <2>3 DEF EngineBecomes, Handled, EngineState
  <2>4. CASE n.type = "threadDetach"
    BY <1>1, <1>2, <2>4 DEF EngineBecomes, Handled, EngineState
  <2>5. CASE n.type = "sync"
    BY <1>1, <1>2, <2>5 DEF EngineBecomes, Handled, EngineState
  <2> QED
    BY <1>4, <2>1, <2>2, <2>3, <2>4, <2>5
<1>6. ASSUME NEW K, NEW G
      PROVE  /\ NoneIn(mail, K) => n \notin K /\ NoneIn(mail', K)
             /\ EndsIn(mail, K, G) => EndsIn(mail', K, G) \/ (n \in K /\ n \in G /\ NoneIn(mail', K))
  BY <1>0, <1>1, <1>2, NoneNext, EndsNext
<1>7. DllShape'
  BY <1>0, <1>1, <1>3, <1>4, <1>5 DEF DllShape
<1>8. DllsKnown' /\ FocusKnown'
  BY <1>0, <1>1 DEF DllsKnown, FocusKnown, Stale
<1>9. FocusTold'
  <2>1. /\ NoneIn(mail, FocusKind) => n \notin FocusKind /\ NoneIn(mail', FocusKind)
        /\ EndsIn(mail, FocusKind, FocusOf(foreground)) =>
             \/ EndsIn(mail', FocusKind, FocusOf(foreground))
             \/ n \in FocusKind /\ n \in FocusOf(foreground) /\ NoneIn(mail', FocusKind)
    BY <1>6
  <2>2. /\ n \notin FocusKind => eFocus' = eFocus
        /\ n \in FocusKind /\ n \in FocusOf(foreground) => eFocus' = foreground
    BY <1>5 DEF FocusKind, FocusOf
  <2> QED
    BY <1>0, <1>1, <2>1, <2>2 DEF FocusTold, Stale
<1>10. LockTold'
  <2>1. /\ NoneIn(mail, LockKind) => n \notin LockKind /\ NoneIn(mail', LockKind)
        /\ EndsIn(mail, LockKind, LockIs(lock)) =>
             \/ EndsIn(mail', LockKind, LockIs(lock))
             \/ n \in LockKind /\ n \in LockIs(lock) /\ NoneIn(mail', LockKind)
    BY <1>6
  <2>2. /\ n \notin LockKind => eLock' = eLock
        /\ ~synchronizing /\ n \in LockKind /\ n \in LockIs(lock) => eLock' = lock
        /\ ~synchronizing => ~synchronizing'
    BY <1>5 DEF LockKind, LockIs
  <2> QED
    BY <1>0, <1>1, <2>1, <2>2 DEF LockTold
<1>11. ThreadsTold'
  <2>1. ASSUME NEW q \in Proc
        PROVE  /\ NoneIn(mail, ThreadKind(q)) => n \notin ThreadKind(q) /\ NoneIn(mail', ThreadKind(q))
               /\ EndsIn(mail, ThreadKind(q), Leaving) =>
                    \/ EndsIn(mail', ThreadKind(q), Leaving)
                    \/ n \in ThreadKind(q) /\ n \in Leaving /\ NoneIn(mail', ThreadKind(q))
    BY <1>6
  <2>2. ASSUME NEW q \in Proc
        PROVE  /\ n \notin ThreadKind(q) /\ q \notin attached => q \notin attached'
               /\ n \in ThreadKind(q) /\ n \in Leaving => q \notin attached'
    BY <1>5, <1>4 DEF ThreadKind, Leaving
  <2> QED
    BY <1>0, <1>1, <2>1, <2>2 DEF ThreadsTold, Stale
<1> QED
  BY <1>7, <1>8, <1>9, <1>10, <1>11 DEF DllInv

\* The DLLs that are left when mayu starts are those of earlier runs.
LEMMA StartKeeps ==
  ASSUME DllInv, MayuStarts
  PROVE  DllInv'
<1>0. DllShape /\ DllsKnown
  BY DEF DllInv
<1>1. /\ run < MaxRuns /\ mayu' = TRUE /\ run' = run + 1 /\ mail' = <<>> /\ eFocus' = Nobody /\ eLock' = lock
      /\ attached' = {} /\ synchronizing' = FALSE /\ UNCHANGED <<foreground, lock, dll, hung, moves>>
      /\ told' = [focus |-> FALSE, lock |-> FALSE, heard |-> FALSE]
  BY DEF MayuStarts
<1>2. \A p \in Proc : dll'[p].init => Stale(p)'
  BY <1>0, <1>1 DEF DllsKnown, DllShape, Joined, Stale
<1>3. DllShape'
  <2>1. mail' \in Seq(Notes) /\ told' \in [focus : BOOLEAN, lock : BOOLEAN, heard : BOOLEAN] /\ ~told'.focus /\ ~told'.heard
    BY <1>1
  <2>2. run' \in 0..MaxRuns /\ run' # 0
    BY <1>0, <1>1, HookDllAssumption DEF DllShape
  <2> QED
    BY <1>0, <1>1, <2>1, <2>2 DEF DllShape
<1>4. DllsKnown'
  BY <1>0, <1>1 DEF DllsKnown, DllShape, Joined
<1>5. \A q \in Proc : ~Stale(q)' => ~dll'[q].focus
  BY <1>2, <1>4 DEF DllsKnown, Joined
<1>6. told'.focus = FALSE /\ told'.heard = FALSE
  BY <1>1
<1>7. FocusKnown' /\ FocusTold' /\ LockTold'
  BY <1>5, <1>6 DEF FocusKnown, FocusTold, LockTold
<1>8. ThreadsTold'
  <2>1. \A q \in Proc : NoneIn(mail', ThreadKind(q)) /\ q \notin attached'
    BY <1>1, OneElement
  <2> QED
    BY <2>1 DEF ThreadsTold
<1> QED
  BY <1>3, <1>4, <1>7, <1>8 DEF DllInv

\* While mayu is not running there is nothing to know.
LEMMA NobodyListens ==
  ASSUME DllShape', DllsKnown', ~mayu'
  PROVE  DllInv'
BY DEF DllInv, FocusKnown, FocusTold, LockTold, ThreadsTold

LEMMA SyncKeeps ==
  ASSUME DllInv, SyncStarts \/ SyncEnds
  PROVE  DllInv'
<1>0. DllShape /\ DllsKnown /\ FocusKnown /\ FocusTold /\ LockTold /\ ThreadsTold
  BY DEF DllInv
<1>1. UNCHANGED <<mayu, run, mail, foreground, lock, dll, hung, eFocus, eLock, attached>>
      /\ (moves' = moves \/ Move)
  BY DEF SyncStarts, SyncEnds
<1>2. /\ told'.focus = told.focus /\ told' \in [focus : BOOLEAN, lock : BOOLEAN, heard : BOOLEAN]
      /\ (told'.heard => told.heard /\ (mail = <<>> \/ synchronizing' = FALSE)) /\ synchronizing' \in BOOLEAN
  <2>1. CASE SyncStarts
    BY <1>0, <2>1 DEF SyncStarts, DllShape
  <2>2. CASE SyncEnds
    BY <1>0, <2>2 DEF SyncEnds, DllShape
  <2> QED
    BY <2>1, <2>2
<1>3. DllShape'
  BY <1>0, <1>1, <1>2, HookDllAssumption DEF DllShape, Move
<1>4. DllsKnown' /\ FocusKnown' /\ FocusTold' /\ ThreadsTold'
  <2>1. DllsKnown'
    BY <1>0, <1>1 DEF DllsKnown
  <2>2. FocusKnown'
    BY <1>0, <1>1, <1>2 DEF FocusKnown, Stale
  <2>3. FocusTold'
    BY <1>0, <1>1, <1>2 DEF FocusTold, Stale
  <2>4. ThreadsTold'
    BY <1>0, <1>1 DEF ThreadsTold, Stale
  <2> QED
    BY <2>1, <2>2, <2>3, <2>4
<1>5. LockTold'
  <2>1. mail = <<>> => ~EndsIn(mail, LockKind, LockIs(lock))
    BY DEF EndsIn
  <2> QED
    BY <1>0, <1>1, <1>2, <2>1 DEF LockTold
<1> QED
  BY <1>3, <1>4, <1>5 DEF DllInv

LEMMA HangsKeeps ==
  ASSUME DllInv, UNCHANGED <<mayu, run, mail, foreground, lock, dll, eFocus, eLock, attached, synchronizing, told>>,
         hung' \subseteq Proc, moves' = moves \/ Move
  PROVE  DllInv'
<1>1. DllShape'
  BY HookDllAssumption DEF DllInv, DllShape, Move
<1>2. DllsKnown' /\ FocusKnown' /\ FocusTold' /\ LockTold' /\ ThreadsTold'
  BY DEF DllInv, DllsKnown, FocusKnown, FocusTold, LockTold, ThreadsTold, Stale
<1> QED
  BY <1>1, <1>2 DEF DllInv

\* Without mayu, or when it stops.
LEMMA SilentKeeps ==
  ASSUME DllInv, ~mayu', mayu => mail' = <<>>, ~mayu => mail' = mail,
         run' = run, UNCHANGED <<eFocus, eLock, attached>>, synchronizing' \in BOOLEAN, mayu' \in BOOLEAN,
         moves' = moves \/ Move, lock' \in BOOLEAN, foreground' \in Proc \cup {Nobody}, hung' \subseteq Proc,
         told' = told, dll' = dll \/ \E p \in Proc : dll' = [dll EXCEPT ![p] = Unloaded]
  PROVE  DllInv'
<1>0. DllShape /\ DllsKnown
  BY DEF DllInv
<1>1. mail' \in Seq(Notes)
  <2>1. CASE mayu
    <3>1. mail' = <<>>
      BY <2>1
    <3> QED
      BY <3>1
  <2>2. CASE ~mayu
    BY <1>0, <2>2 DEF DllShape
  <2> QED
    BY <2>1, <2>2
<1>2. DllShape'
  BY <1>0, <1>1, HookDllAssumption DEF DllShape, Move
<1>3. DllsKnown'
  <2>1. Unloaded \in DllGlobals /\ Joined(Unloaded, run)
    BY DEF Unloaded, DllGlobals, Joined
  <2>2. CASE dll' = dll
    BY <1>0, <2>2 DEF DllsKnown
  <2>3. ASSUME NEW p \in Proc, dll' = [dll EXCEPT ![p] = Unloaded] PROVE DllsKnown'
    BY <1>0, <2>1, <2>3 DEF DllsKnown
  <2> QED
    BY <2>2, <2>3
<1> QED
  BY <1>2, <1>3, NobodyListens

LEMMA DllStep ==
  ASSUME NoSlot = {}, NoMap = {}, DllInv, [DllNext]_dllVars
  PROVE  DllInv'
<1>0. DllShape /\ DllsKnown /\ mayu \in BOOLEAN /\ mail \in Seq(Notes)
  BY DEF DllInv, DllShape
<1>1. CASE UNCHANGED dllVars
  BY <1>1, HangsKeeps DEF dllVars, DllInv, DllShape
<1>2. CASE ReadMailslot
  BY <1>2, ReadKeeps
<1>3. CASE MayuStarts
  BY <1>3, StartKeeps
<1>4. CASE MayuStops
  BY <1>0, <1>4, SilentKeeps DEF MayuStops, DllShape
<1>5. CASE SyncStarts \/ SyncEnds
  BY <1>5, SyncKeeps
<1>6. ASSUME NEW p \in Proc, LoseFocus(p) PROVE DllInv'
  <2>1. CASE mayu
    BY <1>6, <2>1, LoseFocusKeeps
  <2>2. CASE ~mayu
    BY <1>0, <1>6, <2>2, SilentKeeps DEF LoseFocus, DllShape
  <2> QED
    BY <2>1, <2>2
<1>7. ASSUME NEW p \in Proc, GetFocus(p) PROVE DllInv'
  <2>1. CASE mayu
    BY <1>7, <2>1, GetFocusKeeps
  <2>2. CASE ~mayu
    BY <1>0, <1>7, <2>2, SilentKeeps DEF GetFocus, DllShape
  <2> QED
    BY <2>1, <2>2
<1>8. ASSUME NEW p \in Proc, LockKey(p) PROVE DllInv'
  <2>1. CASE mayu
    BY <1>8, <2>1, LockKeyKeeps
  <2>2. CASE ~mayu
    BY <1>0, <1>8, <2>2, SilentKeeps DEF LockKey, DllShape
  <2> QED
    BY <2>1, <2>2
<1>9. ASSUME NEW p \in Proc, SyncKey(p) PROVE DllInv'
  <2>1. <<Note(p, "sync")>> \in Seq(Notes)
    BY NotesTyped
  <2> QED
    BY <1>9, <2>1, SimpleHook DEF SyncKey, Live
<1>10. ASSUME NEW p \in Proc, OtherMessage(p) PROVE DllInv'
  <2>1. <<>> \in Seq(Notes)
    OBVIOUS
  <2> QED
    BY <1>10, <2>1, SimpleHook DEF OtherMessage, Live
<1>11. ASSUME NEW p \in Proc, Exits(p) PROVE DllInv'
  <2>1. CASE mayu
    BY <1>11, <2>1, ExitsKeeps
  <2>2. CASE ~mayu
    BY <1>0, <1>11, <2>2, SilentKeeps DEF Exits, Detach, Notify, DllShape
  <2> QED
    BY <2>1, <2>2
<1>12. ASSUME NEW p \in Proc, Unload(p) PROVE DllInv'
  BY <1>0, <1>12, SilentKeeps DEF Unload, Detach, Notify, DllShape
<1>13. ASSUME NEW p \in Proc, Hangs(p) PROVE DllInv'
  BY <1>0, <1>13, HangsKeeps DEF Hangs, DllShape
<1>14. ASSUME NEW p \in Proc, WakesUp(p) PROVE DllInv'
  BY <1>0, <1>14, HangsKeeps DEF WakesUp, DllShape
<1> QED
  BY <1>1, <1>2, <1>3, <1>4, <1>5, <1>6, <1>7, <1>8, <1>9, <1>10, <1>11, <1>12, <1>13, <1>14 DEF DllNext

\* mayu knows the focus, the locks and the threads as they are once it has read its mail,
\* and no process opens the mailslot twice, for any number of processes, runs and moves,
\* and whatever hangs, ends or restarts meanwhile.  Every process can open the mailslot
\* and the shared memory (NoSlot and NoMap refute it otherwise).
THEOREM DllIsSafe ==
  ASSUME NoSlot = {}, NoMap = {}
  PROVE  DllSpec => []DllSafe
<1>1. DllInit => DllInv
  <2> SUFFICES ASSUME DllInit PROVE DllInv
    OBVIOUS
  <2>1. mail \in Seq(Notes) /\ told \in [focus : BOOLEAN, lock : BOOLEAN, heard : BOOLEAN]
    BY DEF DllInit
  <2>2. DllShape
    <3>1. run \in 0..MaxRuns /\ moves \in 0..MaxMoves
      BY HookDllAssumption DEF DllInit
    <3> QED
      BY <2>1, <3>1 DEF DllInit, DllShape
  <2>3. Unloaded \in DllGlobals /\ Joined(Unloaded, run)
    BY DEF Unloaded, DllGlobals, Joined
  <2>4. DllsKnown
    BY <2>3 DEF DllInit, DllsKnown
  <2> QED
    BY <2>2, <2>4 DEF DllInit, DllInv, FocusKnown, FocusTold, LockTold, ThreadsTold
<1>2. DllInv /\ [DllNext]_dllVars => DllInv'
  BY DllStep
<1>3. DllInv => DllSafe
  <2> SUFFICES ASSUME DllInv PROVE DllSafe
    OBVIOUS
  <2>0. DllShape /\ DllsKnown /\ FocusKnown /\ FocusTold /\ LockTold /\ ThreadsTold
    BY DEF DllInv
  <2>1. ASSUME NEW K, NEW G, mail = <<>> PROVE ~EndsIn(mail, K, G)
    BY <2>1 DEF EndsIn
  <2>2. DllTypeOK
    <3>1. ASSUME NEW p \in Proc PROVE dll[p].slot \in 0..Invalid /\ dll[p].tray \in 0..MaxRuns
      BY <2>0, HookDllAssumption DEF DllShape, DllsKnown, Joined, Invalid
    <3> QED
      BY <2>0, <3>1 DEF DllShape, DllTypeOK
  <2>3. FocusFollows
    BY <2>0, <2>1 DEF FocusTold, FocusFollows, DllShape
  <2>4. LockFollows
    BY <2>0, <2>1 DEF LockTold, LockFollows
  <2>5. AttachedAlive
    BY <2>0, <2>1 DEF ThreadsTold, AttachedAlive, DllShape
  <2>6. OneHandle
    BY <2>0 DEF DllsKnown, Joined, OneHandle
  <2> QED
    BY <2>2, <2>3, <2>4, <2>5, <2>6 DEF DllSafe
<1> QED
  BY <1>1, <1>2, <1>3, PTL DEF DllSpec

(* ------------------------------ The filter driver ------------------------------ *)

Key == 1..MaxKeys + MaxForced

FilterTypes ==
  /\ typed \in 0..MaxKeys /\ forced \in 0..MaxForced
  /\ classq \in [Kbd -> Seq(Key)] /\ buf \in [Kbd -> Seq(Key)] /\ fq \in [Kbd -> Seq(Key)]
  /\ received \in Seq(Key) /\ \A k \in Kbd : Len(fq[k]) <= QueSize
  /\ irp \in [Kbd -> {"none", "queue", "mark", "call", "class", "completed", "unmarked", "serve", "output", "return"}]
  /\ marked \in [Kbd -> BOOLEAN]

DeviceTypes ==
  /\ dq \in Seq(Key) /\ Len(dq) <= QueSize /\ current \in Kbd /\ opens \in 0..MaxOpens
  /\ isOpen \in BOOLEAN /\ cleanup \in BOOLEAN /\ irpq \in BOOLEAN /\ routine \in BOOLEAN /\ read \in {"none", "pending", "done"}

HandlerTypes ==
  /\ dlock \in Kbd \cup {Free, "mayu", "control"} /\ clock \in {Free, "mayu", "control"}
  /\ handler \in [at : Pcs, to : Kbd \cup {NoKbd}, keys : Seq(Key)]
  /\ control \in {"idle", "cancel", "routine", "force"}

DetourTypes == FilterTypes /\ DeviceTypes /\ HandlerTypes

\* Who holds which lock, and what that says about mayu's read.
LocksKnown ==
  /\ \A k \in Kbd : irp[k] = "serve" => dlock = k
  /\ \A k \in Kbd : irp[k] \notin {"completed", "unmarked", "return"} => buf[k] = <<>>
  /\ handler.at = "pend" => dlock = "mayu" /\ dq = <<>> /\ read = "pending" /\ ~irpq /\ ~routine
  /\ handler.at \in {"cancel", "enque", "look"} => handler.to \in Kbd
  /\ handler.at = "cancelled" => clock = "mayu" /\ ~routine
  /\ control = "routine" => clock = "control" /\ ~routine /\ read = "pending"
  /\ control = "force" => dlock = "control"
  /\ ReadNotStarved /\ ReadCompletedOnce

DetourInv == DetourTypes /\ LocksKnown

Earlier(P, Q) == \A x \in P, y \in Q : (x <= MaxKeys <=> y <= MaxKeys) => x < y
InOrder(q) == \A i, j \in DOMAIN q : i < j /\ (q[i] <= MaxKeys <=> q[j] <= MaxKeys) => q[i] < q[j]

\* The keys of one keyboard on their way: a has the oldest, g the youngest.
Line(a, b, c, d, e, f, g) ==
  /\ InOrder(a) /\ InOrder(b) /\ InOrder(c) /\ InOrder(d) /\ InOrder(e) /\ InOrder(f) /\ InOrder(g)
  /\ Earlier(Keys(a), Keys(b)) /\ Earlier(Keys(a) \cup Keys(b), Keys(c)) /\ Earlier(Keys(a) \cup Keys(b) \cup Keys(c), Keys(d))
  /\ Earlier(Keys(a) \cup Keys(b) \cup Keys(c) \cup Keys(d), Keys(e))
  /\ Earlier(Keys(a) \cup Keys(b) \cup Keys(c) \cup Keys(d) \cup Keys(e), Keys(f))
  /\ Earlier(Keys(a) \cup Keys(b) \cup Keys(c) \cup Keys(d) \cup Keys(e) \cup Keys(f), Keys(g))

\* Do the keys that went to mayu still go to the system?
Alive(k) == Detoured \/ irp[k] \in {"queue", "serve", "output"}
Out(k) == IF irp[k] = "return" THEN buf[k] ELSE <<>>
In(k) == IF irp[k] = "return" THEN <<>> ELSE buf[k]

Ordered(k) ==
  IF Alive(k) THEN Line(received, Out(k), fq[k], handler.keys, dq, In(k), classq[k])
              ELSE Line(received, Out(k), <<>>, <<>>, <<>>, In(k), classq[k])

All(k) == Keys(received) \cup Keys(dq) \cup Keys(handler.keys) \cup Keys(classq[k]) \cup Keys(buf[k]) \cup Keys(fq[k])
Numbered(k) == All(k) \subseteq Keyed /\ Keys(In(k)) \cup Keys(classq[k]) \subseteq 1..MaxKeys

\* The device is opened once.
Once(k) ==
  /\ cleanup => opens # 0 /\ handler.at \in {"closing", "closed"}
  /\ opens = 0 => ~isOpen /\ handler.at = "closed" /\ dq = <<>> /\ fq[k] = <<>> /\ handler.keys = <<>>

LineInv(k) == DetourInv /\ Ordered(k) /\ Numbered(k) /\ Once(k)

LEMMA KeysConcat ==
  ASSUME NEW S, NEW p \in Seq(S), NEW q \in Seq(S)
  PROVE  Keys(p \o q) = Keys(p) \cup Keys(q)
<1>1. Keys(p) = Range(p) /\ Keys(q) = Range(q) /\ Keys(p \o q) = Range(p \o q)
  BY DEF Keys, Range
<1>2. Range(p \o q) = Range(p) \cup Range(q)
  BY RangeConcatenation
<1> QED
  BY <1>1, <1>2

LEMMA KeysFirst ==
  ASSUME NEW S, NEW q \in Seq(S), q # <<>>
  PROVE  Keys(q) = {Head(q)} \cup Keys(Tail(q)) /\ Head(q) \in S /\ Tail(q) \in Seq(S)
<1> DEFINE n == Len(q)
           t == Tail(q)
<1>1. /\ n \in Nat /\ DOMAIN q = 1..n /\ t \in Seq(S) /\ Len(t) = n - 1 /\ DOMAIN t = 1..n - 1 /\ n # 0 /\ Head(q) = q[1] /\ q[1] \in S
      /\ \A i \in 1..n - 1 : t[i] = q[i + 1]
  BY EmptySeq, HeadTailProperties
<1> HIDE DEF n, t
<1>2. ASSUME NEW i \in DOMAIN q PROVE q[i] \in {q[1]} \cup Keys(t)
  <2>1. CASE i = 1
    BY <2>1
  <2>2. CASE i # 1
    <3>1. i - 1 \in 1..n - 1 /\ i - 1 + 1 = i
      BY <1>1, <2>2
    <3> QED
      BY <1>1, <3>1 DEF Keys
  <2> QED
    BY <2>1, <2>2
<1>3. \A i \in DOMAIN t : t[i] \in Keys(q)
  <2>1. \A i \in 1..n - 1 : i + 1 \in 1..n
    BY <1>1
  <2> QED
    BY <1>1, <2>1 DEF Keys
<1>4. 1 \in DOMAIN q
  BY <1>1
<1> QED
  BY <1>1, <1>2, <1>3, <1>4 DEF Keys, t

LEMMA KeysFew ==
  ASSUME NEW x
  PROVE  Keys(<<>>) = {} /\ Keys(<<x>>) = {x}
<1>1. DOMAIN <<x>> = 1..1 /\ <<x>>[1] = x /\ DOMAIN <<>> = {} /\ 1..1 = {1}
  OBVIOUS
<1> QED
  BY <1>1 DEF Keys

LEMMA KeysAppend ==
  ASSUME NEW S, NEW q \in Seq(S), NEW x \in S
  PROVE  Keys(Append(q, x)) = Keys(q) \cup {x}
<1>1. Append(q, x) = q \o <<x>> /\ <<x>> \in Seq(S)
  BY AppendIsConcat
<1>2. Keys(q \o <<x>>) = Keys(q) \cup Keys(<<x>>)
  BY <1>1, KeysConcat, ZenonT(40)
<1> QED
  BY <1>1, <1>2, KeysFew

\* What does not fit is at the end.
LEMMA EnqueIs ==
  ASSUME NEW q \in Seq(Key), NEW s \in Seq(Key), Len(q) <= QueSize
  PROVE  /\ Enque(q, s) \in Seq(Key) /\ Len(Enque(q, s)) <= QueSize
         /\ \E t \in Seq(Key) : /\ Enque(q, s) = q \o t /\ Len(t) <= Len(s) /\ (\A i \in 1..Len(t) : t[i] = s[i])
                               /\ (Len(Enque(q, s)) # QueSize => t = s)
<1> DEFINE n == IF QueSize - Len(q) < Len(s) THEN QueSize - Len(q) ELSE Len(s)
           t == SubSeq(s, 1, n)
<1>1. n \in Nat /\ n <= Len(s) /\ n <= QueSize - Len(q) /\ Len(q) \in Nat /\ QueSize \in Nat /\ Len(s) \in Nat
  BY DetourAssumption
<1> HIDE DEF n
<1>2. t \in Seq(Key) /\ Len(t) = (IF 1 <= n THEN n - 1 + 1 ELSE 0) /\ \A i \in 1..n - 1 + 1 : t[i] = s[1 + i - 1]
  BY <1>1, SubSeqProperties
<1>3. Len(t) = n
  BY <1>1, <1>2
<1> HIDE DEF t
<1>4. ASSUME NEW i \in 1..Len(t) PROVE t[i] = s[i]
  <2>1. i \in 1..n - 1 + 1 /\ 1 + i - 1 = i
    BY <1>1, <1>3
  <2> QED
    BY <1>2, <2>1
<1>5. q \o t \in Seq(Key) /\ Len(q \o t) = Len(q) + Len(t)
  BY <1>2, ConcatProperties
<1>6. Len(q \o t) <= QueSize
  BY <1>1, <1>3, <1>5
<1>7. Enque(q, s) = q \o t
  BY DEF Enque, t, n
<1>8. Len(q \o t) # QueSize => t = s
  <2> SUFFICES ASSUME Len(q \o t) # QueSize PROVE t = s
    OBVIOUS
  <2>1. n = Len(s)
    BY <1>1, <1>3, <1>5 DEF n
  <2> QED
    BY <1>1, <1>2, <1>3, <1>4, <2>1, SeqEqual
<1> QED
  BY <1>1, <1>2, <1>3, <1>5, <1>6, <1>7, <1>4, <1>8

\* A waiting read is completed with a key, or there is none for it.
LEMMA ServeReadIs ==
  ASSUME DetourInv, ServeRead
  PROVE  /\ handler' \in [at : Pcs, to : Kbd \cup {NoKbd}, keys : Seq(Key)] /\ handler'.at = handler.at /\ handler'.to = handler.to
         /\ dq' \in Seq(Key) /\ Len(dq') <= QueSize /\ irpq' \in BOOLEAN /\ routine' \in BOOLEAN
         /\ read' \in {"none", "pending", "done"} /\ (irpq' => dq' = <<>>) /\ (irpq' \/ routine' => read' = "pending")
         /\ (~irpq => UNCHANGED <<dq, irpq, routine, read>>)
<1>0. /\ handler \in [at : Pcs, to : Kbd \cup {NoKbd}, keys : Seq(Key)] /\ dq \in Seq(Key) /\ Len(dq) <= QueSize /\ QueSize \in Nat
      /\ irpq \in BOOLEAN /\ routine \in BOOLEAN /\ read \in {"none", "pending", "done"} /\ (irpq \/ routine => read = "pending")
  BY DetourAssumption DEF DetourInv, DetourTypes, FilterTypes, DeviceTypes, HandlerTypes, LocksKnown, ReadCompletedOnce
<1>1. CASE irpq /\ dq # <<>>
  <2>1. /\ handler' = [handler EXCEPT !.keys = Append(handler.keys, Head(dq))] /\ dq' = Tail(dq)
        /\ irpq' = FALSE /\ routine' = FALSE /\ read' = "done"
    BY <1>1 DEF ServeRead
  <2>2. Head(dq) \in Key /\ Tail(dq) \in Seq(Key) /\ Len(Tail(dq)) <= QueSize
    BY <1>0, <1>1, HeadTailProperties
  <2>3. Append(handler.keys, Head(dq)) \in Seq(Key)
    BY <1>0, <2>2
  <2> QED
    BY <1>0, <1>1, <2>1, <2>2, <2>3
<1>2. CASE ~(irpq /\ dq # <<>>)
  <2>1. UNCHANGED <<handler, dq, irpq, routine, read>>
    BY <1>2 DEF ServeRead
  <2> QED
    BY <1>0, <1>2, <2>1
<1> QED
  BY <1>1, <1>2

\* A step of a filter leaves the detour and the handler alone.
LEMMA FilterSteps ==
  ASSUME DetourInv, FilterTypes', UNCHANGED <<deviceVars, readVars, dlock, clock, handler, control, opens>>,
         NEW k \in Kbd, NEW to, irp' = [irp EXCEPT ![k] = to], to # "serve",
         \A x \in Kbd \ {k} : buf'[x] = buf[x], to \notin {"completed", "unmarked", "return"} => buf'[k] = <<>>
  PROVE  DetourInv'
<1>1. DeviceTypes'
  BY DEF DetourInv, DetourTypes, DeviceTypes, deviceVars, readVars
<1>2. HandlerTypes'
  BY DEF DetourInv, DetourTypes, HandlerTypes
<1>3. irp \in [Kbd -> {"none", "queue", "mark", "call", "class", "completed", "unmarked", "serve", "output", "return"}]
  BY DEF DetourInv, DetourTypes, FilterTypes
<1>4. irp'[k] = to /\ \A x \in Kbd \ {k} : irp'[x] = irp[x]
  BY <1>3
<1>5. \A x \in Kbd : irp'[x] = "serve" => dlock' = x
  BY <1>4 DEF DetourInv, LocksKnown
<1>6. \A x \in Kbd : irp'[x] \notin {"completed", "unmarked", "return"} => buf'[x] = <<>>
  BY <1>4 DEF DetourInv, LocksKnown
<1>7. LocksKnown'
  BY <1>5, <1>6 DEF DetourInv, LocksKnown, ReadNotStarved, ReadCompletedOnce, deviceVars, readVars
<1> QED
  BY <1>1, <1>2, <1>7 DEF DetourInv, DetourTypes

LEMMA FilterReadKeeps ==
  ASSUME DetourInv, NEW k \in Kbd,
         FilterRead(k) \/ FilterReadQueue(k) \/ FilterReadMark(k) \/ CallClass(k) \/ ClassCompletes(k) \/ CompletionUnmark(k)
         \/ CompletionOutput(k) \/ CompletionReturn(k)
  PROVE  DetourInv'
<1>0. FilterTypes /\ \A x \in Kbd : irp[x] \notin {"completed", "unmarked", "return"} => buf[x] = <<>>
  BY DEF DetourInv, DetourTypes, LocksKnown
<1>1. CASE FilterRead(k)
  <2> DEFINE to == IF Detoured THEN "queue" ELSE "mark"
  <2>1. /\ irp' = [irp EXCEPT ![k] = to] /\ irp[k] \in {"none", "mark", "call"}
        /\ UNCHANGED <<typed, forced, classq, buf, marked, fq, received, deviceVars, readVars, dlock, clock, handler, control, opens>>
    BY <1>1 DEF FilterRead
  <2>2. to \in {"queue", "mark", "call", "class"}
    OBVIOUS
  <2> HIDE DEF to
  <2>3. FilterTypes'
    BY <1>0, <2>1, <2>2 DEF FilterTypes
  <2> QED
    BY <1>0, <2>1, <2>2, <2>3, FilterSteps
<1>2. CASE FilterReadQueue(k)
  <2> DEFINE to == IF fq[k] # <<>> THEN "none" ELSE "mark"
  <2>1. /\ received' = received \o fq[k] /\ fq' = [fq EXCEPT ![k] = <<>>] /\ irp' = [irp EXCEPT ![k] = to] /\ irp[k] = "queue"
        /\ UNCHANGED <<typed, forced, classq, buf, marked, deviceVars, readVars, dlock, clock, handler, control, opens>>
    BY <1>2 DEF FilterReadQueue
  <2>2. to \in {"none", "mark"}
    OBVIOUS
  <2> HIDE DEF to
  <2>3. received' \in Seq(Key)
    BY <1>0, <2>1 DEF FilterTypes
  <2>4. fq' \in [Kbd -> Seq(Key)] /\ \A x \in Kbd : Len(fq'[x]) <= QueSize
    BY <1>0, <2>1, DetourAssumption DEF FilterTypes
  <2>5. FilterTypes'
    BY <1>0, <2>1, <2>2, <2>3, <2>4 DEF FilterTypes
  <2> QED
    BY <1>0, <2>1, <2>2, <2>5, FilterSteps
<1>3. CASE FilterReadMark(k)
  <2> DEFINE to == "call"
  <2>1. /\ marked' = [marked EXCEPT ![k] = TRUE] /\ irp' = [irp EXCEPT ![k] = to] /\ irp[k] \in {"none", "mark", "call"}
        /\ UNCHANGED <<typed, forced, classq, buf, fq, received, deviceVars, readVars, dlock, clock, handler, control, opens>>
    BY <1>3 DEF FilterReadMark
  <2>2. to \in {"queue", "mark", "call", "class"}
    OBVIOUS
  <2> HIDE DEF to
  <2>3. FilterTypes'
    BY <1>0, <2>1, <2>2 DEF FilterTypes
  <2> QED
    BY <1>0, <2>1, <2>2, <2>3, FilterSteps
<1>4. CASE CallClass(k)
  <2> DEFINE to == "class"
  <2>1. /\ irp' = [irp EXCEPT ![k] = to] /\ irp[k] \in {"none", "mark", "call"}
        /\ UNCHANGED <<typed, forced, classq, buf, marked, fq, received, deviceVars, readVars, dlock, clock, handler, control, opens>>
    BY <1>4 DEF CallClass
  <2>2. to \in {"queue", "mark", "call", "class"}
    OBVIOUS
  <2> HIDE DEF to
  <2>3. FilterTypes'
    BY <1>0, <2>1, <2>2 DEF FilterTypes
  <2> QED
    BY <1>0, <2>1, <2>2, <2>3, FilterSteps
<1>5. CASE ClassCompletes(k)
  <2>1. /\ buf' = [buf EXCEPT ![k] = classq[k]] /\ classq' = [classq EXCEPT ![k] = <<>>] /\ irp' = [irp EXCEPT ![k] = "completed"]
        /\ UNCHANGED <<typed, forced, marked, fq, received, deviceVars, readVars, dlock, clock, handler, control, opens>>
    BY <1>5 DEF ClassCompletes
  <2>2. FilterTypes' /\ \A x \in Kbd \ {k} : buf'[x] = buf[x]
    BY <1>0, <2>1 DEF FilterTypes
  <2> QED
    BY <2>1, <2>2, FilterSteps
<1>6. CASE CompletionUnmark(k)
  <2>1. /\ marked' = [marked EXCEPT ![k] = FALSE] /\ irp' = [irp EXCEPT ![k] = "unmarked"]
        /\ UNCHANGED <<typed, forced, classq, buf, fq, received, deviceVars, readVars, dlock, clock, handler, control, opens>>
    BY <1>6 DEF CompletionUnmark
  <2>2. FilterTypes'
    BY <1>0, <2>1 DEF FilterTypes
  <2> QED
    BY <2>1, <2>2, FilterSteps
<1>7. CASE CompletionOutput(k)
  <2>1. /\ buf' = [buf EXCEPT ![k] = buf[k] \o fq[k]] /\ fq' = [fq EXCEPT ![k] = <<>>] /\ irp' = [irp EXCEPT ![k] = "return"]
        /\ UNCHANGED <<typed, forced, classq, marked, received, deviceVars, readVars, dlock, clock, handler, control, opens>>
    BY <1>7 DEF CompletionOutput
  <2>2. buf[k] \o fq[k] \in Seq(Key)
    BY <1>0 DEF FilterTypes
  <2>3. buf' \in [Kbd -> Seq(Key)]
    BY <1>0, <2>1, <2>2 DEF FilterTypes
  <2>4. fq' \in [Kbd -> Seq(Key)] /\ \A x \in Kbd : Len(fq'[x]) <= QueSize
    BY <1>0, <2>1, DetourAssumption DEF FilterTypes
  <2>5. FilterTypes' /\ \A x \in Kbd \ {k} : buf'[x] = buf[x]
    BY <1>0, <2>1, <2>3, <2>4 DEF FilterTypes
  <2> QED
    BY <2>1, <2>5, FilterSteps
<1>8. CASE CompletionReturn(k)
  <2>1. /\ received' = received \o buf[k] /\ buf' = [buf EXCEPT ![k] = <<>>] /\ irp' = [irp EXCEPT ![k] = "none"]
        /\ UNCHANGED <<typed, forced, classq, marked, fq, deviceVars, readVars, dlock, clock, handler, control, opens>>
    BY <1>8 DEF CompletionReturn
  <2>2. received' \in Seq(Key)
    BY <1>0, <2>1 DEF FilterTypes
  <2>3. buf' \in [Kbd -> Seq(Key)] /\ buf'[k] = <<>> /\ \A x \in Kbd \ {k} : buf'[x] = buf[x]
    BY <1>0, <2>1 DEF FilterTypes
  <2>4. FilterTypes'
    BY <1>0, <2>1, <2>2, <2>3 DEF FilterTypes
  <2> QED
    BY <2>1, <2>3, <2>4, FilterSteps
<1> QED
  BY <1>1, <1>2, <1>3, <1>4, <1>5, <1>6, <1>7, <1>8

LEMMA TypeKeeps ==
  ASSUME DetourInv, NEW k \in Kbd, Type(k)
  PROVE  DetourInv'
<1>1. /\ typed < MaxKeys /\ typed' = typed + 1 /\ classq' = [classq EXCEPT ![k] = Append(classq[k], typed + 1)]
      /\ UNCHANGED <<forced, irp, buf, marked, fq, received, deviceVars, readVars, dlock, clock, handler, control, opens>>
  BY DEF Type
<1>2. typed + 1 \in Key /\ typed + 1 \in 0..MaxKeys /\ classq \in [Kbd -> Seq(Key)]
  BY <1>1, DetourAssumption DEF DetourInv, DetourTypes, FilterTypes, DeviceTypes, HandlerTypes, Key
<1>3. Append(classq[k], typed + 1) \in Seq(Key)
  BY <1>2
<1>4. classq' \in [Kbd -> Seq(Key)] /\ typed' \in 0..MaxKeys
  BY <1>1, <1>2, <1>3
<1> QED
  <2>1. FilterTypes'
    BY <1>1, <1>4 DEF DetourInv, DetourTypes, FilterTypes
  <2>2. DeviceTypes' /\ HandlerTypes'
    BY <1>1 DEF DetourInv, DetourTypes, DeviceTypes, HandlerTypes, deviceVars, readVars
  <2>3. LocksKnown'
    BY <1>1 DEF DetourInv, LocksKnown, ReadNotStarved, ReadCompletedOnce, deviceVars, readVars
  <2> QED
    BY <2>1, <2>2, <2>3 DEF DetourInv, DetourTypes

LEMMA CompletionDetourKeeps ==
  ASSUME DetourInv, NEW k \in Kbd, CompletionDetour(k)
  PROVE  DetourInv'
<1>1. /\ UNCHANGED <<typed, forced, classq, marked, fq, received, isOpen, cleanup, irpq, read, routine, clock, handler, control, opens>>
      /\ dlock = Free /\ irp[k] = "unmarked"
  BY DEF CompletionDetour, readVars, Locked
<1>2. CASE Detoured
  <2>1. /\ irp' = [irp EXCEPT ![k] = "serve"] /\ dlock' = k /\ dq' = Enque(dq, buf[k]) /\ buf' = [buf EXCEPT ![k] = <<>>]
        /\ current' = IF buf[k] # <<>> THEN k ELSE current
    BY <1>2 DEF CompletionDetour
  <2>2. dq' \in Seq(Key) /\ Len(dq') <= QueSize
    BY <2>1, EnqueIs DEF DetourInv, DetourTypes, FilterTypes, DeviceTypes, HandlerTypes
  <2>3. k \notin {Free, "mayu", "control"}
    BY DetourAssumption DEF Free
  <2>4. FilterTypes' /\ DeviceTypes' /\ HandlerTypes'
    <3>1. FilterTypes'
      BY <1>1, <2>1 DEF DetourInv, DetourTypes, FilterTypes
    <3>2. DeviceTypes'
      BY <1>1, <2>1, <2>2 DEF DetourInv, DetourTypes, DeviceTypes
    <3>3. HandlerTypes'
      BY <1>1, <2>1 DEF DetourInv, DetourTypes, HandlerTypes
    <3> QED
      BY <3>1, <3>2, <3>3
  <2>5. \A h \in Kbd : irp'[h] = "serve" => dlock' = h
    BY <1>1, <2>1, DetourAssumption DEF DetourInv, DetourTypes, FilterTypes, DeviceTypes, HandlerTypes, LocksKnown, Free
  <2>6. handler.at # "pend" /\ control # "force"
    BY <1>1 DEF DetourInv, LocksKnown, Free
  <2>7. \A h \in Kbd : irp'[h] \notin {"completed", "unmarked", "return"} => buf'[h] = <<>>
    BY <2>1 DEF DetourInv, DetourTypes, FilterTypes, DeviceTypes, HandlerTypes, LocksKnown
  <2> QED
    BY <1>1, <2>1, <2>3, <2>4, <2>5, <2>6, <2>7 DEF DetourInv, DetourTypes, LocksKnown, ReadNotStarved, ReadCompletedOnce
<1>3. CASE ~Detoured
  <2>1. irp' = [irp EXCEPT ![k] = "return"] /\ UNCHANGED <<dlock, dq, buf, current>>
    BY <1>3 DEF CompletionDetour
  <2> QED
    <3>1. FilterTypes'
      BY <1>1, <2>1 DEF DetourInv, DetourTypes, FilterTypes
    <3> QED
      BY <1>1, <2>1, <3>1, FilterSteps DEF deviceVars, readVars
<1> QED
  BY <1>2, <1>3

LEMMA CompletionServeKeeps ==
  ASSUME DetourInv, NEW k \in Kbd, CompletionServe(k)
  PROVE  DetourInv'
<1>1. /\ UNCHANGED <<typed, forced, classq, buf, marked, fq, received, isOpen, cleanup, current, clock, control, opens>>
      /\ dlock' = Free /\ clock = Free /\ irp[k] = "serve" /\ irp' = [irp EXCEPT ![k] = "output"] /\ ServeRead
  BY DEF CompletionServe
<1>2. dlock = k /\ k \notin {Free, "mayu", "control"}
  BY <1>1, DetourAssumption DEF DetourInv, LocksKnown, Free
<1>3. handler.at \notin {"pend", "cancelled"} /\ control \notin {"routine", "force"}
  BY <1>1, <1>2 DEF DetourInv, LocksKnown, Free
<1>4. DetourTypes'
  BY <1>1, ServeReadIs DEF DetourInv, DetourTypes, FilterTypes, DeviceTypes, HandlerTypes
<1>5. \A h \in Kbd : irp'[h] # "serve"
  BY <1>1, <1>2 DEF DetourInv, DetourTypes, FilterTypes, DeviceTypes, HandlerTypes, LocksKnown
<1> QED
  BY <1>1, <1>3, <1>4, <1>5, ServeReadIs DEF DetourInv, LocksKnown, ReadNotStarved, ReadCompletedOnce

\* The handler goes on to a step at which it holds no lock.
LEMMA HandlerMoves ==
  ASSUME DetourInv, UNCHANGED <<filterVars, deviceVars, readVars, dlock, clock, control, opens>>,
         handler' \in [at : Pcs, to : Kbd \cup {NoKbd}, keys : Seq(Key)],
         handler'.at \in {"open", "enque", "cancel"}, handler'.at # "open" => handler'.to \in Kbd
  PROVE  DetourInv'
<1>1. FilterTypes' /\ DeviceTypes' /\ HandlerTypes'
  <2>1. FilterTypes'
    BY DEF DetourInv, DetourTypes, FilterTypes, filterVars
  <2>2. DeviceTypes'
    BY DEF DetourInv, DetourTypes, DeviceTypes, deviceVars, readVars
  <2>3. HandlerTypes'
    BY DEF DetourInv, DetourTypes, HandlerTypes
  <2> QED
    BY <2>1, <2>2, <2>3
<1>2. LocksKnown'
  BY DEF DetourInv, LocksKnown, ReadNotStarved, ReadCompletedOnce, filterVars, deviceVars, readVars
<1> QED
  BY <1>1, <1>2 DEF DetourInv, DetourTypes

LEMMA CreateKeeps ==
  ASSUME DetourInv, Create \/ CreateClear \/ CreateWake \/ CreateCancel
  PROVE  DetourInv'
<1>0. handler \in [at : Pcs, to : Kbd \cup {NoKbd}, keys : Seq(Key)]
  BY DEF DetourInv, DetourTypes, FilterTypes, DeviceTypes, HandlerTypes
<1>1. CASE Create
  <2>1. /\ isOpen' = TRUE /\ opens < MaxOpens /\ opens' = opens + 1 /\ handler' = [handler EXCEPT !.at = "clear"]
        /\ UNCHANGED <<filterVars, cleanup, current, dq, irpq, readVars, dlock, clock, control>>
    BY <1>1 DEF Create, Go
  <2>2. opens' \in 0..MaxOpens
    BY <2>1, DetourAssumption DEF DetourInv, DetourTypes, DeviceTypes
  <2>3. handler' \in [at : Pcs, to : Kbd \cup {NoKbd}, keys : Seq(Key)] /\ handler'.at = "clear"
    BY <1>0, <2>1 DEF Pcs
  <2> QED
    <3>1. FilterTypes'
      BY <2>1, <2>2, <2>3 DEF DetourInv, DetourTypes, FilterTypes, filterVars, readVars
    <3>2. DeviceTypes' /\ HandlerTypes'
      BY <2>1, <2>2, <2>3 DEF DetourInv, DetourTypes, DeviceTypes, HandlerTypes, filterVars, readVars
    <3>3. LocksKnown'
      BY <2>1, <2>2, <2>3 DEF DetourInv, LocksKnown, ReadNotStarved, ReadCompletedOnce, filterVars, readVars
    <3> QED
      BY <3>1, <3>2, <3>3 DEF DetourInv, DetourTypes
<1>2. CASE CreateClear
  <2>1. /\ cleanup' = FALSE /\ dq' = <<>> /\ handler' = [handler EXCEPT !.at = "wake"]
        /\ UNCHANGED <<filterVars, isOpen, current, irpq, readVars, dlock, clock, control, opens>>
    BY <1>2 DEF CreateClear, Go
  <2>2. dq' \in Seq(Key) /\ Len(dq') <= QueSize
    BY <2>1, DetourAssumption
  <2>3. handler' \in [at : Pcs, to : Kbd \cup {NoKbd}, keys : Seq(Key)] /\ handler'.at = "wake"
    BY <1>0, <2>1 DEF Pcs
  <2> QED
    <3>1. FilterTypes'
      BY <2>1, <2>2, <2>3 DEF DetourInv, DetourTypes, FilterTypes, filterVars, readVars
    <3>2. DeviceTypes' /\ HandlerTypes'
      BY <2>1, <2>2, <2>3 DEF DetourInv, DetourTypes, DeviceTypes, HandlerTypes, filterVars, readVars
    <3>3. LocksKnown'
      BY <2>1, <2>2, <2>3 DEF DetourInv, LocksKnown, ReadNotStarved, ReadCompletedOnce, filterVars, readVars
    <3> QED
      BY <3>1, <3>2, <3>3 DEF DetourInv, DetourTypes
<1>3. CASE CreateWake
  <2>1. /\ handler' = [handler EXCEPT !.at = IF irp[current] = "class" THEN "cancel" ELSE "open", !.to = current]
        /\ UNCHANGED <<filterVars, deviceVars, readVars, dlock, clock, control, opens>>
    BY <1>3 DEF CreateWake
  <2>2. current \in Kbd
    BY DEF DetourInv, DetourTypes, FilterTypes, DeviceTypes, HandlerTypes
  <2>3. /\ handler' \in [at : Pcs, to : Kbd \cup {NoKbd}, keys : Seq(Key)]
        /\ handler'.at \in {"cancel", "open"} /\ handler'.to \in Kbd
    BY <1>0, <2>1, <2>2 DEF Pcs
  <2> QED
    BY <2>1, <2>3, HandlerMoves
<1>4. CASE CreateCancel
  <2>1. /\ CancelClassRead(handler.to) /\ handler' = [handler EXCEPT !.at = "open"]
        /\ UNCHANGED <<typed, forced, classq, buf, marked, fq, received, deviceVars, readVars, dlock, clock, control, opens>>
    BY <1>4 DEF CreateCancel, Go
  <2>2. handler' \in [at : Pcs, to : Kbd \cup {NoKbd}, keys : Seq(Key)] /\ handler'.at = "open"
    BY <1>0, <2>1 DEF Pcs
  <2>3. FilterTypes' /\ DeviceTypes' /\ HandlerTypes'
    <3>1. FilterTypes'
      BY <2>1 DEF DetourInv, DetourTypes, FilterTypes, CancelClassRead
    <3>2. DeviceTypes'
      BY <2>1 DEF DetourInv, DetourTypes, DeviceTypes, deviceVars, readVars
    <3>3. HandlerTypes'
      BY <2>1, <2>2 DEF DetourInv, DetourTypes, HandlerTypes
    <3> QED
      BY <3>1, <3>2, <3>3
  <2>4. \A k \in Kbd : /\ irp'[k] = "serve" => irp[k] = "serve"
                       /\ irp'[k] \notin {"completed", "unmarked", "return"} => irp[k] \notin {"completed", "unmarked", "return"}
    BY <2>1 DEF DetourInv, DetourTypes, FilterTypes, DeviceTypes, HandlerTypes, CancelClassRead
  <2>5. LocksKnown'
    BY <2>1, <2>2, <2>4 DEF DetourInv, LocksKnown, ReadNotStarved, ReadCompletedOnce, deviceVars, readVars
  <2> QED
    BY <2>3, <2>5 DEF DetourInv, DetourTypes
<1> QED
  BY <1>1, <1>2, <1>3, <1>4

LEMMA DetourReadKeeps ==
  ASSUME DetourInv, DetourRead
  PROVE  DetourInv'
<1>0. /\ handler \in [at : Pcs, to : Kbd \cup {NoKbd}, keys : Seq(Key)] /\ dq \in Seq(Key) /\ Len(dq) <= QueSize
      /\ QueSize \in Nat /\ ~irpq /\ ~routine
  BY DetourAssumption DEF DetourInv, DetourTypes, FilterTypes, DeviceTypes, HandlerTypes, LocksKnown, ReadCompletedOnce, DetourRead
<1>1. /\ UNCHANGED <<filterVars, isOpen, cleanup, current, irpq, routine, clock, control, opens>> /\ dlock = Free
      /\ read # "pending" /\ handler.at = "open"
  BY DEF DetourRead, At
<1>2. CASE dq # <<>>
  <2>1. /\ handler' = [handler EXCEPT !.keys = <<Head(dq)>>] /\ dq' = Tail(dq) /\ UNCHANGED <<dlock, read>>
    BY <1>2 DEF DetourRead
  <2>2. Head(dq) \in Key /\ Tail(dq) \in Seq(Key) /\ Len(Tail(dq)) <= QueSize
    BY <1>0, <1>2, HeadTailProperties
  <2>3. <<Head(dq)>> \in Seq(Key)
    BY <2>2
  <2>4. handler' \in [at : Pcs, to : Kbd \cup {NoKbd}, keys : Seq(Key)] /\ handler'.at = "open"
    BY <1>0, <1>1, <2>1, <2>3
  <2> QED
    <3>1. FilterTypes'
      BY <1>0, <1>1, <2>1, <2>2, <2>4 DEF DetourInv, DetourTypes, FilterTypes, filterVars
    <3>2. DeviceTypes' /\ HandlerTypes'
      BY <1>0, <1>1, <2>1, <2>2, <2>4 DEF DetourInv, DetourTypes, DeviceTypes, HandlerTypes, filterVars
    <3>3. LocksKnown'
      BY <1>0, <1>1, <2>1, <2>2, <2>4 DEF DetourInv, LocksKnown, ReadNotStarved, ReadCompletedOnce, filterVars
    <3> QED
      BY <3>1, <3>2, <3>3 DEF DetourInv, DetourTypes
<1>3. CASE dq = <<>>
  <2>1. read' = "pending" /\ dlock' = "mayu" /\ handler' = [handler EXCEPT !.at = "pend"] /\ UNCHANGED dq
    BY <1>3 DEF DetourRead, Go
  <2>2. handler' \in [at : Pcs, to : Kbd \cup {NoKbd}, keys : Seq(Key)] /\ handler'.at = "pend"
    BY <1>0, <2>1 DEF Pcs
  <2>3. control # "force" /\ \A h \in Kbd : irp[h] # "serve"
    BY <1>1, DetourAssumption DEF DetourInv, LocksKnown, Free
  <2> QED
    <3>1. FilterTypes'
      BY <1>0, <1>1, <1>3, <2>1, <2>2, <2>3 DEF DetourInv, DetourTypes, FilterTypes, filterVars, Free
    <3>2. DeviceTypes' /\ HandlerTypes'
      BY <1>0, <1>1, <1>3, <2>1, <2>2, <2>3 DEF DetourInv, DetourTypes, DeviceTypes, HandlerTypes, filterVars, Free
    <3>3. LocksKnown'
      BY <1>0, <1>1, <1>3, <2>1, <2>2, <2>3 DEF DetourInv, LocksKnown, ReadNotStarved, ReadCompletedOnce, filterVars, Free
    <3> QED
      BY <3>1, <3>2, <3>3 DEF DetourInv, DetourTypes
<1> QED
  BY <1>2, <1>3

LEMMA DetourWriteKeeps ==
  ASSUME DetourInv, DetourReadPend \/ DetourWrite \/ DetourWriteEnque \/ DetourWriteLook
  PROVE  DetourInv'
<1>0. handler \in [at : Pcs, to : Kbd \cup {NoKbd}, keys : Seq(Key)]
  BY DEF DetourInv, DetourTypes, FilterTypes, DeviceTypes, HandlerTypes
<1>1. CASE DetourReadPend
  <2>1. FilterTypes'
    BY <1>1, DetourAssumption DEF DetourInv, DetourTypes, FilterTypes, Pcs, DetourReadPend, Go, At, filterVars, Free
  <2>2. DeviceTypes' /\ HandlerTypes'
    BY <1>1, DetourAssumption DEF DetourInv, DetourTypes, DeviceTypes, HandlerTypes, Pcs, DetourReadPend, Go, At, filterVars, Free
  <2>3. LocksKnown'
    BY <1>1, DetourAssumption DEF DetourInv, LocksKnown, ReadNotStarved, ReadCompletedOnce, Pcs, DetourReadPend, Go, At, filterVars, Free
  <2> QED
    BY <2>1, <2>2, <2>3 DEF DetourInv, DetourTypes
<1>2. CASE DetourWrite
  <2>1. /\ handler' = [handler EXCEPT !.at = "enque", !.to = current]
        /\ UNCHANGED <<filterVars, deviceVars, readVars, dlock, clock, control, opens>>
    BY <1>2 DEF DetourWrite
  <2>2. current \in Kbd
    BY DEF DetourInv, DetourTypes, FilterTypes, DeviceTypes, HandlerTypes
  <2>3. /\ handler' \in [at : Pcs, to : Kbd \cup {NoKbd}, keys : Seq(Key)]
        /\ handler'.at = "enque" /\ handler'.to \in Kbd
    BY <1>0, <2>1, <2>2 DEF Pcs
  <2> QED
    BY <2>1, <2>3, HandlerMoves
<1>3. CASE DetourWriteEnque
  <2> DEFINE k == handler.to
             to == IF marked[k] THEN "look" ELSE "open"
  <2>1. /\ fq' = [fq EXCEPT ![k] = Enque(fq[k], handler.keys)] /\ marked' = [marked EXCEPT ![k] = FALSE]
        /\ handler' = [handler EXCEPT !.at = to, !.keys = <<>>] /\ handler.at = "enque"
        /\ UNCHANGED <<typed, forced, classq, irp, buf, received, deviceVars, readVars, dlock, clock, control, opens>>
    BY <1>3 DEF DetourWriteEnque, At
  <2>2. k \in Kbd /\ to \in {"look", "open"}
    BY <2>1 DEF DetourInv, LocksKnown
  <2>3. fq \in [Kbd -> Seq(Key)] /\ \A h \in Kbd : Len(fq[h]) <= QueSize
    BY DEF DetourInv, DetourTypes, FilterTypes, DeviceTypes, HandlerTypes
  <2>4. Enque(fq[k], handler.keys) \in Seq(Key) /\ Len(Enque(fq[k], handler.keys)) <= QueSize
    BY <1>0, <2>2, <2>3, EnqueIs
  <2> HIDE DEF to
  <2>5. handler' \in [at : Pcs, to : Kbd \cup {NoKbd}, keys : Seq(Key)] /\ handler'.at = to /\ handler'.to = k
    <3>1. <<>> \in Seq(Key) /\ to \in Pcs
      BY <2>2 DEF Pcs
    <3> QED
      BY <1>0, <2>1, <3>1
  <2> HIDE DEF k
  <2>6. fq' \in [Kbd -> Seq(Key)] /\ \A h \in Kbd : Len(fq'[h]) <= QueSize
    BY <2>1, <2>2, <2>3, <2>4
  <2>7. marked' \in [Kbd -> BOOLEAN]
    BY <2>1, <2>2 DEF DetourInv, DetourTypes, FilterTypes, DeviceTypes, HandlerTypes
  <2> QED
    <3>1. FilterTypes' /\ DeviceTypes' /\ HandlerTypes'
      <4>1. FilterTypes'
        BY <2>1, <2>6, <2>7 DEF DetourInv, DetourTypes, FilterTypes
      <4>2. DeviceTypes'
        BY <2>1 DEF DetourInv, DetourTypes, DeviceTypes, deviceVars, readVars
      <4>3. HandlerTypes'
        BY <2>1, <2>5 DEF DetourInv, DetourTypes, HandlerTypes
      <4> QED
        BY <4>1, <4>2, <4>3
    <3>2. LocksKnown'
      BY <2>1, <2>2, <2>5 DEF DetourInv, LocksKnown, ReadNotStarved, ReadCompletedOnce, deviceVars, readVars
    <3> QED
      BY <3>1, <3>2 DEF DetourInv, DetourTypes
<1>4. CASE DetourWriteLook
  <2>1. /\ handler' = [handler EXCEPT !.at = IF irp[handler.to] = "class" THEN "cancel" ELSE "open"]
        /\ UNCHANGED <<filterVars, deviceVars, readVars, dlock, clock, control, opens>>
    BY <1>4 DEF DetourWriteLook, Go
  <2>2. handler.to \in Kbd
    BY <1>4 DEF DetourInv, LocksKnown, DetourWriteLook, At
  <2>3. /\ handler' \in [at : Pcs, to : Kbd \cup {NoKbd}, keys : Seq(Key)]
        /\ handler'.at \in {"cancel", "open"} /\ handler'.to \in Kbd
    BY <1>0, <2>1, <2>2 DEF Pcs
  <2> QED
    BY <2>1, <2>3, HandlerMoves
<1> QED
  BY <1>1, <1>2, <1>3, <1>4

LEMMA CloseKeeps ==
  ASSUME DetourInv, CancelIo \/ Closing
  PROVE  DetourInv'
<1>0. handler \in [at : Pcs, to : Kbd \cup {NoKbd}, keys : Seq(Key)]
  BY DEF DetourInv, DetourTypes, FilterTypes, DeviceTypes, HandlerTypes
<1>1. CASE CancelIo
  <2>1. /\ UNCHANGED <<filterVars, deviceVars, read, dlock, control, opens>> /\ control = "idle"
        /\ IF routine THEN clock = Free /\ clock' = "mayu" /\ routine' = FALSE /\ handler' = [handler EXCEPT !.at = "cancelled"]
                      ELSE handler' = [handler EXCEPT !.at = "cleanup"] /\ UNCHANGED <<clock, routine>>
    BY <1>1 DEF CancelIo, Go
  <2>2. /\ handler' \in [at : Pcs, to : Kbd \cup {NoKbd}, keys : Seq(Key)]
        /\ handler'.at = IF routine THEN "cancelled" ELSE "cleanup"
    BY <1>0, <2>1 DEF Pcs
  <2> QED
    <3>1. FilterTypes'
      BY <2>1, <2>2 DEF DetourInv, DetourTypes, FilterTypes, filterVars, deviceVars
    <3>2. DeviceTypes' /\ HandlerTypes'
      BY <2>1, <2>2 DEF DetourInv, DetourTypes, DeviceTypes, HandlerTypes, filterVars, deviceVars
    <3>3. LocksKnown'
      BY <2>1, <2>2 DEF DetourInv, LocksKnown, ReadNotStarved, ReadCompletedOnce, filterVars, deviceVars
    <3> QED
      BY <3>1, <3>2, <3>3 DEF DetourInv, DetourTypes
<1>2. CASE CancelIoRoutine
  <2>1. FilterTypes'
    BY <1>2 DEF DetourInv, DetourTypes, FilterTypes, Pcs, CancelIoRoutine, Go, At, filterVars, Free
  <2>2. DeviceTypes' /\ HandlerTypes'
    BY <1>2 DEF DetourInv, DetourTypes, DeviceTypes, HandlerTypes, Pcs, CancelIoRoutine, Go, At, filterVars, Free
  <2>3. LocksKnown'
    BY <1>2 DEF DetourInv, LocksKnown, ReadNotStarved, ReadCompletedOnce, Pcs, CancelIoRoutine, Go, At, filterVars, Free
  <2> QED
    BY <2>1, <2>2, <2>3 DEF DetourInv, DetourTypes
<1>3. CASE Cleanup
  <2>1. /\ cleanup' = TRUE /\ irpq' = FALSE /\ handler' = [at |-> "closing", to |-> NoKbd, keys |-> <<>>] /\ clock = Free
        /\ UNCHANGED <<filterVars, isOpen, current, dq, readVars, dlock, clock, control, opens>>
    BY <1>3 DEF Cleanup
  <2>2. handler' \in [at : Pcs, to : Kbd \cup {NoKbd}, keys : Seq(Key)] /\ handler'.at = "closing"
    <3>1. <<>> \in Seq(Key)
      OBVIOUS
    <3> QED
      BY <2>1, <3>1 DEF Pcs
  <2> QED
    <3>1. FilterTypes'
      BY <2>1, <2>2 DEF DetourInv, DetourTypes, FilterTypes, filterVars, readVars
    <3>2. DeviceTypes' /\ HandlerTypes'
      BY <2>1, <2>2 DEF DetourInv, DetourTypes, DeviceTypes, HandlerTypes, filterVars, readVars
    <3>3. LocksKnown'
      BY <2>1, <2>2 DEF DetourInv, LocksKnown, ReadNotStarved, ReadCompletedOnce, filterVars, readVars
    <3> QED
      BY <3>1, <3>2, <3>3 DEF DetourInv, DetourTypes
<1>4. CASE Close
  <2>1. FilterTypes'
    BY <1>4 DEF DetourInv, DetourTypes, FilterTypes, Pcs, Close, Go, At, filterVars
  <2>2. DeviceTypes' /\ HandlerTypes'
    BY <1>4 DEF DetourInv, DetourTypes, DeviceTypes, HandlerTypes, Pcs, Close, Go, At, filterVars
  <2>3. LocksKnown'
    BY <1>4 DEF DetourInv, LocksKnown, ReadNotStarved, ReadCompletedOnce, Pcs, Close, Go, At, filterVars
  <2> QED
    BY <2>1, <2>2, <2>3 DEF DetourInv, DetourTypes
<1> QED
  BY <1>1, <1>2, <1>3, <1>4 DEF Closing

LEMMA ControlKeeps ==
  ASSUME DetourInv, Control
  PROVE  DetourInv'
<1>1. CASE DetourCancel
  <2>1. FilterTypes'
    BY <1>1 DEF DetourInv, DetourTypes, FilterTypes, DetourCancel, filterVars, deviceVars, readVars
  <2>2. DeviceTypes' /\ HandlerTypes'
    BY <1>1 DEF DetourInv, DetourTypes, DeviceTypes, HandlerTypes, DetourCancel, filterVars, deviceVars, readVars
  <2>3. LocksKnown'
    BY <1>1 DEF DetourInv, LocksKnown, ReadNotStarved, ReadCompletedOnce, DetourCancel, filterVars, deviceVars, readVars
  <2> QED
    BY <2>1, <2>2, <2>3 DEF DetourInv, DetourTypes
<1>2. CASE DetourCancelIrp
  <2>1. /\ UNCHANGED <<filterVars, deviceVars, read, dlock, handler, opens>> /\ control = "cancel" /\ clock = Free
        /\ IF routine THEN clock' = "control" /\ routine' = FALSE /\ control' = "routine"
                      ELSE control' = "idle" /\ UNCHANGED <<clock, routine>>
    BY <1>2 DEF DetourCancelIrp
  <2>2. handler.at # "cancelled"
    BY <2>1 DEF DetourInv, LocksKnown, Free
  <2> QED
    <3>1. FilterTypes'
      BY <2>1, <2>2 DEF DetourInv, DetourTypes, FilterTypes, filterVars, deviceVars
    <3>2. DeviceTypes' /\ HandlerTypes'
      BY <2>1, <2>2 DEF DetourInv, DetourTypes, DeviceTypes, HandlerTypes, filterVars, deviceVars
    <3>3. LocksKnown'
      BY <2>1, <2>2 DEF DetourInv, LocksKnown, ReadNotStarved, ReadCompletedOnce, filterVars, deviceVars
    <3> QED
      BY <3>1, <3>2, <3>3 DEF DetourInv, DetourTypes
<1>3. CASE DetourReadCancel
  <2>1. FilterTypes'
    BY <1>3 DEF DetourInv, DetourTypes, FilterTypes, DetourReadCancel, filterVars, Free
  <2>2. DeviceTypes' /\ HandlerTypes'
    BY <1>3 DEF DetourInv, DetourTypes, DeviceTypes, HandlerTypes, DetourReadCancel, filterVars, Free
  <2>3. LocksKnown'
    BY <1>3 DEF DetourInv, LocksKnown, ReadNotStarved, ReadCompletedOnce, DetourReadCancel, filterVars, Free
  <2> QED
    BY <2>1, <2>2, <2>3 DEF DetourInv, DetourTypes
<1>4. CASE ForceInput
  <2>1. /\ forced < MaxForced /\ forced' = forced + 1 /\ dq' = Enque(dq, <<MaxKeys + forced + 1>>) /\ dlock = Free
        /\ dlock' = "control" /\ control' = "force" /\ control = "idle"
        /\ UNCHANGED <<typed, classq, irp, buf, marked, fq, received, isOpen, cleanup, current, irpq, readVars, clock, handler, opens>>
    BY <1>4 DEF ForceInput, Locked
  <2>2. forced' \in 0..MaxForced /\ MaxKeys + forced + 1 \in Key
    BY <2>1, DetourAssumption DEF DetourInv, DetourTypes, FilterTypes, DeviceTypes, HandlerTypes, Key
  <2>3. <<MaxKeys + forced + 1>> \in Seq(Key)
    BY <2>2
  <2>4. dq' \in Seq(Key) /\ Len(dq') <= QueSize
    BY <2>1, <2>3, EnqueIs DEF DetourInv, DetourTypes, FilterTypes, DeviceTypes, HandlerTypes
  <2>5. handler.at # "pend" /\ \A h \in Kbd : irp[h] # "serve"
    BY <2>1, DetourAssumption DEF DetourInv, LocksKnown, Free
  <2> QED
    <3>1. FilterTypes'
      BY <2>1, <2>2, <2>4, <2>5 DEF DetourInv, DetourTypes, FilterTypes, readVars, Free
    <3>2. DeviceTypes' /\ HandlerTypes'
      BY <2>1, <2>2, <2>4, <2>5 DEF DetourInv, DetourTypes, DeviceTypes, HandlerTypes, readVars, Free
    <3>3. LocksKnown'
      BY <2>1, <2>2, <2>4, <2>5 DEF DetourInv, LocksKnown, ReadNotStarved, ReadCompletedOnce, readVars, Free
    <3> QED
      BY <3>1, <3>2, <3>3 DEF DetourInv, DetourTypes
<1>5. CASE ForceInputServe
  <2>1. /\ UNCHANGED <<filterVars, isOpen, cleanup, current, clock, opens>> /\ control = "force" /\ clock = Free
        /\ ServeRead /\ dlock' = Free /\ control' = "idle"
    BY <1>5 DEF ForceInputServe
  <2>2. dlock = "control"
    BY <2>1 DEF DetourInv, LocksKnown
  <2>3. handler.at \notin {"pend", "cancelled"} /\ \A h \in Kbd : irp[h] # "serve"
    BY <2>1, <2>2, DetourAssumption DEF DetourInv, LocksKnown, Free
  <2>4. DetourTypes'
    BY <2>1, ServeReadIs DEF DetourInv, DetourTypes, FilterTypes, DeviceTypes, HandlerTypes, filterVars
  <2> QED
    BY <2>1, <2>3, <2>4, ServeReadIs DEF DetourInv, LocksKnown, ReadNotStarved, ReadCompletedOnce, filterVars
<1> QED
  BY <1>1, <1>2, <1>3, <1>4, <1>5 DEF Control

LEMMA DetourStep ==
  ASSUME DetourInv, [DetourNext]_detourVars
  PROVE  DetourInv'
<1>1. CASE UNCHANGED detourVars
  <2>1. FilterTypes'
    BY <1>1 DEF DetourInv, DetourTypes, FilterTypes, detourVars, filterVars, deviceVars, readVars
  <2>2. DeviceTypes' /\ HandlerTypes'
    BY <1>1 DEF DetourInv, DetourTypes, DeviceTypes, HandlerTypes, detourVars, filterVars, deviceVars, readVars
  <2>3. LocksKnown'
    BY <1>1 DEF DetourInv, LocksKnown, ReadNotStarved, ReadCompletedOnce, detourVars, filterVars, deviceVars, readVars
  <2> QED
    BY <2>1, <2>2, <2>3 DEF DetourInv, DetourTypes
<1>2. ASSUME NEW k \in Kbd, Type(k) PROVE DetourInv'
  BY <1>2, TypeKeeps
<1>3. ASSUME NEW k \in Kbd, Filter(k) PROVE DetourInv'
  BY <1>3, FilterReadKeeps, CompletionDetourKeeps, CompletionServeKeeps DEF Filter
<1>4. CASE Handler
  BY <1>4, CreateKeeps, DetourReadKeeps, DetourWriteKeeps, CloseKeeps DEF Handler
<1>5. CASE Control
  BY <1>5, ControlKeeps
<1> QED
  BY <1>1, <1>2, <1>3, <1>4, <1>5 DEF DetourNext

LEMMA NotLost ==
  ASSUME NEW N, NEW k \in Kbd, N \cap Keyed = {}, Keyed' = Keyed \cup N,
         \A j \in Kbd \ {k} : classq'[j] = classq[j] /\ buf'[j] = buf[j] /\ fq'[j] = fq[j],
         Keys(received') \cup Keys(dq') \cup Keys(handler'.keys) \cup Keys(classq'[k]) \cup Keys(buf'[k]) \cup Keys(fq'[k])
           = Keys(received) \cup Keys(dq) \cup Keys(handler.keys) \cup Keys(classq[k]) \cup Keys(buf[k]) \cup Keys(fq[k]) \cup N
  PROVE  Keyed \ Held = Keyed' \ Held'
<1> DEFINE at == Keys(classq[k]) \cup Keys(buf[k]) \cup Keys(fq[k])
           rest == UNION {Keys(classq[j]) \cup Keys(buf[j]) \cup Keys(fq[j]) : j \in Kbd \ {k}}
<1>1. rest' = rest
  <2>1. \A j \in Kbd \ {k} : Keys(classq'[j]) \cup Keys(buf'[j]) \cup Keys(fq'[j]) = Keys(classq[j]) \cup Keys(buf[j]) \cup Keys(fq[j])
    BY Zenon
  <2> QED
    BY <2>1
<1>2. Held = Keys(received) \cup Keys(dq) \cup Keys(handler.keys) \cup (at \cup rest)
  BY DEF Held
<1>3. Held' = Keys(received') \cup Keys(dq') \cup Keys(handler'.keys) \cup (at' \cup rest')
  BY DEF Held
<1> HIDE DEF rest
<1>4. Held' = Held \cup N
  BY <1>1, <1>2, <1>3
<1> QED
  BY <1>4

LEMMA QueuesKept ==
  ASSUME UNCHANGED <<typed, forced, received, dq, classq, buf, fq>>, handler'.keys = handler.keys
  PROVE  Keyed \ Held = Keyed' \ Held'
BY DEF Keyed, Held

\* A waiting read takes its key from the queue.
LEMMA ServeMoves ==
  ASSUME DetourInv, ServeRead
  PROVE  Keys(dq') \cup Keys(handler'.keys) = Keys(dq) \cup Keys(handler.keys)
<1>0. handler \in [at : Pcs, to : Kbd \cup {NoKbd}, keys : Seq(Key)] /\ handler.keys \in Seq(Key) /\ dq \in Seq(Key)
  BY DEF DetourInv, DetourTypes, FilterTypes, DeviceTypes, HandlerTypes
<1>1. CASE irpq /\ dq # <<>>
  <2>1. handler' = [handler EXCEPT !.keys = Append(handler.keys, Head(dq))] /\ dq' = Tail(dq)
    BY <1>1 DEF ServeRead
  <2>2. handler'.keys = Append(handler.keys, Head(dq))
    BY <1>0, <2>1
  <2>3. Keys(dq) = {Head(dq)} \cup Keys(Tail(dq)) /\ Head(dq) \in Key
    BY <1>0, <1>1, KeysFirst
  <2>4. Keys(Append(handler.keys, Head(dq))) = Keys(handler.keys) \cup {Head(dq)}
    BY <1>0, <2>3, KeysAppend
  <2> QED
    BY <2>1, <2>2, <2>3, <2>4
<1>2. CASE ~(irpq /\ dq # <<>>)
  BY <1>2 DEF ServeRead
<1> QED
  BY <1>1, <1>2

LEMMA EnqueKeeps ==
  ASSUME NEW q \in Seq(Key), NEW s \in Seq(Key), Len(q) <= QueSize, Len(Enque(q, s)) # QueSize
  PROVE  Keys(Enque(q, s)) = Keys(q) \cup Keys(s)
<1>1. Enque(q, s) = q \o s
  BY EnqueIs
<1> QED
  BY <1>1, KeysConcat

LEMMA FilterLoses ==
  ASSUME DetourInv, NEW k \in Kbd, Filter(k), Len(dq') # QueSize
  PROVE  Keyed \ Held = Keyed' \ Held'
<1> DEFINE same == \A j \in Kbd \ {k} : classq'[j] = classq[j] /\ buf'[j] = buf[j] /\ fq'[j] = fq[j]
<1>0. /\ classq \in [Kbd -> Seq(Key)] /\ buf \in [Kbd -> Seq(Key)] /\ fq \in [Kbd -> Seq(Key)] /\ received \in Seq(Key)
      /\ dq \in Seq(Key) /\ Len(dq) <= QueSize /\ Keys(<<>>) = {}
      /\ classq[k] \in Seq(Key) /\ buf[k] \in Seq(Key) /\ fq[k] \in Seq(Key)
  BY KeysFew DEF DetourInv, DetourTypes, FilterTypes, DeviceTypes, HandlerTypes
<1>1. UNCHANGED <<typed, forced>> /\ Keyed' = Keyed \cup {}
  BY DEF Filter, FilterRead, FilterReadQueue, FilterReadMark, CallClass, ClassCompletes, CompletionUnmark, CompletionDetour,
         CompletionServe, CompletionOutput, CompletionReturn, Keyed
<1>2. CASE FilterRead(k) \/ FilterReadMark(k) \/ CallClass(k) \/ CompletionUnmark(k)
  <2>1. UNCHANGED <<typed, forced, received, dq, classq, buf, fq, handler>>
    BY <1>2 DEF FilterRead, FilterReadMark, CallClass, CompletionUnmark, deviceVars
  <2> QED
    BY <2>1, QueuesKept
<1>3. CASE FilterReadQueue(k)
  <2>1. received' = received \o fq[k] /\ fq' = [fq EXCEPT ![k] = <<>>] /\ UNCHANGED <<classq, buf, dq, handler>>
    BY <1>3 DEF FilterReadQueue, deviceVars
  <2>2. same /\ fq'[k] = <<>>
    BY <1>0, <2>1
  <2>3. Keys(received') = Keys(received) \cup Keys(fq[k])
    BY <1>0, <2>1, KeysConcat
  <2> QED
    BY <1>0, <1>1, <2>1, <2>2, <2>3, NotLost
<1>4. CASE ClassCompletes(k)
  <2>1. /\ buf' = [buf EXCEPT ![k] = classq[k]] /\ classq' = [classq EXCEPT ![k] = <<>>] /\ UNCHANGED <<received, fq, dq, handler>>
        /\ irp[k] = "class"
    BY <1>4 DEF ClassCompletes, deviceVars
  <2>2. same /\ buf'[k] = classq[k] /\ classq'[k] = <<>>
    BY <1>0, <2>1
  <2>3. buf[k] = <<>>
    BY <2>1 DEF DetourInv, LocksKnown
  <2> QED
    BY <1>0, <1>1, <2>1, <2>2, <2>3, NotLost
<1>5. CASE CompletionDetour(k)
  <2>1. UNCHANGED <<classq, fq, received, handler>>
    BY <1>5 DEF CompletionDetour
  <2>2. CASE Detoured
    <3>1. dq' = Enque(dq, buf[k]) /\ buf' = [buf EXCEPT ![k] = <<>>]
      BY <1>5, <2>2 DEF CompletionDetour
    <3>2. Keys(dq') = Keys(dq) \cup Keys(buf[k])
      BY <1>0, <3>1, EnqueKeeps
    <3>3. same /\ buf'[k] = <<>>
      BY <1>0, <2>1, <3>1
    <3> QED
      BY <1>0, <1>1, <2>1, <3>2, <3>3, NotLost
  <2>3. CASE ~Detoured
    <3>1. UNCHANGED <<dq, buf>>
      BY <1>5, <2>3 DEF CompletionDetour
    <3> QED
      BY <1>1, <2>1, <3>1, QueuesKept
  <2> QED
    BY <2>2, <2>3
<1>6. CASE CompletionServe(k)
  <2>1. UNCHANGED <<classq, buf, fq, received>> /\ ServeRead
    BY <1>6 DEF CompletionServe
  <2>2. same
    BY <2>1
  <2> QED
    BY <1>1, <2>1, <2>2, ServeMoves, NotLost
<1>7. CASE CompletionOutput(k)
  <2>1. /\ buf' = [buf EXCEPT ![k] = buf[k] \o fq[k]] /\ fq' = [fq EXCEPT ![k] = <<>>] /\ UNCHANGED <<received, classq, dq, handler>>
    BY <1>7 DEF CompletionOutput, deviceVars
  <2>2. same /\ buf'[k] = buf[k] \o fq[k] /\ fq'[k] = <<>>
    BY <1>0, <2>1
  <2>3. Keys(buf'[k]) = Keys(buf[k]) \cup Keys(fq[k])
    BY <1>0, <2>2, KeysConcat
  <2> QED
    BY <1>0, <1>1, <2>1, <2>2, <2>3, NotLost, ZenonT(40)
<1>8. CASE CompletionReturn(k)
  <2>1. received' = received \o buf[k] /\ buf' = [buf EXCEPT ![k] = <<>>] /\ UNCHANGED <<classq, fq, dq, handler>>
    BY <1>8 DEF CompletionReturn, deviceVars
  <2>2. same /\ buf'[k] = <<>>
    BY <1>0, <2>1
  <2>3. Keys(received') = Keys(received) \cup Keys(buf[k])
    BY <1>0, <2>1, KeysConcat
  <2> QED
    BY <1>0, <1>1, <2>1, <2>2, <2>3, NotLost
<1> QED
  BY <1>2, <1>3, <1>4, <1>5, <1>6, <1>7, <1>8 DEF Filter

LEMMA TypeLoses ==
  ASSUME DetourInv, NEW k \in Kbd, Type(k)
  PROVE  Keyed \ Held = Keyed' \ Held'
<1> DEFINE n == typed + 1
<1>1. /\ typed < MaxKeys /\ typed' = n /\ classq' = [classq EXCEPT ![k] = Append(classq[k], n)]
      /\ UNCHANGED <<forced, buf, fq, received, dq, handler>>
  BY DEF Type, deviceVars
<1>2. typed \in Nat /\ MaxKeys \in Nat /\ forced \in Nat /\ classq \in [Kbd -> Seq(Key)] /\ n \in Key
  BY <1>1, DetourAssumption DEF DetourInv, DetourTypes, FilterTypes, DeviceTypes, HandlerTypes, Key
<1>3. n \notin Keyed /\ Keyed' = Keyed \cup {n}
  BY <1>1, <1>2 DEF Keyed
<1> HIDE DEF n
<1>4. Keys(Append(classq[k], n)) = Keys(classq[k]) \cup {n}
  BY <1>2, KeysAppend
<1>5. classq'[k] = Append(classq[k], n) /\ \A j \in Kbd \ {k} : classq'[j] = classq[j] /\ buf'[j] = buf[j] /\ fq'[j] = fq[j]
  BY <1>1, <1>2
<1>6. {n} \cap Keyed = {}
  BY <1>3
<1>7. Keys(received') \cup Keys(dq') \cup Keys(handler'.keys) \cup Keys(classq'[k]) \cup Keys(buf'[k]) \cup Keys(fq'[k])
        = Keys(received) \cup Keys(dq) \cup Keys(handler.keys) \cup Keys(classq[k]) \cup Keys(buf[k]) \cup Keys(fq[k]) \cup {n}
  BY <1>1, <1>4, <1>5
<1> QED
  BY <1>3, <1>5, <1>6, <1>7, NotLost

LEMMA HandlerLoses ==
  ASSUME DetourInv, Handler, \A k \in Kbd : Len(fq'[k]) # QueSize, handler.at \notin {"clear", "cleanup"}
  PROVE  Keyed \ Held = Keyed' \ Held'
<1>0. /\ handler \in [at : Pcs, to : Kbd \cup {NoKbd}, keys : Seq(Key)] /\ handler.keys \in Seq(Key) /\ dq \in Seq(Key)
      /\ fq \in [Kbd -> Seq(Key)] /\ \A k \in Kbd : Len(fq[k]) <= QueSize
  BY DEF DetourInv, DetourTypes, FilterTypes, DeviceTypes, HandlerTypes
<1>1. CASE Create \/ CreateWake \/ CreateCancel \/ DetourReadPend \/ DetourWrite \/ DetourWriteLook \/ CancelIo
           \/ CancelIoRoutine \/ Close
  <2>1. UNCHANGED <<typed, forced, received, dq, classq, buf, fq>>
    BY <1>1 DEF Create, CreateWake, CreateCancel, DetourReadPend, DetourWrite, DetourWriteLook, CancelIo, CancelIoRoutine, Close,
                filterVars, deviceVars
  <2>2. handler'.keys = handler.keys
    BY <1>0, <1>1 DEF Create, CreateWake, CreateCancel, DetourReadPend, DetourWrite, DetourWriteLook, CancelIo, CancelIoRoutine, Close, Go
  <2> QED
    BY <2>1, <2>2, QueuesKept
<1>2. CASE DetourRead
  <2>1. UNCHANGED <<typed, forced, received, classq, buf, fq, current>> /\ handler.keys = <<>>
    BY <1>2 DEF DetourRead, filterVars
  <2>2. CASE dq # <<>>
    <3>1. handler' = [handler EXCEPT !.keys = <<Head(dq)>>] /\ dq' = Tail(dq)
      BY <1>2, <2>2 DEF DetourRead
    <3>2. handler'.keys = <<Head(dq)>>
      BY <1>0, <3>1
    <3>3. Keys(dq) = {Head(dq)} \cup Keys(Tail(dq)) /\ Keys(<<Head(dq)>>) = {Head(dq)} /\ Keys(<<>>) = {}
      BY <1>0, <2>2, KeysFirst, KeysFew
    <3>4. Keyed' = Keyed \cup {} /\ current \in Kbd
      BY <2>1 DEF Keyed, DetourInv, DetourTypes, FilterTypes, DeviceTypes, HandlerTypes
    <3> QED
      BY <2>1, <3>1, <3>2, <3>3, <3>4, NotLost
  <2>3. CASE dq = <<>>
    <3>1. handler' = [handler EXCEPT !.at = "pend"] /\ UNCHANGED dq
      BY <1>2, <2>3 DEF DetourRead, Go
    <3> QED
      BY <1>0, <2>1, <3>1, QueuesKept
  <2> QED
    BY <2>2, <2>3
<1>3. CASE DetourWriteEnque
  <2> DEFINE k == handler.to
  <2>1. /\ fq' = [fq EXCEPT ![k] = Enque(fq[k], handler.keys)] /\ UNCHANGED <<typed, forced, classq, buf, received, dq>>
        /\ handler' = [handler EXCEPT !.at = IF marked[k] THEN "look" ELSE "open", !.keys = <<>>] /\ handler.at = "enque"
    BY <1>3 DEF DetourWriteEnque, deviceVars, At
  <2>2. k \in Kbd /\ handler'.keys = <<>>
    BY <1>0, <2>1 DEF DetourInv, LocksKnown
  <2> HIDE DEF k
  <2>3. fq'[k] = Enque(fq[k], handler.keys) /\ \A j \in Kbd \ {k} : classq'[j] = classq[j] /\ buf'[j] = buf[j] /\ fq'[j] = fq[j]
    BY <1>0, <2>1, <2>2
  <2>4. fq[k] \in Seq(Key) /\ Len(fq[k]) <= QueSize /\ Len(Enque(fq[k], handler.keys)) # QueSize
    BY <1>0, <2>2, <2>3
  <2>5. Keys(fq'[k]) = Keys(fq[k]) \cup Keys(handler.keys) /\ Keys(<<>>) = {}
    <3>1. handler.keys \in Seq(Key)
      BY <1>0
    <3>2. Keys(Enque(fq[k], handler.keys)) = Keys(fq[k]) \cup Keys(handler.keys)
      BY <2>4, <3>1, EnqueKeeps
    <3> QED
      BY <2>3, <3>2, KeysFew
  <2>6. Keyed' = Keyed \cup {}
    BY <2>1 DEF Keyed
  <2>7. Keys(received') \cup Keys(dq') \cup Keys(handler'.keys) \cup Keys(classq'[k]) \cup Keys(buf'[k]) \cup Keys(fq'[k])
          = Keys(received) \cup Keys(dq) \cup Keys(handler.keys) \cup Keys(classq[k]) \cup Keys(buf[k]) \cup Keys(fq[k]) \cup {}
    BY <2>1, <2>2, <2>5
  <2> QED
    BY <2>2, <2>3, <2>6, <2>7, NotLost
<1> QED
  BY <1>1, <1>2, <1>3 DEF Handler, Closing, CreateClear, Cleanup, At

LEMMA ControlLoses ==
  ASSUME DetourInv, Control, Len(dq') # QueSize
  PROVE  Keyed \ Held = Keyed' \ Held'
<1>0. dq \in Seq(Key) /\ Len(dq) <= QueSize /\ current \in Kbd
  BY DEF DetourInv, DetourTypes, FilterTypes, DeviceTypes, HandlerTypes
<1>1. CASE DetourCancel \/ DetourCancelIrp \/ DetourReadCancel
  <2>1. UNCHANGED <<typed, forced, received, dq, classq, buf, fq, handler>>
    BY <1>1 DEF DetourCancel, DetourCancelIrp, DetourReadCancel, filterVars, deviceVars
  <2> QED
    BY <2>1, QueuesKept
<1>2. CASE ForceInput
  <2> DEFINE n == MaxKeys + forced + 1
  <2>1. /\ forced < MaxForced /\ forced' = forced + 1 /\ dq' = Enque(dq, <<n>>)
        /\ UNCHANGED <<typed, classq, buf, fq, received, handler>>
    BY <1>2 DEF ForceInput
  <2>2. typed \in Nat /\ typed <= MaxKeys /\ MaxKeys \in Nat /\ forced \in Nat /\ n \in Key
    BY <2>1, DetourAssumption DEF DetourInv, DetourTypes, FilterTypes, DeviceTypes, HandlerTypes, Key
  <2>3. n \notin Keyed /\ Keyed' = Keyed \cup {n}
    BY <2>1, <2>2 DEF Keyed
  <2> HIDE DEF n
  <2>4. <<n>> \in Seq(Key) /\ Keys(<<n>>) = {n}
    BY <2>2, KeysFew
  <2>5. Keys(dq') = Keys(dq) \cup {n}
    BY <1>0, <2>1, <2>4, EnqueKeeps
  <2> QED
    <3>1. \A j \in Kbd \ {current} : classq'[j] = classq[j] /\ buf'[j] = buf[j] /\ fq'[j] = fq[j]
      BY <2>1
    <3>2. {n} \cap Keyed = {}
      BY <2>3
    <3>3. Keys(received') \cup Keys(dq') \cup Keys(handler'.keys) \cup Keys(classq'[current]) \cup Keys(buf'[current]) \cup Keys(fq'[current])
            = Keys(received) \cup Keys(dq) \cup Keys(handler.keys) \cup Keys(classq[current]) \cup Keys(buf[current]) \cup Keys(fq[current]) \cup {n}
      <4>1. Keys(received') = Keys(received) /\ Keys(handler'.keys) = Keys(handler.keys) /\ Keys(classq'[current]) = Keys(classq[current])
            /\ Keys(buf'[current]) = Keys(buf[current]) /\ Keys(fq'[current]) = Keys(fq[current])
        BY <2>1
      <4> QED
        BY <2>5, <4>1
    <3> QED
      BY <1>0, <2>3, <3>1, <3>2, <3>3, NotLost
<1>3. CASE ForceInputServe
  <2>1. UNCHANGED <<typed, forced, classq, buf, fq, received>> /\ ServeRead
    BY <1>3 DEF ForceInputServe, filterVars
  <2>2. Keyed' = Keyed \cup {}
    BY <2>1 DEF Keyed
  <2> QED
    BY <1>0, <2>1, <2>2, ServeMoves, NotLost
<1> QED
  BY <1>1, <1>2, <1>3 DEF Control

LEMMA KeyIn ==
  ASSUME NEW q \in Seq(Key), NEW i \in DOMAIN q
  PROVE  q[i] \in Keys(q) /\ q[i] \in Key /\ q[i] \in Int /\ MaxKeys \in Int
BY DetourAssumption DEF Keys, Key

LEMMA InOrderConcat ==
  ASSUME NEW p \in Seq(Key), NEW q \in Seq(Key), InOrder(p), InOrder(q), Earlier(Keys(p), Keys(q))
  PROVE  InOrder(p \o q) /\ p \o q \in Seq(Key) /\ Keys(p \o q) = Keys(p) \cup Keys(q)
<1> DEFINE m == Len(p)
           n == Len(q)
           c == p \o q
<1>1. /\ DOMAIN p = 1..m /\ DOMAIN q = 1..n /\ m \in Nat /\ n \in Nat /\ DOMAIN c = 1..m + n /\ c \in Seq(Key)
      /\ \A i \in 1..m + n : c[i] = IF i <= m THEN p[i] ELSE q[i - m]
  BY ConcatProperties
<1> HIDE DEF m, n, c
<1>2. ASSUME NEW i \in DOMAIN c, NEW j \in DOMAIN c, i < j, c[i] <= MaxKeys <=> c[j] <= MaxKeys PROVE c[i] < c[j]
  <2>1. CASE j <= m
    BY <1>1, <1>2, <2>1 DEF InOrder
  <2>2. CASE i <= m /\ ~(j <= m)
    <3>1. i \in DOMAIN p /\ j - m \in DOMAIN q
      BY <1>1, <2>2
    <3>2. c[i] = p[i] /\ c[j] = q[j - m] /\ p[i] \in Keys(p) /\ q[j - m] \in Keys(q)
      BY <1>1, <2>2, <3>1, KeyIn
    <3> QED
      BY <1>2, <3>2 DEF Earlier
  <2>3. CASE ~(i <= m)
    <3>1. i - m \in DOMAIN q /\ j - m \in DOMAIN q /\ i - m < j - m /\ ~(j <= m)
      BY <1>1, <1>2, <2>3
    <3>2. c[i] = q[i - m] /\ c[j] = q[j - m]
      BY <1>1, <2>3, <3>1
    <3> QED
      BY <1>2, <3>1, <3>2 DEF InOrder
  <2> QED
    BY <1>1, <2>1, <2>2, <2>3
<1> QED
  BY <1>1, <1>2, KeysConcat DEF InOrder, c

LEMMA InOrderPrefix ==
  ASSUME NEW s \in Seq(Key), NEW t \in Seq(Key), Len(t) <= Len(s), \A i \in 1..Len(t) : t[i] = s[i], InOrder(s)
  PROVE  InOrder(t) /\ Keys(t) \subseteq Keys(s)
<1>1. DOMAIN t = 1..Len(t) /\ DOMAIN s = 1..Len(s) /\ Len(t) \in Nat /\ Len(s) \in Nat
  OBVIOUS
<1>2. DOMAIN t \subseteq DOMAIN s
  BY <1>1
<1> QED
  BY <1>1, <1>2 DEF InOrder, Keys

LEMMA InOrderFirst ==
  ASSUME NEW q \in Seq(Key), q # <<>>, InOrder(q)
  PROVE  /\ InOrder(Tail(q)) /\ Tail(q) \in Seq(Key) /\ Head(q) \in Key /\ Keys(q) = {Head(q)} \cup Keys(Tail(q))
         /\ Earlier({Head(q)}, Keys(Tail(q)))
<1> DEFINE n == Len(q)
           t == Tail(q)
<1>1. /\ n \in Nat /\ DOMAIN q = 1..n /\ Len(t) = n - 1 /\ DOMAIN t = 1..n - 1 /\ n # 0 /\ Head(q) = q[1] /\ 1 \in 1..n
      /\ \A i \in 1..n - 1 : t[i] = q[i + 1] /\ i + 1 \in 1..n /\ 1 < i + 1
  BY EmptySeq, HeadTailProperties
<1> HIDE DEF n, t
<1>2. InOrder(t)
  <2> SUFFICES ASSUME NEW i \in 1..n - 1, NEW j \in 1..n - 1, i < j, t[i] <= MaxKeys <=> t[j] <= MaxKeys PROVE t[i] < t[j]
    BY <1>1 DEF InOrder
  <2>1. i + 1 < j + 1
    BY <1>1
  <2> QED
    BY <1>1, <2>1 DEF InOrder
<1>3. Earlier({q[1]}, Keys(t))
  BY <1>1 DEF Earlier, InOrder, Keys
<1> QED
  BY <1>1, <1>2, <1>3, KeysFirst DEF t

LEMMA InOrderFew ==
  ASSUME NEW x
  PROVE  InOrder(<<>>) /\ InOrder(<<x>>) /\ Keys(<<>>) = {} /\ Keys(<<x>>) = {x}
<1>1. DOMAIN <<x>> = {1} /\ DOMAIN <<>> = {}
  <2>1. DOMAIN <<x>> = 1..1 /\ 1..1 = {1}
    OBVIOUS
  <2> QED
    BY <2>1
<1>2. ~(1 < 1)
  OBVIOUS
<1> QED
  BY <1>1, <1>2, KeysFew DEF InOrder

LEMMA InOrderAppend ==
  ASSUME NEW q \in Seq(Key), NEW x \in Key, InOrder(q), Earlier(Keys(q), {x})
  PROVE  InOrder(Append(q, x)) /\ Append(q, x) \in Seq(Key) /\ Keys(Append(q, x)) = Keys(q) \cup {x}
<1>1. Append(q, x) = q \o <<x>> /\ <<x>> \in Seq(Key)
  BY AppendIsConcat
<1> QED
  <2>1. InOrder(<<x>>) /\ Keys(<<x>>) = {x}
    BY InOrderFew
  <2>2. Earlier(Keys(q), Keys(<<x>>))
    BY <2>1
  <2>3. InOrder(q \o <<x>>) /\ q \o <<x>> \in Seq(Key) /\ Keys(q \o <<x>>) = Keys(q) \cup Keys(<<x>>)
    BY <1>1, <2>1, <2>2, InOrderConcat
  <2> QED
    BY <1>1, <2>1, <2>3

LEMMA EnqueFew ==
  ASSUME NEW q \in Seq(Key), NEW s \in Seq(Key), Len(q) <= QueSize
  PROVE  Keys(Enque(q, s)) \subseteq Keys(q) \cup Keys(s)
<1>1. PICK t \in Seq(Key) : Enque(q, s) = q \o t /\ Len(t) <= Len(s) /\ \A i \in 1..Len(t) : t[i] = s[i]
  BY EnqueIs
<1>2. Keys(t) \subseteq Keys(s)
  <2>1. DOMAIN t = 1..Len(t) /\ DOMAIN s = 1..Len(s) /\ 1..Len(t) \subseteq 1..Len(s)
    BY <1>1
  <2> QED
    BY <1>1, <2>1 DEF Keys
<1>3. Keys(q \o t) = Keys(q) \cup Keys(t)
  BY KeysConcat
<1> QED
  BY <1>1, <1>2, <1>3

LEMMA EnqueOrder ==
  ASSUME NEW q \in Seq(Key), NEW s \in Seq(Key), Len(q) <= QueSize, InOrder(q), InOrder(s), Earlier(Keys(q), Keys(s))
  PROVE  InOrder(Enque(q, s)) /\ Keys(Enque(q, s)) \subseteq Keys(q) \cup Keys(s)
<1>1. PICK t \in Seq(Key) : Enque(q, s) = q \o t /\ Len(t) <= Len(s) /\ \A i \in 1..Len(t) : t[i] = s[i]
  BY EnqueIs
<1>2. InOrder(t) /\ Keys(t) \subseteq Keys(s)
  BY <1>1, InOrderPrefix
<1>3. Earlier(Keys(q), Keys(t))
  BY <1>2 DEF Earlier
<1>4. InOrder(q \o t) /\ Keys(q \o t) = Keys(q) \cup Keys(t)
  BY <1>2, <1>3, InOrderConcat
<1> QED
  BY <1>1, <1>2, <1>4

\* How keys move along the line: what was written and read, returned, completed, typed, detoured,
\* passed on, read by mayu and written by it.
LEMMA MoveWritten ==
  ASSUME NEW a \in Seq(Key), NEW c \in Seq(Key), NEW d \in Seq(Key),
         NEW e \in Seq(Key), NEW f \in Seq(Key), NEW g \in Seq(Key), Line(a, <<>>, c, d, e, f, g)
  PROVE  Line(a \o c, <<>>, <<>>, d, e, f, g)
<1>1. InOrder(a) /\ InOrder(c) /\ Earlier(Keys(a), Keys(c))
  BY DEF Line, Earlier
<1>2. InOrder(a \o c) /\ Keys(a \o c) = Keys(a) \cup Keys(c)
  BY <1>1, InOrderConcat
<1>3. InOrder(<<>>) /\ Keys(<<>>) = {}
  BY InOrderFew
<1> QED
  BY <1>2, <1>3 DEF Line, Earlier

LEMMA MoveReturned ==
  ASSUME NEW a \in Seq(Key), NEW b \in Seq(Key), NEW c \in Seq(Key), NEW d \in Seq(Key),
         NEW e \in Seq(Key), NEW f \in Seq(Key), NEW g \in Seq(Key), Line(a, b, c, d, e, f, g)
  PROVE  Line(a \o b, <<>>, c, d, e, f, g)
<1>1. InOrder(a) /\ InOrder(b) /\ Earlier(Keys(a), Keys(b))
  BY DEF Line, Earlier
<1>2. InOrder(a \o b) /\ Keys(a \o b) = Keys(a) \cup Keys(b)
  BY <1>1, InOrderConcat
<1>3. InOrder(<<>>) /\ Keys(<<>>) = {}
  BY InOrderFew
<1> QED
  BY <1>2, <1>3 DEF Line, Earlier

LEMMA MoveOutput ==
  ASSUME NEW a \in Seq(Key), NEW c \in Seq(Key), NEW d \in Seq(Key),
         NEW e \in Seq(Key), NEW f \in Seq(Key), NEW g \in Seq(Key), Line(a, <<>>, c, d, e, f, g)
  PROVE  Line(a, c, <<>>, d, e, f, g)
BY InOrderFew DEF Line, Earlier

LEMMA MoveTyped ==
  ASSUME NEW a \in Seq(Key), NEW b \in Seq(Key), NEW c \in Seq(Key), NEW d \in Seq(Key),
         NEW e \in Seq(Key), NEW g \in Seq(Key), Line(a, b, c, d, e, <<>>, g)
  PROVE  Line(a, b, c, d, e, g, <<>>)
BY InOrderFew DEF Line, Earlier

LEMMA MoveIn ==
  ASSUME NEW a \in Seq(Key), NEW b \in Seq(Key), NEW c \in Seq(Key), NEW d \in Seq(Key),
         NEW e \in Seq(Key), NEW f \in Seq(Key), NEW g \in Seq(Key), Line(a, b, c, d, e, f, g), Len(e) <= QueSize
  PROVE  Line(a, b, c, d, Enque(e, f), <<>>, g)
<1>1. InOrder(e) /\ InOrder(f) /\ Earlier(Keys(e), Keys(f))
  BY DEF Line, Earlier
<1>2. InOrder(Enque(e, f)) /\ Keys(Enque(e, f)) \subseteq Keys(e) \cup Keys(f)
  BY <1>1, EnqueOrder
<1>3. InOrder(<<>>) /\ Keys(<<>>) = {}
  BY InOrderFew
<1> QED
  BY <1>2, <1>3 DEF Line, Earlier

LEMMA MovePast ==
  ASSUME NEW a \in Seq(Key), NEW f \in Seq(Key), NEW g \in Seq(Key), Line(a, <<>>, <<>>, <<>>, <<>>, f, g)
  PROVE  Line(a, f, <<>>, <<>>, <<>>, <<>>, g)
BY InOrderFew DEF Line, Earlier

LEMMA MoveRead ==
  ASSUME NEW a \in Seq(Key), NEW b \in Seq(Key), NEW c \in Seq(Key), NEW d \in Seq(Key),
         NEW e \in Seq(Key), NEW f \in Seq(Key), NEW g \in Seq(Key), Line(a, b, c, d, e, f, g), e # <<>>
  PROVE  Line(a, b, c, Append(d, Head(e)), Tail(e), f, g)
<1>1. InOrder(d) /\ InOrder(e) /\ Earlier(Keys(d), Keys(e))
  BY DEF Line, Earlier
<1>2. InOrder(Tail(e)) /\ Head(e) \in Key /\ Keys(e) = {Head(e)} \cup Keys(Tail(e)) /\ Earlier({Head(e)}, Keys(Tail(e)))
  BY <1>1, InOrderFirst
<1>3. Earlier(Keys(d), {Head(e)})
  BY <1>1, <1>2 DEF Earlier
<1>4. InOrder(Append(d, Head(e))) /\ Keys(Append(d, Head(e))) = Keys(d) \cup {Head(e)}
  BY <1>1, <1>2, <1>3, InOrderAppend
<1> QED
  BY <1>2, <1>4 DEF Line, Earlier

LEMMA MoveWrite ==
  ASSUME NEW a \in Seq(Key), NEW b \in Seq(Key), NEW c \in Seq(Key), NEW d \in Seq(Key),
         NEW e \in Seq(Key), NEW f \in Seq(Key), NEW g \in Seq(Key), Line(a, b, c, d, e, f, g), Len(c) <= QueSize
  PROVE  Line(a, b, Enque(c, d), <<>>, e, f, g)
<1>1. InOrder(c) /\ InOrder(d) /\ Earlier(Keys(c), Keys(d))
  BY DEF Line, Earlier
<1>2. InOrder(Enque(c, d)) /\ Keys(Enque(c, d)) \subseteq Keys(c) \cup Keys(d)
  BY <1>1, EnqueOrder
<1>3. InOrder(<<>>) /\ Keys(<<>>) = {}
  BY InOrderFew
<1> QED
  BY <1>2, <1>3 DEF Line, Earlier

LEMMA DropKeys ==
  ASSUME NEW a \in Seq(Key), NEW b \in Seq(Key), NEW c \in Seq(Key), NEW d \in Seq(Key),
         NEW e \in Seq(Key), NEW f \in Seq(Key), NEW g \in Seq(Key), Line(a, b, c, d, e, f, g)
  PROVE  Line(a, b, c, <<>>, e, f, g) /\ Line(a, b, c, d, <<>>, f, g) /\ Line(a, b, <<>>, <<>>, <<>>, f, g)
BY InOrderFew DEF Line, Earlier

\* A key that is typed is the youngest of the typed ones.
LEMMA NewTyped ==
  ASSUME NEW a \in Seq(Key), NEW b \in Seq(Key), NEW c \in Seq(Key), NEW d \in Seq(Key),
         NEW e \in Seq(Key), NEW f \in Seq(Key), NEW g \in Seq(Key), Line(a, b, c, d, e, f, g),
         NEW n \in Key, n <= MaxKeys,
         \A x \in Keys(a) \cup Keys(b) \cup Keys(c) \cup Keys(d) \cup Keys(e) \cup Keys(f) \cup Keys(g) : x <= MaxKeys => x < n
  PROVE  Line(a, b, c, d, e, f, Append(g, n))
<1>1. InOrder(g) /\ Earlier(Keys(g), {n})
  BY DEF Line, Earlier
<1>2. InOrder(Append(g, n)) /\ Keys(Append(g, n)) = Keys(g) \cup {n}
  BY <1>1, InOrderAppend
<1> QED
  BY <1>2 DEF Line, Earlier

\* A key that mayu puts in is the youngest of its kind.
LEMMA NewForced ==
  ASSUME NEW a \in Seq(Key), NEW b \in Seq(Key), NEW c \in Seq(Key), NEW d \in Seq(Key),
         NEW e \in Seq(Key), NEW f \in Seq(Key), NEW g \in Seq(Key), Line(a, b, c, d, e, f, g),
         NEW n \in Key, ~(n <= MaxKeys), Len(e) <= QueSize, \A x \in Keys(f) \cup Keys(g) : x <= MaxKeys,
         \A x \in Keys(a) \cup Keys(b) \cup Keys(c) \cup Keys(d) \cup Keys(e) : ~(x <= MaxKeys) => x < n
  PROVE  Line(a, b, c, d, Enque(e, <<n>>), f, g)
<1>1. InOrder(e) /\ Earlier(Keys(e), {n}) /\ InOrder(<<n>>) /\ Keys(<<n>>) = {n} /\ <<n>> \in Seq(Key)
  BY InOrderFew DEF Line, Earlier
<1>2. Earlier(Keys(e), Keys(<<n>>))
  BY <1>1
<1>3. InOrder(Enque(e, <<n>>)) /\ Keys(Enque(e, <<n>>)) \subseteq Keys(e) \cup {n}
  BY <1>1, <1>2, EnqueOrder
<1> QED
  BY <1>3 DEF Line, Earlier


LEMMA LineTypes ==
  ASSUME DetourTypes, NEW k \in Kbd
  PROVE  /\ received \in Seq(Key) /\ Out(k) \in Seq(Key) /\ fq[k] \in Seq(Key) /\ handler.keys \in Seq(Key) /\ dq \in Seq(Key)
         /\ In(k) \in Seq(Key) /\ classq[k] \in Seq(Key) /\ buf[k] \in Seq(Key) /\ <<>> \in Seq(Key) /\ Keys(<<>>) = {}
         /\ Len(dq) <= QueSize /\ Len(fq[k]) <= QueSize
<1>1. Keys(<<>>) = {}
  BY KeysFew
<1>2. /\ <<>> \in Seq(Key) /\ received \in Seq(Key) /\ fq[k] \in Seq(Key) /\ handler.keys \in Seq(Key) /\ dq \in Seq(Key)
      /\ classq[k] \in Seq(Key) /\ buf[k] \in Seq(Key) /\ Len(dq) <= QueSize /\ Len(fq[k]) <= QueSize
  BY DEF DetourTypes, FilterTypes, DeviceTypes, HandlerTypes
<1> QED
  BY <1>1, <1>2 DEF Out, In

\* Keys that go to mayu no longer may be left out.
LEMMA QuietKeeps ==
  ASSUME DetourInv, NEW k \in Kbd, Ordered(k), Numbered(k), UNCHANGED <<received, fq, dq, classq, buf, typed, forced>>,
         handler'.keys = handler.keys, Out(k)' = Out(k), In(k)' = In(k), Alive(k)' => Alive(k)
  PROVE  Ordered(k)' /\ Numbered(k)'
<1>1. Numbered(k)'
  BY DEF Numbered, All, Keyed
<1>2. CASE Alive(k)
  <2>1. /\ Line(received, Out(k), fq[k], handler.keys, dq, In(k), classq[k])
        /\ Line(received, Out(k), <<>>, <<>>, <<>>, In(k), classq[k])
    BY <1>2, LineTypes, DropKeys DEF Ordered, DetourInv
  <2> QED
    BY <1>1, <2>1 DEF Ordered
<1>3. CASE ~Alive(k)
  BY <1>1, <1>3 DEF Ordered
<1> QED
  BY <1>2, <1>3

LEMMA FilterQuiet ==
  ASSUME NEW k \in Kbd, LineInv(k), FilterRead(k) \/ FilterReadMark(k) \/ CallClass(k) \/ CompletionUnmark(k)
  PROVE  Ordered(k)' /\ Numbered(k)'
<1>1. UNCHANGED <<received, fq, dq, classq, buf, typed, forced, handler, isOpen, cleanup>>
  BY DEF FilterRead, FilterReadMark, CallClass, CompletionUnmark, deviceVars
<1>2. irp'[k] # "return" /\ irp[k] # "return" /\ (irp'[k] \in {"queue", "serve", "output"} => Detoured)
  BY DEF FilterRead, FilterReadMark, CallClass, CompletionUnmark, LineInv, DetourInv, DetourTypes, FilterTypes, DeviceTypes, HandlerTypes
<1>3. Out(k)' = Out(k) /\ In(k)' = In(k) /\ (Alive(k)' => Alive(k))
  BY <1>1, <1>2 DEF Out, In, Alive, Detoured
<1> QED
  BY <1>1, <1>3, QuietKeeps DEF LineInv

LEMMA FilterMoves ==
  ASSUME NEW k \in Kbd, LineInv(k), DetourInv', FilterReadQueue(k) \/ ClassCompletes(k) \/ CompletionOutput(k) \/ CompletionReturn(k)
  PROVE  Ordered(k)' /\ Numbered(k)'
<1>0. /\ DetourTypes /\ classq \in [Kbd -> Seq(Key)] /\ buf \in [Kbd -> Seq(Key)] /\ fq \in [Kbd -> Seq(Key)]
      /\ irp[k] \notin {"completed", "unmarked", "return"} => buf[k] = <<>>
      /\ irp \in [Kbd -> {"none", "queue", "mark", "call", "class", "completed", "unmarked", "serve", "output", "return"}]
  <2>1. DetourTypes /\ LocksKnown
    BY DEF LineInv, DetourInv
  <2>2. irp[k] \notin {"completed", "unmarked", "return"} => buf[k] = <<>>
    BY <2>1 DEF LocksKnown
  <2>3. FilterTypes
    BY <2>1 DEF DetourTypes
  <2> QED
    BY <2>1, <2>2, <2>3 DEF FilterTypes
<1>1. CASE FilterReadQueue(k)
  <2>1. /\ received' = received \o fq[k] /\ fq'[k] = <<>> /\ UNCHANGED <<classq, buf, dq, handler, typed, forced, isOpen, cleanup>>
        /\ irp[k] = "queue" /\ irp'[k] \in {"none", "mark"}
    BY <1>0, <1>1 DEF FilterReadQueue, deviceVars
  <2>2. buf[k] = <<>> /\ Out(k) = <<>> /\ In(k) = <<>> /\ Out(k)' = <<>> /\ In(k)' = <<>> /\ Alive(k)
    BY <1>0, <2>1 DEF Out, In, Alive
  <2>3. Line(received \o fq[k], <<>>, <<>>, handler.keys, dq, In(k), classq[k])
    BY <1>0, <2>2, LineTypes, MoveWritten DEF LineInv, Ordered
  <2>4. received \o fq[k] \in Seq(Key) /\ Keys(received \o fq[k]) = Keys(received) \cup Keys(fq[k])
    BY <1>0, LineTypes, KeysConcat, ConcatProperties
  <2>5. Line(received \o fq[k], <<>>, <<>>, <<>>, <<>>, In(k), classq[k])
    BY <1>0, <2>3, <2>4, LineTypes, DropKeys
  <2>6. Ordered(k)'
    BY <2>1, <2>2, <2>3, <2>5 DEF Ordered
  <2> QED
    BY <1>0, <2>1, <2>2, <2>4, <2>6, LineTypes DEF LineInv, Numbered, All, Keyed
<1>2. CASE ClassCompletes(k)
  <2>1. /\ buf'[k] = classq[k] /\ classq'[k] = <<>> /\ UNCHANGED <<received, fq, dq, handler, typed, forced, isOpen, cleanup>>
        /\ irp[k] = "class" /\ irp'[k] = "completed"
    BY <1>0, <1>2 DEF ClassCompletes, deviceVars
  <2>2. buf[k] = <<>> /\ Out(k) = <<>> /\ In(k) = <<>> /\ Out(k)' = <<>> /\ In(k)' = classq[k] /\ Alive(k)' = Alive(k)
    BY <1>0, <2>1 DEF Out, In, Alive, Detoured
  <2>3. IF Alive(k) THEN Line(received, <<>>, fq[k], handler.keys, dq, classq[k], <<>>)
                    ELSE Line(received, <<>>, <<>>, <<>>, <<>>, classq[k], <<>>)
    BY <1>0, <2>2, LineTypes, MoveTyped DEF LineInv, Ordered
  <2>4. Ordered(k)'
    BY <2>1, <2>2, <2>3 DEF Ordered
  <2> QED
    BY <1>0, <2>1, <2>2, <2>4, LineTypes DEF LineInv, Numbered, All, Keyed
<1>3. CASE CompletionOutput(k)
  <2>1. /\ buf'[k] = buf[k] \o fq[k] /\ fq'[k] = <<>> /\ UNCHANGED <<received, classq, dq, handler, typed, forced, isOpen, cleanup>>
        /\ irp[k] = "output" /\ irp'[k] = "return"
    BY <1>0, <1>3 DEF CompletionOutput, deviceVars
  <2>2. buf[k] = <<>> /\ <<>> \o fq[k] = fq[k]
    BY <1>0, <2>1, LineTypes, ConcatEmptySeq
  <2>3. Out(k) = <<>> /\ In(k) = <<>> /\ Out(k)' = fq[k] /\ In(k)' = <<>> /\ Alive(k)
    BY <2>1, <2>2 DEF Out, In, Alive
  <2>4. Line(received, fq[k], <<>>, handler.keys, dq, In(k), classq[k])
    BY <1>0, <2>3, LineTypes, MoveOutput DEF LineInv, Ordered
  <2>5. Line(received, fq[k], <<>>, <<>>, <<>>, In(k), classq[k])
    BY <1>0, <2>4, LineTypes, DropKeys
  <2>6. Ordered(k)'
    BY <2>1, <2>3, <2>4, <2>5 DEF Ordered
  <2> QED
    BY <1>0, <2>1, <2>2, <2>3, <2>6, LineTypes DEF LineInv, Numbered, All, Keyed
<1>4. CASE CompletionReturn(k)
  <2>1. /\ received' = received \o buf[k] /\ buf'[k] = <<>> /\ UNCHANGED <<classq, fq, dq, handler, typed, forced, isOpen, cleanup>>
        /\ irp[k] = "return" /\ irp'[k] = "none"
    BY <1>0, <1>4 DEF CompletionReturn, deviceVars
  <2>2. Out(k) = buf[k] /\ In(k) = <<>> /\ Out(k)' = <<>> /\ In(k)' = <<>> /\ Alive(k)' = Alive(k)
    BY <2>1 DEF Out, In, Alive, Detoured
  <2>3. IF Alive(k) THEN Line(received \o buf[k], <<>>, fq[k], handler.keys, dq, In(k), classq[k])
                    ELSE Line(received \o buf[k], <<>>, <<>>, <<>>, <<>>, In(k), classq[k])
    BY <1>0, <2>2, LineTypes, MoveReturned DEF LineInv, Ordered
  <2>4. Keys(received \o buf[k]) = Keys(received) \cup Keys(buf[k])
    BY <1>0, LineTypes, KeysConcat
  <2>5. Ordered(k)'
    BY <2>1, <2>2, <2>3 DEF Ordered
  <2> QED
    BY <1>0, <2>1, <2>2, <2>4, <2>5, LineTypes DEF LineInv, Numbered, All, Keyed
<1> QED
  BY <1>1, <1>2, <1>3, <1>4

LEMMA DetourMoves ==
  ASSUME NEW k \in Kbd, LineInv(k), CompletionDetour(k)
  PROVE  Ordered(k)' /\ Numbered(k)'
<1>0. DetourTypes /\ buf \in [Kbd -> Seq(Key)] /\ irp[k] = "unmarked"
      /\ irp \in [Kbd -> {"none", "queue", "mark", "call", "class", "completed", "unmarked", "serve", "output", "return"}]
  BY DEF LineInv, DetourInv, DetourTypes, FilterTypes, DeviceTypes, HandlerTypes, CompletionDetour
<1>1. UNCHANGED <<received, fq, classq, handler, typed, forced, isOpen, cleanup>>
  BY DEF CompletionDetour
<1>2. CASE Detoured
  <2>1. dq' = Enque(dq, buf[k]) /\ buf'[k] = <<>> /\ irp'[k] = "serve"
    BY <1>0, <1>2 DEF CompletionDetour
  <2>2. Out(k) = <<>> /\ In(k) = buf[k] /\ Out(k)' = <<>> /\ In(k)' = <<>> /\ Alive(k) /\ Alive(k)'
    BY <1>0, <1>2, <2>1 DEF Out, In, Alive
  <2>3. Line(received, <<>>, fq[k], handler.keys, dq, buf[k], classq[k])
    BY <2>2 DEF LineInv, Ordered
  <2>4. Line(received, <<>>, fq[k], handler.keys, Enque(dq, buf[k]), <<>>, classq[k])
    BY <1>0, <2>3, LineTypes, MoveIn
  <2>5. Keys(Enque(dq, buf[k])) \subseteq Keys(dq) \cup Keys(buf[k])
    BY <1>0, LineTypes, EnqueFew
  <2>6. Ordered(k)'
    BY <1>1, <2>1, <2>2, <2>4 DEF Ordered
  <2> QED
    BY <1>0, <1>1, <2>1, <2>2, <2>5, <2>6, LineTypes DEF LineInv, Numbered, All, Keyed
<1>3. CASE ~Detoured
  <2>1. UNCHANGED <<dq, buf>> /\ irp'[k] = "return"
    BY <1>0, <1>3 DEF CompletionDetour
  <2>2. Out(k) = <<>> /\ In(k) = buf[k] /\ Out(k)' = buf[k] /\ In(k)' = <<>> /\ ~Alive(k) /\ ~Alive(k)'
    BY <1>0, <1>1, <1>3, <2>1 DEF Out, In, Alive, Detoured
  <2>3. Line(received, buf[k], <<>>, <<>>, <<>>, <<>>, classq[k])
    BY <1>0, <2>2, LineTypes, MovePast DEF LineInv, Ordered
  <2>4. Ordered(k)'
    BY <1>1, <2>1, <2>2, <2>3 DEF Ordered
  <2> QED
    BY <1>0, <1>1, <2>1, <2>2, <2>4, LineTypes DEF LineInv, Numbered, All, Keyed
<1> QED
  BY <1>2, <1>3

\* Both who serve a waiting read.
LEMMA ServeKeepsLine ==
  ASSUME NEW k \in Kbd, LineInv(k), ServeRead, UNCHANGED <<received, fq, classq, buf, typed, forced>>,
         Out(k)' = Out(k), In(k)' = In(k), Alive(k)' = Alive(k)
  PROVE  Ordered(k)' /\ Numbered(k)'
<1>0. DetourInv /\ DetourTypes /\ handler \in [at : Pcs, to : Kbd \cup {NoKbd}, keys : Seq(Key)]
  BY DEF LineInv, DetourInv, DetourTypes, FilterTypes, DeviceTypes, HandlerTypes
<1>1. Numbered(k)'
  BY <1>0, ServeMoves DEF LineInv, Numbered, All, Keyed
<1>2. CASE irpq /\ dq # <<>>
  <2>1. handler' = [handler EXCEPT !.keys = Append(handler.keys, Head(dq))] /\ dq' = Tail(dq)
    BY <1>2 DEF ServeRead
  <2>2. handler'.keys = Append(handler.keys, Head(dq))
    BY <1>0, <2>1
  <2>3. CASE Alive(k)
    <3>1. Line(received, Out(k), fq[k], Append(handler.keys, Head(dq)), Tail(dq), In(k), classq[k])
      BY <1>0, <1>2, <2>3, LineTypes, MoveRead DEF LineInv, Ordered
    <3> QED
      BY <1>1, <2>1, <2>2, <2>3, <3>1 DEF Ordered
  <2>4. CASE ~Alive(k)
    BY <1>1, <2>4 DEF LineInv, Ordered
  <2> QED
    BY <2>3, <2>4
<1>3. CASE ~(irpq /\ dq # <<>>)
  <2>1. UNCHANGED <<handler, dq>>
    BY <1>3 DEF ServeRead
  <2> QED
    BY <1>1, <2>1 DEF LineInv, Ordered
<1> QED
  BY <1>2, <1>3

LEMMA ServeLine ==
  ASSUME NEW k \in Kbd, LineInv(k), CompletionServe(k) \/ ForceInputServe
  PROVE  Ordered(k)' /\ Numbered(k)'
<1>1. ServeRead /\ UNCHANGED <<received, fq, classq, buf, typed, forced, isOpen, cleanup>>
  BY DEF CompletionServe, ForceInputServe, filterVars
<1>2. irp'[k] = irp[k] \/ (irp[k] = "serve" /\ irp'[k] = "output")
  BY DEF LineInv, DetourInv, DetourTypes, FilterTypes, DeviceTypes, HandlerTypes, CompletionServe, ForceInputServe, filterVars
<1>3. Out(k)' = Out(k) /\ In(k)' = In(k) /\ Alive(k)' = Alive(k)
  BY <1>1, <1>2 DEF Out, In, Alive, Detoured
<1> QED
  BY <1>1, <1>3, ServeKeepsLine

LEMMA TypeLine ==
  ASSUME NEW k \in Kbd, LineInv(k), Type(k)
  PROVE  Ordered(k)' /\ Numbered(k)'
<1> DEFINE n == typed + 1
<1>0. DetourTypes /\ classq \in [Kbd -> Seq(Key)]
  BY DEF LineInv, DetourInv, DetourTypes, FilterTypes, DeviceTypes, HandlerTypes
<1>1. /\ typed' = n /\ classq'[k] = Append(classq[k], n) /\ typed < MaxKeys
      /\ UNCHANGED <<received, fq, dq, buf, forced, handler, irp, isOpen, cleanup>>
  BY <1>0 DEF Type, deviceVars
<1>2. typed \in Nat /\ MaxKeys \in Nat /\ forced \in Nat /\ n \in Key /\ n <= MaxKeys /\ n \in 1..MaxKeys
  BY <1>0, <1>1, DetourAssumption DEF DetourTypes, FilterTypes, DeviceTypes, HandlerTypes, Key
<1>3. Keyed' = Keyed \cup {n} /\ \A x \in Keyed : x <= MaxKeys => x < n
  BY <1>1, <1>2 DEF Keyed
<1>4. UNCHANGED <<Out(k), In(k)>> /\ Alive(k)' = Alive(k)
  BY <1>1 DEF Out, In, Alive, Detoured
<1>5. Keys(Append(classq[k], n)) = Keys(classq[k]) \cup {n}
  BY <1>0, <1>2, KeysAppend
<1>6. Keys(Out(k)) \subseteq Keyed /\ Keys(In(k)) \subseteq Keyed /\ Keys(<<>>) = {}
  BY <1>0, LineTypes DEF LineInv, Numbered, All, Out, In
<1> HIDE DEF n
<1>7. All(k) \subseteq Keyed
  BY DEF LineInv, Numbered
<1>8. Numbered(k)'
  BY <1>1, <1>2, <1>3, <1>4, <1>5 DEF LineInv, Numbered, All
<1>9. CASE Alive(k)
  <2>1. \A x \in Keys(received) \cup Keys(Out(k)) \cup Keys(fq[k]) \cup Keys(handler.keys) \cup Keys(dq) \cup Keys(In(k)) \cup Keys(classq[k]) :
          x <= MaxKeys => x < n
    BY <1>3, <1>6, <1>7 DEF All
  <2>2. Line(received, Out(k), fq[k], handler.keys, dq, In(k), classq[k])
    BY <1>9 DEF LineInv, Ordered
  <2>3. Line(received, Out(k), fq[k], handler.keys, dq, In(k), Append(classq[k], n))
    BY <1>0, <1>2, <2>1, <2>2, LineTypes, NewTyped
  <2> QED
    BY <1>1, <1>4, <1>8, <1>9, <2>3 DEF Ordered
<1>10. CASE ~Alive(k)
  <2>1. \A x \in Keys(received) \cup Keys(Out(k)) \cup Keys(<<>>) \cup Keys(<<>>) \cup Keys(<<>>) \cup Keys(In(k)) \cup Keys(classq[k]) :
          x <= MaxKeys => x < n
    BY <1>3, <1>6, <1>7 DEF All
  <2>2. Line(received, Out(k), <<>>, <<>>, <<>>, In(k), classq[k])
    BY <1>10 DEF LineInv, Ordered
  <2>3. Line(received, Out(k), <<>>, <<>>, <<>>, In(k), Append(classq[k], n))
    BY <1>0, <1>2, <2>1, <2>2, LineTypes, NewTyped
  <2> QED
    BY <1>1, <1>4, <1>8, <1>10, <2>3 DEF Ordered
<1> QED
  BY <1>9, <1>10

\* What mayu's handler thread does, apart from moving keys.
LEMMA HandlerQuiet ==
  ASSUME NEW k \in Kbd, LineInv(k), CreateWake \/ CreateCancel \/ DetourReadPend \/ DetourWrite \/ DetourWriteLook \/ CancelIo
         \/ CancelIoRoutine \/ Close \/ DetourCancel \/ DetourCancelIrp \/ DetourReadCancel
  PROVE  Ordered(k)' /\ Numbered(k)'
<1>0. handler \in [at : Pcs, to : Kbd \cup {NoKbd}, keys : Seq(Key)] /\ (irp[k] = "class" => buf[k] = <<>>)
      /\ irp \in [Kbd -> {"none", "queue", "mark", "call", "class", "completed", "unmarked", "serve", "output", "return"}]
  BY DEF LineInv, DetourInv, DetourTypes, FilterTypes, DeviceTypes, HandlerTypes, LocksKnown
<1>1. /\ UNCHANGED <<received, fq, dq, classq, buf, typed, forced, cleanup>> /\ (isOpen' => isOpen)
  BY DEF CreateWake, CreateCancel, DetourReadPend, DetourWrite, DetourWriteLook, CancelIo, CancelIoRoutine, Close,
         DetourCancel, DetourCancelIrp, DetourReadCancel, filterVars, deviceVars
<1>2. handler'.keys = handler.keys
  BY <1>0 DEF CreateWake, CreateCancel, DetourReadPend, DetourWrite, DetourWriteLook, CancelIo, CancelIoRoutine, Close,
         DetourCancel, DetourCancelIrp, DetourReadCancel, Go
<1>3. irp'[k] = irp[k] \/ (irp[k] = "class" /\ irp'[k] = "completed")
  BY <1>0 DEF CreateWake, CreateCancel, DetourReadPend, DetourWrite, DetourWriteLook, CancelIo, CancelIoRoutine, Close,
         DetourCancel, DetourCancelIrp, DetourReadCancel, filterVars, CancelClassRead
<1>4. Out(k)' = Out(k) /\ In(k)' = In(k) /\ (Alive(k)' => Alive(k))
  BY <1>0, <1>1, <1>3 DEF Out, In, Alive, Detoured
<1> QED
  BY <1>1, <1>2, <1>4, QuietKeeps DEF LineInv

\* Opening and closing.
LEMMA OpenLine ==
  ASSUME NEW k \in Kbd, LineInv(k), MaxOpens <= 1, Create \/ CreateClear \/ Cleanup
  PROVE  Ordered(k)' /\ Numbered(k)'
<1>0. DetourTypes /\ handler \in [at : Pcs, to : Kbd \cup {NoKbd}, keys : Seq(Key)] /\ Keys(<<>>) = {}
  BY LineTypes DEF LineInv, DetourInv, DetourTypes, FilterTypes, DeviceTypes, HandlerTypes
<1>1. UNCHANGED <<received, fq, classq, buf, irp, typed, forced>> /\ UNCHANGED <<Out(k), In(k)>>
  BY DEF Create, CreateClear, Cleanup, filterVars, Out, In
<1>2. CASE Create
  <2>1. opens < MaxOpens /\ handler' = [handler EXCEPT !.at = "clear"] /\ UNCHANGED <<dq, cleanup>>
    BY <1>2 DEF Create, Go
  <2>2. opens = 0
    BY <1>0, <2>1, DetourAssumption DEF DetourTypes, FilterTypes, DeviceTypes, HandlerTypes
  <2>3. dq = <<>> /\ fq[k] = <<>> /\ handler.keys = <<>> /\ handler'.keys = <<>>
    BY <1>0, <2>1, <2>2 DEF LineInv, Once
  <2>4. Line(received, Out(k), <<>>, <<>>, <<>>, In(k), classq[k])
    BY <2>3 DEF LineInv, Ordered
  <2>5. Ordered(k)'
    BY <1>1, <2>1, <2>3, <2>4 DEF Ordered
  <2> QED
    BY <1>1, <2>1, <2>3, <2>5 DEF LineInv, Numbered, All, Keyed
<1>3. CASE CreateClear
  <2>1. dq' = <<>> /\ handler' = [handler EXCEPT !.at = "wake"] /\ handler.at = "clear" /\ UNCHANGED isOpen
    BY <1>3 DEF CreateClear, Go, At
  <2>2. handler'.keys = handler.keys /\ ~cleanup
    BY <1>0, <2>1 DEF LineInv, Once
  <2>3. Alive(k)' => Alive(k)
    BY <1>1, <2>1, <2>2 DEF Alive, Detoured
  <2>4. Alive(k) => Line(received, Out(k), fq[k], handler.keys, <<>>, In(k), classq[k])
    BY <1>0, LineTypes, DropKeys DEF LineInv, Ordered
  <2>5. Line(received, Out(k), <<>>, <<>>, <<>>, In(k), classq[k])
    BY <1>0, LineTypes, DropKeys DEF LineInv, Ordered
  <2>6. Ordered(k)'
    BY <1>1, <2>1, <2>2, <2>3, <2>4, <2>5 DEF Ordered
  <2> QED
    BY <1>0, <1>1, <2>1, <2>2, <2>6 DEF LineInv, Numbered, All, Keyed
<1>4. CASE Cleanup
  <2>1. handler' = [at |-> "closing", to |-> NoKbd, keys |-> <<>>] /\ UNCHANGED <<dq, isOpen>> /\ cleanup' = TRUE
    BY <1>4 DEF Cleanup
  <2>2. handler'.keys = <<>> /\ (Alive(k)' => Alive(k))
    BY <1>1, <2>1 DEF Alive, Detoured
  <2>3. Alive(k) => Line(received, Out(k), fq[k], <<>>, dq, In(k), classq[k])
    BY <1>0, LineTypes, DropKeys DEF LineInv, Ordered
  <2>4. Line(received, Out(k), <<>>, <<>>, <<>>, In(k), classq[k])
    BY <1>0, LineTypes, DropKeys DEF LineInv, Ordered
  <2>5. Ordered(k)'
    BY <1>1, <2>1, <2>2, <2>3, <2>4 DEF Ordered
  <2> QED
    BY <1>0, <1>1, <2>1, <2>2, <2>5 DEF LineInv, Numbered, All, Keyed
<1> QED
  BY <1>2, <1>3, <1>4

LEMMA ReadLine ==
  ASSUME NEW k \in Kbd, LineInv(k), DetourRead
  PROVE  Ordered(k)' /\ Numbered(k)'
<1>0. DetourTypes /\ handler \in [at : Pcs, to : Kbd \cup {NoKbd}, keys : Seq(Key)] /\ dq \in Seq(Key) /\ Keys(<<>>) = {}
  BY LineTypes DEF LineInv, DetourInv, DetourTypes, FilterTypes, DeviceTypes, HandlerTypes
<1>1. /\ UNCHANGED <<received, fq, classq, buf, irp, typed, forced, isOpen, cleanup>> /\ handler.keys = <<>>
  BY DEF DetourRead, filterVars
<1>2. UNCHANGED <<Out(k), In(k)>> /\ Alive(k)' = Alive(k)
  BY <1>1 DEF Out, In, Alive, Detoured
<1>3. CASE dq # <<>>
  <2>1. handler' = [handler EXCEPT !.keys = <<Head(dq)>>] /\ dq' = Tail(dq)
    BY <1>3 DEF DetourRead
  <2>2. handler'.keys = <<Head(dq)>> /\ Append(<<>>, Head(dq)) = <<Head(dq)>>
    BY <1>0, <2>1
  <2>3. Keys(dq) = {Head(dq)} \cup Keys(Tail(dq)) /\ Keys(<<Head(dq)>>) = {Head(dq)}
    BY <1>0, <1>3, KeysFirst, KeysFew
  <2>4. Alive(k) => Line(received, Out(k), fq[k], Append(handler.keys, Head(dq)), Tail(dq), In(k), classq[k])
    BY <1>0, <1>3, LineTypes, MoveRead DEF LineInv, Ordered
  <2>5. Ordered(k)'
    BY <1>1, <1>2, <2>1, <2>2, <2>4 DEF LineInv, Ordered
  <2> QED
    BY <1>0, <1>1, <1>2, <2>1, <2>2, <2>3, <2>5 DEF LineInv, Numbered, All, Keyed
<1>4. CASE dq = <<>>
  <2>1. handler' = [handler EXCEPT !.at = "pend"] /\ UNCHANGED dq
    BY <1>4 DEF DetourRead, Go
  <2>2. handler'.keys = handler.keys
    BY <1>0, <2>1
  <2> QED
    BY <1>1, <1>2, <2>1, <2>2, QuietKeeps DEF LineInv
<1> QED
  BY <1>3, <1>4

LEMMA WriteLine ==
  ASSUME NEW k \in Kbd, LineInv(k), Kbd = {k}, DetourWriteEnque
  PROVE  Ordered(k)' /\ Numbered(k)'
<1>0. DetourTypes /\ handler \in [at : Pcs, to : Kbd \cup {NoKbd}, keys : Seq(Key)] /\ fq \in [Kbd -> Seq(Key)] /\ Keys(<<>>) = {}
  BY LineTypes DEF LineInv, DetourInv, DetourTypes, FilterTypes, DeviceTypes, HandlerTypes
<1>1. handler.to = k
  BY DEF LineInv, DetourInv, LocksKnown, DetourWriteEnque, At
<1>2. /\ fq' = [fq EXCEPT ![k] = Enque(fq[k], handler.keys)] /\ UNCHANGED <<typed, forced, classq, irp, buf, received, dq, isOpen, cleanup>>
      /\ handler' = [handler EXCEPT !.at = IF marked[k] THEN "look" ELSE "open", !.keys = <<>>]
  BY <1>1 DEF DetourWriteEnque, deviceVars
<1>3. fq'[k] = Enque(fq[k], handler.keys) /\ handler'.keys = <<>>
  BY <1>0, <1>2
<1>4. UNCHANGED <<Out(k), In(k)>> /\ Alive(k)' = Alive(k)
  BY <1>2 DEF Out, In, Alive, Detoured
<1>5. Alive(k) => Line(received, Out(k), Enque(fq[k], handler.keys), <<>>, dq, In(k), classq[k])
  BY <1>0, LineTypes, MoveWrite DEF LineInv, Ordered
<1>6. Keys(Enque(fq[k], handler.keys)) \subseteq Keys(fq[k]) \cup Keys(handler.keys)
  BY <1>0, LineTypes, EnqueFew
<1>7. Ordered(k)'
  BY <1>2, <1>3, <1>4, <1>5 DEF LineInv, Ordered
<1> QED
  BY <1>0, <1>2, <1>3, <1>4, <1>6, <1>7 DEF LineInv, Numbered, All, Keyed

LEMMA ForceLine ==
  ASSUME NEW k \in Kbd, LineInv(k), ForceInput
  PROVE  Ordered(k)' /\ Numbered(k)'
<1> DEFINE n == MaxKeys + forced + 1
<1>0. DetourTypes /\ dq \in Seq(Key)
  BY DEF LineInv, DetourInv, DetourTypes, FilterTypes, DeviceTypes, HandlerTypes
<1>1. /\ forced < MaxForced /\ forced' = forced + 1 /\ dq' = Enque(dq, <<n>>)
      /\ UNCHANGED <<received, fq, classq, buf, typed, handler, irp, isOpen, cleanup>>
  BY DEF ForceInput
<1>2. typed \in Nat /\ MaxKeys \in Nat /\ forced \in Nat /\ n \in Key /\ ~(n <= MaxKeys) /\ typed <= MaxKeys
  BY <1>0, <1>1, DetourAssumption DEF DetourTypes, FilterTypes, DeviceTypes, HandlerTypes, Key
<1>3. Keyed' = Keyed \cup {n} /\ \A x \in Keyed : ~(x <= MaxKeys) => x < n
  BY <1>1, <1>2 DEF Keyed
<1> HIDE DEF n
<1>4. UNCHANGED <<Out(k), In(k)>> /\ Alive(k)' = Alive(k)
  BY <1>1 DEF Out, In, Alive, Detoured
<1>5. <<n>> \in Seq(Key) /\ Keys(<<n>>) = {n}
  BY <1>2, KeysFew
<1>6. Keys(Enque(dq, <<n>>)) \subseteq Keys(dq) \cup {n}
  BY <1>0, <1>5, LineTypes, EnqueFew
<1>7. Numbered(k)'
  BY <1>1, <1>3, <1>4, <1>6 DEF LineInv, Numbered, All
<1>8. Alive(k) => Line(received, Out(k), fq[k], handler.keys, Enque(dq, <<n>>), In(k), classq[k])
  <2> SUFFICES ASSUME Alive(k) PROVE Line(received, Out(k), fq[k], handler.keys, Enque(dq, <<n>>), In(k), classq[k])
    OBVIOUS
  <2>1. Keys(Out(k)) \subseteq Keyed
    BY <1>0, LineTypes DEF LineInv, Numbered, All, Out
  <2>2. \A x \in Keys(received) \cup Keys(Out(k)) \cup Keys(fq[k]) \cup Keys(handler.keys) \cup Keys(dq) : ~(x <= MaxKeys) => x < n
    BY <1>3, <2>1 DEF LineInv, Numbered, All
  <2>3. \A x \in Keys(In(k)) \cup Keys(classq[k]) : x <= MaxKeys
    BY <1>2 DEF LineInv, Numbered
  <2>4. Line(received, Out(k), fq[k], handler.keys, dq, In(k), classq[k])
    BY DEF LineInv, Ordered
  <2> QED
    BY <1>0, <1>2, <2>2, <2>3, <2>4, LineTypes, NewForced
<1>9. Ordered(k)'
  BY <1>1, <1>4, <1>8 DEF LineInv, Ordered
<1> QED
  BY <1>7, <1>9

LEMMA OnceKeeps ==
  ASSUME NEW k \in Kbd, LineInv(k), MaxOpens <= 1, Kbd = {k}, DetourNext
  PROVE  Once(k)'
<1>0. /\ Once(k) /\ opens \in Nat /\ MaxOpens \in Nat /\ fq \in [Kbd -> Seq(Key)]
      /\ handler \in [at : Pcs, to : Kbd \cup {NoKbd}, keys : Seq(Key)]
  BY DetourAssumption DEF LineInv, DetourInv, DetourTypes, FilterTypes, DeviceTypes, HandlerTypes
<1>1. ASSUME NEW j \in Kbd, Type(j) PROVE Once(k)'
  BY <1>0, <1>1 DEF Type, deviceVars, Once
<1>2. ASSUME NEW j \in Kbd, Filter(j) PROVE Once(k)'
  <2>1. UNCHANGED <<isOpen, cleanup, opens>> /\ (fq'[k] = fq[k] \/ fq'[k] = <<>>)
    BY <1>0, <1>2 DEF Filter, FilterRead, FilterReadQueue, FilterReadMark, CallClass, ClassCompletes, CompletionUnmark,
                      CompletionDetour, CompletionServe, CompletionOutput, CompletionReturn, deviceVars
  <2>2. handler'.at = handler.at /\ (dq = <<>> /\ ~isOpen => dq' = <<>> /\ handler'.keys = handler.keys)
    BY <1>0, <1>2 DEF Filter, FilterRead, FilterReadQueue, FilterReadMark, CallClass, ClassCompletes, CompletionUnmark,
                      CompletionDetour, CompletionServe, CompletionOutput, CompletionReturn, deviceVars, ServeRead, Detoured
  <2> QED
    BY <1>0, <2>1, <2>2 DEF Once
<1>3. CASE Create
  <2>1. opens = 0 /\ opens' = opens + 1 /\ UNCHANGED cleanup
    BY <1>0, <1>3 DEF Create
  <2> QED
    BY <1>0, <2>1 DEF Once
<1>4. CASE Handler /\ ~Create
  <2>1. handler.at # "closed" /\ opens # 0 /\ UNCHANGED opens
    BY <1>0, <1>4 DEF Once, Handler, Closing, CreateClear, CreateWake, CreateCancel, DetourRead, DetourReadPend, DetourWrite,
                      DetourWriteEnque,
                      DetourWriteLook, CancelIo, CancelIoRoutine, Cleanup, Close, At
  <2>2. CASE Cleanup
    BY <2>1, <2>2 DEF Cleanup, Once
  <2>3. CASE Close
    <3>1. handler' = [handler EXCEPT !.at = "closed"]
      BY <2>3 DEF Close, Go
    <3> QED
      BY <1>0, <2>1, <3>1 DEF Once
  <2>4. CASE Handler /\ ~Create /\ ~Cleanup /\ ~Close
    <3>1. handler.at \notin {"closing", "closed"} /\ (UNCHANGED cleanup \/ cleanup' = FALSE)
      BY <2>4 DEF Handler, Closing, CreateClear, CreateWake, CreateCancel, DetourRead, DetourReadPend, DetourWrite, DetourWriteEnque,
                  DetourWriteLook, CancelIo, CancelIoRoutine, At, deviceVars
    <3> QED
      BY <1>0, <2>1, <3>1 DEF Once
  <2> QED
    BY <1>4, <2>2, <2>3, <2>4
<1>5. CASE Control
  <2>1. UNCHANGED <<isOpen, cleanup, opens, fq>> /\ handler'.at = handler.at
    BY <1>0, <1>5 DEF Control, DetourCancel, DetourCancelIrp, DetourReadCancel, ForceInput, ForceInputServe, filterVars,
                      deviceVars, ServeRead
  <2>2. dq = <<>> /\ handler.at = "closed" => dq' = <<>> /\ handler'.keys = handler.keys
    BY <1>0, <1>5 DEF Control, DetourCancel, DetourCancelIrp, DetourReadCancel, ForceInput, ForceInputServe, filterVars,
                      deviceVars, ServeRead, Usable
  <2> QED
    BY <1>0, <2>1, <2>2 DEF Once
<1> QED
  BY <1>1, <1>2, <1>3, <1>4, <1>5 DEF DetourNext

LEMMA LineStep ==
  ASSUME NEW k \in Kbd, LineInv(k), MaxOpens <= 1, Kbd = {k}, [DetourNext]_detourVars
  PROVE  LineInv(k)'
<1>1. DetourInv'
  BY DetourStep DEF LineInv
<1>2. CASE UNCHANGED detourVars
  BY <1>1, <1>2 DEF LineInv, Ordered, Numbered, All, Keyed, Once, Out, In, Alive, Detoured, detourVars, filterVars, deviceVars
<1>3. CASE DetourNext
  <2>1. Once(k)'
    BY <1>3, OnceKeeps
  <2>2. CASE Type(k)
    BY <1>1, <2>1, <2>2, TypeLine DEF LineInv
  <2>3. CASE Filter(k)
    <3>1. Ordered(k)' /\ Numbered(k)'
      <4>1. CASE FilterRead(k) \/ FilterReadMark(k) \/ CallClass(k) \/ CompletionUnmark(k)
        BY <4>1, FilterQuiet
      <4>2. CASE FilterReadQueue(k) \/ ClassCompletes(k) \/ CompletionOutput(k) \/ CompletionReturn(k)
        BY <1>1, <4>2, FilterMoves
      <4>3. CASE CompletionDetour(k)
        BY <4>3, DetourMoves
      <4>4. CASE CompletionServe(k)
        BY <4>4, ServeLine
      <4> QED
        BY <2>3, <4>1, <4>2, <4>3, <4>4 DEF Filter
    <3> QED
      BY <1>1, <2>1, <3>1 DEF LineInv
  <2>4. CASE Handler
    BY <1>1, <2>1, <2>4, HandlerQuiet, OpenLine, ReadLine, WriteLine DEF LineInv, Handler, Closing
  <2>5. CASE Control
    BY <1>1, <2>1, <2>5, HandlerQuiet, ForceLine, ServeLine DEF LineInv, Control
  <2> QED
    BY <1>3, <2>2, <2>3, <2>4, <2>5 DEF DetourNext
<1> QED
  BY <1>2, <1>3

LEMMA DetourStart == DetourInit => DetourInv
<1> SUFFICES ASSUME DetourInit PROVE DetourInv
  OBVIOUS
<1>1. <<>> \in Seq(Key) /\ Len(<<>>) = 0
  OBVIOUS
<1>2. handler \in [at : Pcs, to : Kbd \cup {NoKbd}, keys : Seq(Key)] /\ handler.at = "closed"
  BY <1>1 DEF DetourInit, Pcs
<1>3. /\ classq \in [Kbd -> Seq(Key)] /\ buf \in [Kbd -> Seq(Key)] /\ fq \in [Kbd -> Seq(Key)] /\ marked \in [Kbd -> BOOLEAN]
      /\ irp \in [Kbd -> {"none", "queue", "mark", "call", "class", "completed", "unmarked", "serve", "output", "return"}]
      /\ received \in Seq(Key) /\ dq \in Seq(Key)
  BY <1>1 DEF DetourInit
<1>4. Len(dq) <= QueSize /\ \A k \in Kbd : Len(fq[k]) <= QueSize
  BY <1>1, DetourAssumption DEF DetourInit
<1>5. typed \in 0..MaxKeys /\ forced \in 0..MaxForced /\ opens \in 0..MaxOpens
  BY DetourAssumption DEF DetourInit
<1>6. DetourTypes
  BY <1>2, <1>3, <1>4, <1>5 DEF DetourInit, DetourTypes, FilterTypes, DeviceTypes, HandlerTypes
<1>7. LocksKnown
  BY <1>2 DEF DetourInit, LocksKnown, ReadNotStarved, ReadCompletedOnce
<1> QED
  BY <1>6, <1>7 DEF DetourInv

LEMMA DetourTyped == DetourInv => DetourTypeOK
<1> SUFFICES ASSUME DetourInv PROVE DetourTypeOK
  OBVIOUS
<1>1. {classq[k] : k \in Kbd} \cup {buf[k] : k \in Kbd} \cup {fq[k] : k \in Kbd} \cup {received, dq} \subseteq Seq(1..MaxKeys + MaxForced)
  BY DEF DetourInv, DetourTypes, FilterTypes, DeviceTypes, HandlerTypes, Key
<1>2. \A q \in {dq} \cup {fq[k] : k \in Kbd} : Len(q) <= QueSize
  BY DEF DetourInv, DetourTypes, FilterTypes, DeviceTypes, HandlerTypes
<1>3. handler.at \in Pcs /\ handler.to \in Kbd \cup {NoKbd} /\ handler.keys \in Seq(1..MaxKeys + MaxForced)
  BY DEF DetourInv, DetourTypes, FilterTypes, DeviceTypes, HandlerTypes, Key
<1>4. {isOpen, cleanup, irpq, routine} \subseteq BOOLEAN /\ {dlock, clock} \subseteq Kbd \cup {Free, "mayu", "control"}
  BY DEF DetourInv, DetourTypes, FilterTypes, DeviceTypes, HandlerTypes
<1> QED
  BY <1>1, <1>2, <1>3, <1>4 DEF DetourInv, DetourTypes, FilterTypes, DeviceTypes, HandlerTypes, DetourTypeOK

LEMMA LossStep ==
  ASSUME DetourInv, [DetourNext]_detourVars, Keyed \ Held # Keyed' \ Held'
  PROVE  \/ Len(dq') = QueSize \/ \E k \in Kbd : Len(fq'[k]) = QueSize
         \/ handler.at \in {"clear", "cleanup"}
<1>1. ~UNCHANGED detourVars
  BY DEF Keyed, Held, detourVars, filterVars, deviceVars
<1> QED
  BY <1>1, TypeLoses, FilterLoses, HandlerLoses, ControlLoses DEF DetourNext

\* For any number of keyboards, processors, openings and keys: mayu's read does not wait while
\* there is a key for it, it is completed once, though three callers race for it, and a key is
\* lost only where a queue is full or when the device is opened or closed.
THEOREM ReadsAreServed == DetourSpec => [](DetourTypeOK /\ ReadNotStarved /\ ReadCompletedOnce) /\ LostAtLimits
<1>1. DetourInit => DetourInv
  BY DetourStart
<1>2. DetourInv /\ [DetourNext]_detourVars => DetourInv'
  BY DetourStep
<1>3. DetourInv => DetourTypeOK /\ ReadNotStarved /\ ReadCompletedOnce
  BY DetourTyped DEF DetourInv, LocksKnown
<1>4. DetourInv /\ [DetourNext]_detourVars =>
        [Keyed \ Held # Keyed' \ Held' =>
           \/ Len(dq') = QueSize \/ \E k \in Kbd : Len(fq'[k]) = QueSize
           \/ handler.at \in {"clear", "cleanup"}]_detourVars
  BY LossStep
<1> QED
  BY <1>1, <1>2, <1>3, <1>4, PTL DEF DetourSpec, LostAtLimits

\* With one keyboard and a device that is opened once, whatever is typed, put in and written and
\* whenever the device is opened and closed: the system also gets the keys in their order, none
\* twice, on one processor and on several.
THEOREM DetourIsSafe ==
  ASSUME NEW k, Kbd = {k}, MaxOpens <= 1
  PROVE  DetourSpec => DetourSafe
<1>0. k \in Kbd
  OBVIOUS
<1>1. DetourInit => LineInv(k)
  <2> SUFFICES ASSUME DetourInit PROVE LineInv(k)
    OBVIOUS
  <2>1. received = <<>> /\ classq[k] = <<>> /\ buf[k] = <<>> /\ fq[k] = <<>> /\ dq = <<>> /\ handler.keys = <<>> /\ ~isOpen /\ irp[k] = "none"
        /\ handler.at = "closed" /\ ~cleanup
    BY <1>0 DEF DetourInit
  <2>2. InOrder(<<>>) /\ Keys(<<>>) = {}
    BY InOrderFew
  <2>3. Line(<<>>, <<>>, <<>>, <<>>, <<>>, <<>>, <<>>)
    BY <2>2 DEF Line, Earlier
  <2>4. Ordered(k) /\ Numbered(k) /\ Once(k)
    BY <2>1, <2>2, <2>3 DEF Ordered, Numbered, Once, All, Out, In
  <2> QED
    BY <2>4, DetourStart DEF LineInv
<1>2. LineInv(k) /\ [DetourNext]_detourVars => LineInv(k)'
  BY <1>0, LineStep
<1>3. LineInv(k) => KeysInOrder
  BY DEF LineInv, Ordered, Line, InOrder, KeysInOrder
<1>4. DetourSpec => []KeysInOrder
  BY <1>1, <1>2, <1>3, PTL DEF DetourSpec
<1> QED
  BY <1>4, ReadsAreServed, PTL DEF DetourSafe
=============================================================================
