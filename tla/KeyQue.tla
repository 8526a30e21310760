--------------------------------- MODULE KeyQue ---------------------------------
(***************************************************************************)
(* The ring buffer of the driver: insert and remove run over the array que, *)
(* a block that does not fit before its end is copied in two pieces.  A     *)
(* pointer may stand one past the end, where it stays until the next copy.  *)
(***************************************************************************)
EXTENDS Naturals, Sequences

CONSTANTS Datum, Size, MaxBlock

ASSUME KeyQueAssumption == Size \in Nat \ {0} /\ MaxBlock \in Nat

VARIABLES
  que,            \* the array: 0..Size-1
  insert, remove, \* the pointers, as offsets
  count,
  answer          \* the last call: the block given, how many keys it took, the keys it gave out

queVars == <<que, insert, remove, count, answer>>

Least(a, b) == IF a < b THEN a ELSE b

\* KqInitialize: the memory is not cleared.
KqInit ==
  /\ que \in [0..Size - 1 -> Datum]
  /\ insert = 0 /\ remove = 0 /\ count = 0 /\ answer = [given |-> <<>>, took |-> 0, gave |-> <<>>]

KqClear == insert' = 0 /\ remove' = 0 /\ count' = 0 /\ UNCHANGED <<que, answer>>

\* Where a copy of n keys from the pointer p puts or finds key i: the first rest of them
\* before the end of the array, the others from its beginning.
Slot(p, i) == LET rest == Size - p IN IF i <= rest THEN p + i - 1 ELSE i - rest - 1

\* The pointer after the copy.
Advance(p, n) == LET rest == Size - p IN IF rest < n THEN n - rest ELSE p + n

\* Mutant: buf += copy is missing, so that the second piece begins with the first key.
KqEnqueRestart(b) ==
  LET n == Least(Len(b), Size - count)
      rest == Size - insert IN
  /\ que' = [s \in DOMAIN que |-> IF \E i \in 1..n : Slot(insert, i) = s
                                  THEN LET i == CHOOSE i \in 1..n : Slot(insert, i) = s IN b[IF i <= rest THEN i ELSE i - rest]
                                  ELSE que[s]]
  /\ insert' = (IF n = 0 THEN insert ELSE Advance(insert, n))
  /\ count' = count + n /\ answer' = [given |-> b, took |-> n, gave |-> <<>>]
  /\ UNCHANGED remove

KqEnque(b) ==
  LET n == Least(Len(b), Size - count) IN
  /\ que' = [s \in DOMAIN que |-> IF \E i \in 1..n : Slot(insert, i) = s
                                  THEN b[CHOOSE i \in 1..n : Slot(insert, i) = s] ELSE que[s]]
  /\ insert' = (IF n = 0 THEN insert ELSE Advance(insert, n))
  /\ count' = count + n /\ answer' = [given |-> b, took |-> n, gave |-> <<>>]
  /\ UNCHANGED remove

KqDeque(m) ==
  LET n == Least(m, count) IN
  /\ remove' = (IF n = 0 THEN remove ELSE Advance(remove, n))
  /\ count' = count - n /\ answer' = [given |-> <<>>, took |-> 0, gave |-> [i \in 1..n |-> que[Slot(remove, i)]]]
  /\ UNCHANGED <<que, insert>>

KqNext ==
  \/ \E n \in 0..MaxBlock : KqDeque(n) \/ \E b \in [1..n -> Datum] : KqEnque(b)
  \/ KqClear

KqSpec == KqInit /\ [][KqNext]_queVars

(* --------------------------------- Properties --------------------------------- *)

\* count, insert and remove never disagree: no pointer leaves the array by more than the
\* one place behind its end, and insert is count places after remove.
RingConsistent ==
  /\ que \in [0..Size - 1 -> Datum] /\ insert \in 0..Size /\ remove \in 0..Size /\ count \in 0..Size
  /\ (remove + count) % Size = insert % Size

\* The keys in the queue, from the oldest.
Contents == [i \in 1..count |-> que[Slot(remove, i)]]

\* The ring buffer is a bounded first-in first-out queue, for blocks that wrap, that end
\* with the array, that exceed the space left or ask for more than there is.
Fifo == INSTANCE KeyFifo WITH fifo <- Contents
KqIsFifo == Fifo!FifoSpec

\* The ring is a bounded queue: its pointers never disagree, and it implements KeyFifo.
KqCorrect == []RingConsistent /\ KqIsFifo
=============================================================================
