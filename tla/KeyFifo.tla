-------------------------------- MODULE KeyFifo --------------------------------
(***************************************************************************)
(* What the key queue of the driver promises: keys leave in the order in    *)
(* which they came; those that exceed the capacity are dropped at the end   *)
(* of the block they came in.                                               *)
(***************************************************************************)
EXTENDS Naturals, Sequences

CONSTANTS
  Datum,   \* KEYBOARD_INPUT_DATA
  Size,    \* the capacity
  MaxBlock \* bound: the length of a block

VARIABLES
  fifo,    \* the keys in the queue
  answer   \* the last call: the block given, how many keys it took, the keys it gave out

fifoVars == <<fifo, answer>>

AtMost(a, b) == IF a < b THEN a ELSE b

FifoInit == fifo = <<>> /\ answer = [given |-> <<>>, took |-> 0, gave |-> <<>>]

Put(b) ==
  LET n == AtMost(Len(b), Size - Len(fifo)) IN
  fifo' = fifo \o SubSeq(b, 1, n) /\ answer' = [given |-> b, took |-> n, gave |-> <<>>]

Take(m) ==
  LET n == AtMost(m, Len(fifo)) IN
  fifo' = SubSeq(fifo, n + 1, Len(fifo)) /\ answer' = [given |-> <<>>, took |-> 0, gave |-> SubSeq(fifo, 1, n)]

Clear == fifo' = <<>> /\ UNCHANGED answer

FifoNext ==
  \/ \E n \in 0..MaxBlock : Take(n) \/ \E b \in [1..n -> Datum] : Put(b)
  \/ Clear

FifoSpec == FifoInit /\ [][FifoNext]_fifoVars
=============================================================================
