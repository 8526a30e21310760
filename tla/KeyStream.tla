------------------------------- MODULE KeyStream -------------------------------
(***************************************************************************)
(* What the engine promises about physical key events, without threads,    *)
(* locks or wake-ups: an event that has been accepted is handled exactly    *)
(* once and in the order of acceptance, or is discarded when the engine     *)
(* stops.  InputQueue is shown to implement this.                           *)
(***************************************************************************)
EXTENDS Naturals, Sequences

CONSTANT Event      \* the key events the devices can deliver

VARIABLES pending,  \* accepted and not yet handled, oldest first
          handled   \* handled, in the order in which they were handled

streamVars == <<pending, handled>>

Init == pending = <<>> /\ handled = <<>>

Accept(e) == pending' = Append(pending, e) /\ UNCHANGED handled

Handle ==
  /\ pending # <<>>
  /\ handled' = Append(handled, Head(pending))
  /\ pending' = Tail(pending)

\* Stopping the engine throws away what has not been started on.
Discard ==
  /\ \E n \in 0 .. 1 : n <= Len(pending) /\ pending' = SubSeq(pending, 1, n)
  /\ UNCHANGED handled

Next == (\E e \in Event : Accept(e)) \/ Handle \/ Discard

Spec == Init /\ [][Next]_streamVars
=============================================================================
