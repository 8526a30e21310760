--------------------------------- MODULE HoldTap --------------------------------
(***************************************************************************)
(* What the virtual modifiers promise to the user.  Each press of a trigger *)
(* key is undecided at first; it becomes a hold, which activates the        *)
(* modifier until the trigger comes up, or it ends as a tap, but never as   *)
(* both.  Engine is shown to implement this.                                *)
(***************************************************************************)
CONSTANTS
  Trigger,    \* the trigger keys
  ModOf,      \* the modifier of each trigger
  NoTrigger

VARIABLES phase,   \* "up", "undecided" or "hold"
          active,  \* the active modifiers
          tapped   \* the trigger whose tap the latest step emitted

promiseVars == <<phase, active, tapped>>

Init ==
  /\ phase = [t \in Trigger |-> "up"]
  /\ active = {} /\ tapped = NoTrigger

\* Any number of undecided presses turn out to be holds; then at most one trigger
\* goes down or comes up.
Hold(S) == [t \in Trigger |-> IF t \in S THEN "hold" ELSE phase[t]]

Press(held, t) ==
  /\ held[t] = "up" /\ phase' = [held EXCEPT ![t] = "undecided"]
  /\ tapped' = NoTrigger

Release(held, t) ==
  /\ held[t] # "up" /\ phase' = [held EXCEPT ![t] = "up"]
  /\ tapped' \in IF held[t] = "undecided" THEN {t, NoTrigger} ELSE {NoTrigger}

Next ==
  /\ \E S \in SUBSET {t \in Trigger : phase[t] = "undecided"} :
       \/ phase' = Hold(S) /\ tapped' = NoTrigger
       \/ \E t \in Trigger : Press(Hold(S), t) \/ Release(Hold(S), t)
  /\ active' = {ModOf[t] : t \in {u \in Trigger : phase'[u] = "hold"}}

Spec == Init /\ [][Next]_promiseVars
=============================================================================
