--------------------------- MODULE ModifierKeyHandler ---------------------------
(***************************************************************************)
(* The hold-versus-tap decision of ModifierKeyHandler for one trigger key   *)
(* of a virtual modifier, as operators on the key's state s and on its age  *)
(* a, the time since it went from IDLE to WAITING.                          *)
(*                                                                         *)
(* Left out: TAP_DETECTED, which no code sets, and hardware number          *)
(* modifiers, which a JSON configuration cannot define.                     *)
(***************************************************************************)
EXTENDS Naturals

CONSTANTS
  HoldThreshold,  \* m_hold_threshold_ms
  MaximumHold     \* the five seconds of hasExceededMaximum

ASSUME TimingAssumption ==
  HoldThreshold \in Nat /\ MaximumHold \in Nat /\ 0 < HoldThreshold /\ HoldThreshold <= MaximumHold

NumberKeyState == {"IDLE", "WAITING", "ACTIVE"}

\* Ages above MaximumHold are not told apart.
Age == 0 .. MaximumHold + 1

\* Mutant: press_time is overwritten whenever it is looked at.
OlderRestarts(a, d) == 0

Older(a, d) == IF a + d > MaximumHold THEN MaximumHold + 1 ELSE a + d

HasExceededThreshold(a) == a >= HoldThreshold
HasExceededMaximum(a)   == a > MaximumHold

\* What processNumberKey returns: the next state and what becomes of the event.
\* "PASS" is NOT_A_NUMBER_MODIFIER, "SUPPRESS" is WAITING_FOR_THRESHOLD, "TAP" is
\* APPLY_SUBSTITUTION_RELEASE.
Result(s, action) == [state |-> s, action |-> action]

ProcessPress(s, a) ==
  CASE s = "IDLE"                                                 -> Result("WAITING", "SUPPRESS")
    [] s = "WAITING" /\ HasExceededMaximum(a)                     -> Result("IDLE", "PASS")
    [] s = "WAITING" /\ ~HasExceededMaximum(a) /\ HasExceededThreshold(a)
                                                                  -> Result("ACTIVE", "ACTIVATE")
    [] s = "WAITING" /\ ~HasExceededMaximum(a) /\ ~HasExceededThreshold(a)
                                                                  -> Result("WAITING", "SUPPRESS")
    [] s = "ACTIVE"                                               -> Result("ACTIVE", "SUPPRESS")

\* Mutant: a release after the threshold still counts as a tap.
ProcessReleaseAlwaysTap(s, a, hasTap) ==
  CASE s = "IDLE"    -> Result("IDLE", "PASS")
    [] s = "WAITING" -> Result("IDLE", IF hasTap THEN "TAP" ELSE "SUPPRESS")
    [] s = "ACTIVE"  -> Result("IDLE", "TAP")

\* Mutant: a tap leaves the key in TAP_DETECTED, a state that no code sets.
ProcessReleaseTapDetected(s, a, hasTap) ==
  CASE s = "IDLE"    -> Result("IDLE", "PASS")
    [] s = "WAITING" -> Result("TAP_DETECTED", IF hasTap /\ ~HasExceededThreshold(a) THEN "TAP" ELSE "SUPPRESS")
    [] s = "ACTIVE"  -> Result("IDLE", "DEACTIVATE")

ProcessRelease(s, a, hasTap) ==
  CASE s = "IDLE"    -> Result("IDLE", "PASS")
    [] s = "WAITING" -> Result("IDLE", IF hasTap /\ ~HasExceededThreshold(a) THEN "TAP" ELSE "SUPPRESS")
    [] s = "ACTIVE"  -> Result("IDLE", "DEACTIVATE")

ProcessNumberKey(s, a, press, hasTap) ==
  IF press THEN ProcessPress(s, a) ELSE ProcessRelease(s, a, hasTap)

\* Mutant: waiting triggers are left to their own next event.
NeverActivates(s, a) == FALSE

\* checkAndActivateWaitingModifiers: is this trigger to become active now?
Activates(s, a) == s = "WAITING" /\ HasExceededThreshold(a)
=============================================================================
