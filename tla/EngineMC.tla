-------------------------------- MODULE EngineMC --------------------------------
(***************************************************************************)
(* Engine for TLC.  The keys are Caps and Tab (triggers), A (mapped), X and *)
(* Up; Up has an extended scan code, which evdevToYamyKeyCode does not      *)
(* know.  Two units of time are a hold, more than three exceed the maximum. *)
(***************************************************************************)
EXTENDS Engine, TLC

Remap(k, mods, to) == [key |-> k, mods |-> mods, to |-> to]

\* The second translation of a scan code: the identity on the main block, no
\* entry for an extended code.
Retranslate == [k \in Key |-> IF k = "Up" THEN NoKey ELSE k]

AllKeys == [c \in Config |-> Key]
\* F9 is a key that no configuration names.
AllButF9 == [c \in Config |-> Key \ {"F9"}]

\* A is a key that only configuration "main" names.
AInMain == [c \in Config |-> IF c = "other" THEN Key \ {"A"} ELSE Key]

\* Caps is M00 with a tap action; in two-modifier configurations Tab is M01.
CapsTab == [c \in Config |-> ("Caps" :> "M00") @@ ("Tab" :> "M01")]
CapsOnly == [c \in Config |-> "Caps" :> "M00"]
\* In configuration "other", Caps is an ordinary key.
CapsInMain == [c \in Config |-> IF c = "other" THEN <<>> ELSE "Caps" :> "M00"]

TapX == [c \in Config |-> [m \in Mod |-> IF m = "M00" THEN "X" ELSE NoKey]]

\* A is X; under M00 it is the sequence X A.
Layered == [c \in Config |-> << Remap("A", {}, <<"X">>), Remap("A", {"M00"}, <<"X", "A">>) >>]
\* The same where "other" has no key A.
LayeredInMain == [c \in Config |-> IF c = "other" THEN <<>> ELSE Layered[c]]
\* A is X whatever modifier is active.
Plain == [c \in Config |-> << Remap("A", {}, <<"X">>) >>]
\* A is mapped under M00 only.
UnderM00 == [c \in Config |-> << Remap("A", {"M00"}, <<"X">>) >>]
=============================================================================
