------------------------------- MODULE KeyPath -------------------------------
(***************************************************************************)
(* The way of a key through the Linux program: the reader's conversion from     *)
(* evdev to YAMY's scan codes; the engine, which lets the key by, or passes it   *)
(* through its three layers and converts it a second time (here: no rule for    *)
(* the key, or a rule that makes a code of its own); and the injector's          *)
(* conversion back to evdev, by the table of the layout and then by that of      *)
(* Windows' virtual keys.  The wheel and the detection of the layout are here too. *)
(*                                                                         *)
(* Codes are numbers, as in linux/input-event-codes.h.                          *)
(***************************************************************************)
EXTENDS Integers, FiniteSets

CONSTANTS
  InKeys,       \* evdev codes of the keys on the keyboard
  Configured,   \* YAMY codes of the keys that the configuration names
  RuleCodes,    \* YAMY codes that rules make
  Deltas,       \* wheel movements, 120 to the notch
  Overrides,    \* arguments of setLayoutOverride
  MaxHeld,      \* bound: keys held at once
  MaxKeySteps   \* bound: movements of the wheel and changes of the layout

ASSUME KeyPathAssumption ==
  /\ InKeys \subseteq Nat /\ Configured \subseteq Nat /\ RuleCodes \subseteq Nat
  /\ Deltas \subseteq Int /\ MaxHeld \in Nat /\ MaxKeySteps \in Nat

VARIABLES
  passage,     \* "bypass" while the engine is disabled or has no configuration, else "layers"
  inDown,      \* keys the user holds
  ruleDown,    \* codes a rule holds
  outDown,     \* keys the virtual device holds
  layout,      \* g_layoutOverride, cachedLayout ("" before the first detection), what setxkbmap would say
  wheel,       \* m_wheelAccumulator; history: notches sent, movement asked for
  keySteps

keyPathVars == <<passage, inDown, ruleDown, outDown, layout, wheel, keySteps>>

(* ------------------------------------ Tables ------------------------------------ *)

E0(c) == 57344 + c

\* The keys with an E0 prefix: YAMY code -> evdev code.
Extended ==
  [y \in {E0(c) : c \in {28, 29, 53, 55, 56} \cup (71..73) \cup {75, 77} \cup (79..83) \cup (91..93)} |->
     LET c == y - 57344 IN
     CASE c = 28 -> 96 [] c = 29 -> 97 [] c = 53 -> 98 [] c = 55 -> 99 [] c = 56 -> 100
       [] c \in 71..73 -> c + 31 [] c = 75 -> 105 [] c = 77 -> 106 [] c \in 79..83 -> c + 28
       [] c \in {91, 92} -> c + 34 [] c = 93 -> 139]

\* evdevToYamyKeyCode: 0 for a key that is not in the table (Pause is E1 1D).
EvdevToYamy(e) ==
  CASE e \in 1..83 \cup 86..88 -> e
    [] e \in 183..193 -> e - 83
    [] e = 194 -> 118
    [] e = 119 -> 57629
    [] \E y \in DOMAIN Extended : Extended[y] = e -> CHOOSE y \in DOMAIN Extended : Extended[y] = e
    [] OTHER -> 0

\* g_scanToEvdevMap_US and _JP; both know Sleep, which no reader makes.
ScanToEvdev(l, y) ==
  CASE y \in 1..83 \cup {87, 88} -> y
    [] y \in DOMAIN Extended -> Extended[y]
    [] y = E0(95) -> 142
    [] l = "jp" /\ y = 112 -> 93
    [] l = "jp" /\ y = 115 -> 89
    [] l = "jp" /\ y = 121 -> 92
    [] l = "jp" /\ y = 123 -> 94
    [] l = "jp" /\ y = 125 -> 124
    [] OTHER -> 0

\* g_yamyToEvdevMap, where the scan codes leave it a code: letters, Windows keys, numpad, F1 to F24, locks, modifiers.
VkToEvdev(y) ==
  CASE y = 84 -> 20 [] y = 85 -> 22 [] y = 86 -> 47 [] y = 89 -> 21 [] y = 90 -> 44
    [] y \in {91, 92} -> y + 34 [] y = 93 -> 139
    [] y = 96 -> 82 [] y \in 97..99 -> y - 18 [] y \in 100..102 -> y - 25 [] y \in 103..105 -> y - 32
    [] y = 106 -> 55 [] y = 107 -> 78 [] y = 109 -> 74 [] y = 110 -> 83 [] y = 111 -> 98
    [] y \in 112..121 -> y - 53 [] y \in {122, 123} -> y - 35 [] y \in 124..135 -> y + 59
    [] y \in {144, 145} -> y - 75
    [] y = 160 -> 42 [] y = 161 -> 54 [] y = 162 -> 29 [] y = 163 -> 97 [] y = 164 -> 56 [] y = 165 -> 100
    [] y = 186 -> 39 [] y = 187 -> 13 [] y = 188 -> 51 [] y = 189 -> 12 [] y = 190 -> 52 [] y = 191 -> 53 [] y = 192 -> 41
    [] y = 219 -> 26 [] y = 220 -> 43 [] y = 221 -> 27 [] y = 222 -> 40 [] y = 226 -> 86
    [] OTHER -> 0

\* yamyToEvdevKeyCode.
YamyToEvdev(l, y) == IF ScanToEvdev(l, y) # 0 THEN ScanToEvdev(l, y) ELSE VkToEvdev(y)

\* detectKeyboardLayout: the override, else what was detected at the first call.
Detected == IF layout.override # "" THEN layout.override ELSE IF layout.cached # "" THEN layout.cached ELSE layout.xkb
Cached == IF layout.override = "" /\ layout.cached = "" THEN [layout EXCEPT !.cached = layout.xkb] ELSE layout

(* ------------------------------------ Keys ------------------------------------ *)

KeyPathInit ==
  /\ passage \in {"bypass", "layers"}
  /\ inDown = {} /\ ruleDown = {} /\ outDown = {} /\ keySteps = 0
  /\ layout \in [override : {""}, cached : {""}, xkb : {"us", "jp"}]
  /\ wheel = [acc |-> 0, sent |-> 0, asked |-> 0]

\* inject: a code without an evdev key is skipped.
Inject(y, down) ==
  LET e == YamyToEvdev(Detected, y) IN
  /\ outDown' = IF e = 0 THEN outDown ELSE IF down THEN outDown \cup {e} ELSE outDown \ {e}
  /\ layout' = Cached

\* keyboardHandler and the three layers, for a key without a rule: layer 1 translates the translated code again, and
\* what it does not know is swallowed, as are keys that the configuration does not name.
Swallowed(y) == passage = "layers" /\ (y \notin Configured \/ EvdevToYamy(y) = 0)

\* The code that the engine injects for y: y itself, or what the layers make of it if the configuration names that; 0
\* if layer 3 has no evdev code for it.
Layered(y) ==
  LET y2 == EvdevToYamy(y) IN
  IF passage = "bypass" THEN y ELSE IF YamyToEvdev(Detected, y2) = 0 THEN 0 ELSE IF y2 \in Configured THEN y2 ELSE y

\* A key goes down or up; EventReaderThread skips buttons and unknown keys.
Stroke(k, down) ==
  LET y == EvdevToYamy(k) IN
  /\ (k \in inDown) # down /\ (down => Cardinality(inDown) < MaxHeld)
  /\ inDown' = IF down THEN inDown \cup {k} ELSE inDown \ {k}
  /\ IF k \in 256..351 \/ y = 0 \/ Swallowed(y) THEN UNCHANGED <<outDown, layout>> ELSE Inject(Layered(y), down)
  /\ UNCHANGED <<passage, ruleDown, wheel, keySteps>>

\* A rule makes a code and takes it back.
Rule(y, down) ==
  /\ passage = "layers" /\ inDown = {} /\ (y \in ruleDown) # down
  /\ ruleDown' = IF down THEN ruleDown \cup {y} ELSE ruleDown \ {y}
  /\ Inject(y, down) /\ UNCHANGED <<passage, inDown, wheel, keySteps>>

KeyStep == keySteps < MaxKeySteps /\ keySteps' = keySteps + 1

\* setLayoutOverride and clearLayoutOverride (""); the user changes the layout of the session.
SetLayoutOverride(l) ==
  /\ KeyStep /\ layout' = [layout EXCEPT !.override = l] /\ UNCHANGED <<passage, inDown, ruleDown, outDown, wheel>>
SessionLayout(l) ==
  /\ KeyStep /\ l # layout.xkb /\ layout' = [layout EXCEPT !.xkb = l] /\ UNCHANGED <<passage, inDown, ruleDown, outDown, wheel>>

\* C++ division and remainder, which truncate.
Quot(a, b) == IF a >= 0 THEN a \div b ELSE -((-a) \div b)
Rem(a, b) == a - b * Quot(a, b)

\* mouseWheel.
MouseWheel(d) ==
  LET acc == wheel.acc + d  steps == Quot(acc, 120) IN
  /\ KeyStep /\ wheel' = [acc |-> IF steps # 0 THEN Rem(acc, 120) ELSE acc, sent |-> wheel.sent + steps, asked |-> wheel.asked + d]
  /\ UNCHANGED <<passage, inDown, ruleDown, outDown, layout>>

KeyPathNext ==
  \/ \E down \in BOOLEAN : (\E k \in InKeys : Stroke(k, down)) \/ (\E y \in RuleCodes : Rule(y, down))
  \/ \E l \in Overrides : SetLayoutOverride(l)
  \/ \E l \in {"us", "jp"} : SessionLayout(l)
  \/ \E d \in Deltas : MouseWheel(d)

KeyPathSpec == KeyPathInit /\ [][KeyPathNext]_keyPathVars

(* ------------------------------------ Properties ------------------------------------ *)

KeyPathTypeOK ==
  /\ passage \in {"bypass", "layers"} /\ inDown \subseteq InKeys /\ ruleDown \subseteq RuleCodes /\ outDown \subseteq 1..767
  /\ wheel.acc \in -119..119
  /\ layout.override \in Overrides \cup {""} /\ layout.cached \in {"", "us", "jp"}

\* The keys whose scan codes have no prefix.
MainBlock == 1..88

\* Without a rule for it a key comes out as it went in or not at all, whatever the layout and the other keys held, and
\* is released when it is.  What comes out: every key while the engine is disabled or has no configuration; with one
\* in force the keys that it names, but none with a prefix.  What a rule pressed is released with it, also when the
\* layout is changed meanwhile.
KeyEcho ==
  ruleDown = {} =>
    outDown = {k \in inDown : passage = "layers" => k \in MainBlock /\ EvdevToYamy(k) \in Configured}

\* No movement of the wheel is lost or made up: notches sent and the rest make what was asked for, and the rest is
\* less than a notch.
WheelConserved == 120 * wheel.sent + wheel.acc = wheel.asked /\ wheel.acc > -120 /\ wheel.acc < 120

\* Refuted: what the design says of a code that layer 1 does not know, "Key passes through unmodified (fallback
\* behavior)".  The second translation does not know the codes with a prefix, and the engine injects nothing for them.
UnmappedPasses == ruleDown = {} => {k \in inDown : EvdevToYamy(k) \in Configured} \subseteq outDown

\* Refuted: the layout in use is that of the session.  It is detected once.
LayoutFollows == (layout.override = "" /\ layout.cached # "") => layout.cached = layout.xkb
=============================================================================
