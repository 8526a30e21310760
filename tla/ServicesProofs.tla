----------------------------- MODULE ServicesProofs -----------------------------
(***************************************************************************)
(* Proofs about the parts of the platform and the desktop that ServicesMC   *)
(* puts together.                                                          *)
(***************************************************************************)
EXTENDS ServicesMC, ProofBasics, FiniteSetTheorems

(* ------------------------------ The input hook ------------------------------ *)

\* Where install and cleanup are, and who has m_readerThreadsMutex meanwhile.
HookPlaces ==
  /\ hook \in [at : {"idle", "install", "cleanup", "stop"}, todo : SUBSET Device] /\ plugged \subseteq Device
  /\ hook.at # "install" => hook.todo = {}
  /\ hook.at = "idle" => mutex = "free"
  /\ hook.at = "install" => mutex = "install" /\ ~installed
  /\ hook.at = "stop" => mutex = "cleanup"
  /\ mutex \in {"free", "install", "cleanup"} /\ installed \in BOOLEAN /\ leaked \in BOOLEAN

\* Threads read from descriptors that are open, of devices that are not skipped.
ReadersKnown ==
  /\ opened \subseteq Device /\ threads \subseteq opened /\ reading \subseteq threads
  /\ stopping \subseteq threads /\ (stopping # {} => hook.at = "stop")
  /\ \A d \in threads : ~Skipped(d)

\* What a call that no thread's start has broken leaves behind.
ReadersWhole ==
  ~leaked => /\ hook.at \in {"idle", "install"} => threads = opened
             /\ hook.at = "idle" => IF installed THEN threads # {} ELSE opened = {}

DevicesInv == HookPlaces /\ ReadersKnown /\ ReadersWhole

LEMMA DevicesBegin == DevicesInit => DevicesInv
<1> SUFFICES ASSUME DevicesInit PROVE DevicesInv
  OBVIOUS
<1>1. HookPlaces
  BY DEF DevicesInit, HookPlaces, AtRest
<1>2. ReadersKnown /\ ReadersWhole
  BY DEF DevicesInit, ReadersKnown, ReadersWhole, AtRest
<1> QED
  BY <1>1, <1>2 DEF DevicesInv

\* install, device by device.
LEMMA InstallStep ==
  ASSUME DevicesInv, Install_ \/ InstallEnds_ \/ \E d \in Device : InstallDevice(d)
  PROVE  DevicesInv'
<1> USE DEF DevicesInv
<1>1. CASE Install_
  <2>1. EnumerateKeyboards \subseteq Device
    BY DEF EnumerateKeyboards, HookPlaces
  <2>2. HookPlaces'
    BY <1>1, <2>1 DEF Install_, AtRest, HookPlaces
  <2>3. ReadersKnown' /\ ReadersWhole'
    BY <1>1 DEF Install_, AtRest, HookPlaces, ReadersKnown, ReadersWhole
  <2> QED
    BY <2>2, <2>3
<1>2. ASSUME NEW d \in Device, InstallDevice(d) PROVE DevicesInv'
  <2>1. HookPlaces'
    <3>1. CASE hook' = [hook EXCEPT !.todo = @ \ {d}]
      <4>1. hook'.at = "install" /\ hook' \in [at : {"idle", "install", "cleanup", "stop"}, todo : SUBSET Device]
        BY <1>2, <3>1 DEF InstallDevice, HookPlaces
      <4>2. mutex' = "install" /\ UNCHANGED installed /\ leaked' \in BOOLEAN /\ UNCHANGED plugged
        BY <1>2, <3>1 DEF InstallDevice, AtRest, HookPlaces
      <4> QED
        BY <4>1, <4>2, <1>2 DEF InstallDevice, HookPlaces
    <3>2. CASE hook' = AtRest /\ mutex' = "free" /\ leaked' = TRUE
      <4>1. hook'.at = "idle" /\ hook'.todo = {} /\ hook' \in [at : {"idle", "install", "cleanup", "stop"}, todo : SUBSET Device]
        BY <3>2 DEF AtRest
      <4> QED
        BY <4>1, <3>2, <1>2 DEF InstallDevice, HookPlaces
    <3> QED
      BY <1>2, <3>1, <3>2 DEF InstallDevice
  <2>2. ReadersKnown' /\ ReadersWhole'
    BY <1>2 DEF InstallDevice, AtRest, HookPlaces, ReadersKnown, ReadersWhole
  <2> QED
    BY <2>1, <2>2
<1>3. CASE InstallEnds_
  <2>1. HookPlaces'
    <3>1. /\ hook' \in [at : {"idle", "install", "cleanup", "stop"}, todo : SUBSET Device] /\ hook'.todo = {}
          /\ \/ hook'.at = "cleanup" /\ UNCHANGED <<mutex, installed>>
             \/ hook'.at = "idle" /\ mutex' = "free" /\ installed' = TRUE
      BY <1>3 DEF InstallEnds_, AtRest
    <3> QED
      BY <1>3, <3>1 DEF InstallEnds_, HookPlaces
  <2>2. ReadersKnown' /\ ReadersWhole'
    BY <1>3 DEF InstallEnds_, AtRest, HookPlaces, ReadersKnown, ReadersWhole
  <2> QED
    BY <2>1, <2>2
<1> QED
  BY <1>1, <1>2, <1>3

\* uninstall and the cleanup it calls, reader by reader; readers, devices that come and go.
LEMMA UninstallStep ==
  ASSUME DevicesInv,
         \/ Uninstall_ \/ Cleanup \/ CloseDevices
         \/ \E d \in Device : StopReader(d) \/ JoinReader(d) \/ ReaderEnds(d) \/ Plug(d) \/ Unplug(d)
  PROVE  DevicesInv'
<1> USE DEF DevicesInv
<1>1. CASE Uninstall_ \/ Cleanup \/ CloseDevices
  <2>1. HookPlaces'
    <3>1. /\ hook' \in [at : {"idle", "install", "cleanup", "stop"}, todo : SUBSET Device] /\ hook'.todo = {}
          /\ \/ hook'.at = "cleanup" /\ UNCHANGED <<mutex, installed>>
             \/ hook'.at = "stop" /\ mutex' = "cleanup" /\ UNCHANGED installed
             \/ hook'.at = "idle" /\ mutex' = "free" /\ installed' = FALSE
      BY <1>1 DEF Uninstall_, Cleanup, CloseDevices, AtRest
    <3>2. UNCHANGED <<plugged, leaked>>
      BY <1>1 DEF Uninstall_, Cleanup, CloseDevices
    <3> QED
      BY <3>1, <3>2 DEF HookPlaces
  <2>2. ReadersKnown'
    BY <1>1 DEF Uninstall_, Cleanup, CloseDevices, AtRest, HookPlaces, ReadersKnown
  <2>3. ReadersWhole'
    BY <1>1 DEF Uninstall_, Cleanup, CloseDevices, AtRest, HookPlaces, ReadersWhole
  <2> QED
    BY <2>1, <2>2, <2>3
<1>2. ASSUME NEW d \in Device, StopReader(d) \/ JoinReader(d) PROVE DevicesInv'
  <2>1. HookPlaces'
    BY <1>2 DEF StopReader, JoinReader, HookPlaces
  <2>2. ReadersKnown' /\ ReadersWhole'
    BY <1>2 DEF StopReader, JoinReader, HookPlaces, ReadersKnown, ReadersWhole
  <2> QED
    BY <2>1, <2>2
<1>3. ASSUME NEW d \in Device, ReaderEnds(d) \/ Plug(d) \/ Unplug(d) PROVE DevicesInv'
  <2>1. HookPlaces'
    BY <1>3 DEF ReaderEnds, Plug, Unplug, HookPlaces
  <2>2. ReadersKnown' /\ ReadersWhole'
    BY <1>3 DEF ReaderEnds, Plug, Unplug, ReadersKnown, ReadersWhole
  <2> QED
    BY <2>1, <2>2
<1> QED
  BY <1>1, <1>2, <1>3

LEMMA DevicesStep == DevicesInv /\ [DevicesNext]_deviceVars => DevicesInv'
<1> SUFFICES ASSUME DevicesInv, [DevicesNext]_deviceVars PROVE DevicesInv'
  OBVIOUS
<1>1. CASE DevicesNext
  BY <1>1, InstallStep, UninstallStep DEF DevicesNext, HookSteps
<1>2. CASE UNCHANGED deviceVars
  BY <1>2 DEF deviceVars, DevicesInv, HookPlaces, ReadersKnown, ReadersWhole, AtRest
<1> QED
  BY <1>1, <1>2

\* What the bits say: TestBit finds the keys below 8 and among 64..71, 128..135, 192..199, 256..263.
LEMMA KeysFound ==
  ASSUME NEW d \in plugged
  PROVE  /\ {1, 2, 3, 15, 28, 30, 44, 57} \subseteq KeyBits(d) => d \in EnumerateKeyboards
         /\ KeyBits(d) \subseteq 272..279 => d \notin EnumerateKeyboards
<1>1. /\ \A b \in KeyBits(d) : KeyBits(d) \subseteq 272..279 => b >= 272 /\ b <= 279
      /\ TestBit(1, KeyBits(d)) = (1 \in KeyBits(d))
  BY DEF TestBit
<1>2. \A bit \in {30, 44, 28, 57, 1, 2, 3, 15} : 64 * (bit \div 8) + (bit % 8) \notin 272..279
  OBVIOUS
<1> QED
  BY <1>1, <1>2 DEF EnumerateKeyboards, IsKeyboard, TestBit

LEMMA HookFacts == DevicesInv => DevicesTypeOK /\ KeyboardsFound /\ ReadsOwn /\ HookHonest
<1> SUFFICES ASSUME DevicesInv PROVE DevicesTypeOK /\ KeyboardsFound /\ ReadsOwn /\ HookHonest
  OBVIOUS
<1>1. DevicesTypeOK /\ ReadsOwn
  BY DEF DevicesInv, HookPlaces, ReadersKnown, DevicesTypeOK, ReadsOwn
<1>2. HookHonest
  BY DEF DevicesInv, HookPlaces, ReadersKnown, ReadersWhole, HookHonest, AtRest
<1>3. KeyboardsFound
  BY KeysFound DEF KeyboardsFound
<1> QED
  BY <1>1, <1>2, <1>3

(* ------------------------------ The way of a key ------------------------------ *)

\* The layouts there are.
Layouts == {"us", "jp"} \cup (Overrides \ {""})

\* The keys are those of a 104 key keyboard, and what rules make is one key on every layout.
KeysAlike ==
  /\ InKeys \subseteq Kb104
  /\ \A y \in RuleCodes : \A l, m \in Layouts : YamyToEvdev(l, y) = YamyToEvdev(m, y)

\* The keys that rules hold on the virtual device.
Made(ys) == {YamyToEvdev("us", y) : y \in ys} \ {0}

\* The second table takes every key with a prefix back to where the first one found it.
LEMMA PrefixedKeys ==
  ASSUME NEW e \in ((96..111) \ {101}) \cup {125, 126, 139}
  PROVE  \E y \in DOMAIN Extended : Extended[y] = e
<1> DEFINE y(c) == E0(c)
<1> USE DEF Extended, E0
<1>1. CASE e \in {96, 97, 98, 99, 100}
  <2>1. y(28) \in DOMAIN Extended /\ Extended[y(28)] = 96
    OBVIOUS
  <2>2. y(29) \in DOMAIN Extended /\ Extended[y(29)] = 97
    OBVIOUS
  <2>3. y(53) \in DOMAIN Extended /\ Extended[y(53)] = 98
    OBVIOUS
  <2>4. y(55) \in DOMAIN Extended /\ Extended[y(55)] = 99
    OBVIOUS
  <2>5. y(56) \in DOMAIN Extended /\ Extended[y(56)] = 100
    OBVIOUS
  <2> HIDE DEF Extended, y
  <2> QED
    BY <1>1, <2>1, <2>2, <2>3, <2>4, <2>5
<1>2. CASE e \in 102..104
  <2>1. e - 31 \in 71..73 /\ y(e - 31) \in DOMAIN Extended /\ Extended[y(e - 31)] = e
    BY <1>2
  <2> HIDE DEF Extended, y
  <2> QED
    BY <2>1
<1>3. CASE e \in {105, 106}
  <2>1. e - 30 \in {75, 76} /\ y(75) \in DOMAIN Extended /\ Extended[y(75)] = 105
    BY <1>3
  <2>2. y(77) \in DOMAIN Extended /\ Extended[y(77)] = 106
    OBVIOUS
  <2> HIDE DEF Extended, y
  <2> QED
    BY <1>3, <2>1, <2>2
<1>4. CASE e \in 107..111
  <2>1. e - 28 \in 79..83 /\ y(e - 28) \in DOMAIN Extended /\ Extended[y(e - 28)] = e
    BY <1>4
  <2> HIDE DEF Extended, y
  <2> QED
    BY <2>1
<1>5. CASE e \in {125, 126, 139}
  <2>1. y(91) \in DOMAIN Extended /\ Extended[y(91)] = 125
    OBVIOUS
  <2>2. y(92) \in DOMAIN Extended /\ Extended[y(92)] = 126
    OBVIOUS
  <2>3. y(93) \in DOMAIN Extended /\ Extended[y(93)] = 139
    OBVIOUS
  <2> HIDE DEF Extended, y
  <2> QED
    BY <1>5, <2>1, <2>2, <2>3
<1>6. e \in {96, 97, 98, 99, 100} \/ e \in 102..104 \/ e \in {105, 106} \/ e \in 107..111 \/ e \in {125, 126, 139}
  <2> HIDE DEF Extended, E0, y
  <2> QED
    OBVIOUS
<1> HIDE DEF Extended, E0, y
<1> QED
  BY <1>1, <1>2, <1>3, <1>4, <1>5, <1>6

\* Codes with a prefix are above all others, and stand for keys from 96 on.
LEMMA PrefixedRange ==
  ASSUME NEW y \in DOMAIN Extended
  PROVE  y \in Nat /\ y > 57344 /\ y # E0(95) /\ Extended[y] \in 96..139
<1>1. PICK c \in {28, 29, 53, 55, 56} \cup (71..73) \cup {75, 77} \cup (79..83) \cup (91..93) : y = E0(c)
  BY DEF Extended
<1>2. c \in Nat /\ y = 57344 + c /\ c > 0 /\ c # 95 /\ y - 57344 = c
  BY <1>1 DEF E0
<1>3. /\ c \in 71..73 => c + 31 \in 96..139
      /\ c \in 79..83 => c + 28 \in 96..139
      /\ c \in {91, 92} => c + 34 \in 96..139
  OBVIOUS
<1>4. \/ c \in {28, 29, 53, 55, 56} \/ c \in 71..73 \/ c \in {75, 77} \/ c \in 79..83
      \/ c \in {91, 92} \/ c = 93
  OBVIOUS
<1>5. Extended[y] =
        (CASE c = 28 -> 96 [] c = 29 -> 97 [] c = 53 -> 98 [] c = 55 -> 99 [] c = 56 -> 100
          [] c \in 71..73 -> c + 31 [] c = 75 -> 105 [] c = 77 -> 106 [] c \in 79..83 -> c + 28
          [] c \in {91, 92} -> c + 34 [] c = 93 -> 139)
  BY <1>1, <1>2 DEF Extended
<1>6. Extended[y] \in 96..139
  BY <1>3, <1>4, <1>5
<1> QED
  BY <1>1, <1>2, <1>6 DEF E0

\* evdevToYamyKeyCode, then yamyToEvdevKeyCode on any layout; and evdevToYamyKeyCode twice.
LEMMA TablesInverse ==
  ASSUME NEW e \in Kb104, NEW l
  PROVE  /\ EvdevToYamy(e) # 0 /\ e \notin 256..351 /\ e \in 1..139
         /\ YamyToEvdev(l, EvdevToYamy(e)) = e
         /\ EvdevToYamy(EvdevToYamy(e)) = IF e \in MainBlock THEN EvdevToYamy(e) ELSE 0
<1>1. CASE e \in 1..83 \cup {87, 88}
  <2>1. EvdevToYamy(e) = e
    <3>1. e \in 1..83 \cup 86..88 /\ e \notin 183..193 /\ e # 194 /\ e # 119
      BY <1>1
    <3>2. ~\E y \in DOMAIN Extended : Extended[y] = e
      BY <1>1, PrefixedRange
    <3> QED
      BY <3>1, <3>2, SMTT(30) DEF EvdevToYamy
  <2>2. ScanToEvdev(l, e) = e
    <3>1. e \in 1..83 \cup {87, 88} /\ e # E0(95) /\ e # 112 /\ e # 115 /\ e # 121 /\ e # 123 /\ e # 125
      BY <1>1 DEF E0
    <3>2. e \notin DOMAIN Extended
      BY <1>1, PrefixedRange
    <3> QED
      BY <3>1, <3>2, ZenonT(30) DEF ScanToEvdev
  <2>3. e \in MainBlock
    BY <1>1 DEF MainBlock
  <2> QED
    BY <1>1, <2>1, <2>2, <2>3 DEF YamyToEvdev
<1>2. CASE e \in ((96..111) \ {101}) \cup {125, 126, 139}
  <2>1. PICK y \in DOMAIN Extended : Extended[y] = e /\ EvdevToYamy(e) = y
    <3>1. e \notin 1..83 \cup 86..88 /\ e \notin 183..193 /\ e # 194 /\ e # 119
      BY <1>2
    <3>2. \E y \in DOMAIN Extended : Extended[y] = e
      BY <1>2, PrefixedKeys
    <3>3. EvdevToYamy(e) = CHOOSE y \in DOMAIN Extended : Extended[y] = e
      BY <3>1, <3>2, SMTT(30) DEF EvdevToYamy
    <3> QED
      BY <3>2, <3>3
  <2>2. y > 57344
    BY PrefixedRange
  <2>3. ScanToEvdev(l, y) = e
    <3>1. y \notin 1..83 \cup {87, 88} /\ y # 112 /\ y # 115 /\ y # 121 /\ y # 123 /\ y # 125 /\ y # E0(95)
      BY <2>2, PrefixedRange DEF E0
    <3> QED
      BY <3>1, <2>1, ZenonT(30) DEF ScanToEvdev
  <2>4. EvdevToYamy(y) = 0
    <3>1. y \notin 1..83 \cup 86..88 /\ y \notin 183..193 /\ y # 194 /\ y # 119
      BY <2>2, PrefixedRange
    <3>2. ~\E z \in DOMAIN Extended : Extended[z] = y
      BY <2>2, PrefixedRange
    <3> QED
      BY <3>1, <3>2, SMTT(30) DEF EvdevToYamy
  <2>5. e \notin MainBlock
    BY <1>2 DEF MainBlock
  <2> QED
    BY <1>2, <2>1, <2>2, <2>3, <2>4, <2>5 DEF YamyToEvdev
<1> QED
  BY <1>1, <1>2 DEF Kb104

\* What is injected is a key of the virtual device or nothing.
LEMMA CodeRange ==
  ASSUME NEW y \in Nat, NEW l
  PROVE  YamyToEvdev(l, y) \in 0..767
<1>1. ScanToEvdev(l, y) \in 0..767
  <2>1. y \in DOMAIN Extended => Extended[y] \in 96..139
    BY PrefixedRange
  <2> QED
    BY <2>1, SMTT(30) DEF ScanToEvdev
<1>2. VkToEvdev(y) \in 0..767
  <2> DEFINE S == 0..767
  <2>1. /\ {20, 22, 47, 21, 44, 139, 82, 55, 78, 74, 83, 98, 42, 54, 29, 97, 56, 100} \subseteq S
        /\ {39, 13, 51, 12, 52, 53, 41, 26, 43, 27, 40, 86, 0} \subseteq S
    OBVIOUS
  <2>2. /\ y \in {91, 92} => y + 34 \in S
        /\ y \in 97..99 => y - 18 \in S
        /\ y \in 100..102 => y - 25 \in S
        /\ y \in 103..105 => y - 32 \in S
        /\ y \in 112..121 => y - 53 \in S
        /\ y \in {122, 123} => y - 35 \in S
        /\ y \in 124..135 => y + 59 \in S
        /\ y \in {144, 145} => y - 75 \in S
    OBVIOUS
  <2> HIDE DEF S
  <2>3. VkToEvdev(y) \in S
    BY <2>1, <2>2 DEF VkToEvdev
  <2> QED
    BY <2>3 DEF S
<1> QED
  BY <1>1, <1>2 DEF YamyToEvdev

\* Of the keys that are held, those that come out are held on the virtual device, and it holds no others but those
\* that rules made; the wheel's rest and notches are what was asked for.
LayoutKnown ==
  layout \in [override : Overrides \cup {""}, cached : {"", "us", "jp"}, xkb : {"us", "jp"}]
ComesOut(k) == passage = "layers" => k \in MainBlock /\ EvdevToYamy(k) \in Configured
KeysHeld ==
  /\ passage \in {"bypass", "layers"} /\ inDown \subseteq InKeys /\ ruleDown \subseteq RuleCodes
  /\ \A k \in inDown : ComesOut(k) => k \in outDown
  /\ \A e \in outDown : e \in Made(ruleDown) \/ (e \in inDown /\ ComesOut(e))
WheelKnown == wheel \in [acc : Int, sent : Int, asked : Int] /\ WheelConserved

KeyPathInv == LayoutKnown /\ KeysHeld /\ WheelKnown

LEMMA KeyPathBegin == KeyPathInit => KeyPathInv
<1> SUFFICES ASSUME KeyPathInit PROVE KeyPathInv
  OBVIOUS
<1>1. LayoutKnown
  BY DEF KeyPathInit, LayoutKnown
<1>2. KeysHeld
  BY DEF KeyPathInit, KeysHeld
<1>3. WheelKnown
  <2>1. wheel = [acc |-> 0, sent |-> 0, asked |-> 0]
    BY DEF KeyPathInit
  <2>2. wheel.acc = 0 /\ wheel.sent = 0 /\ wheel.asked = 0 /\ wheel \in [acc : Int, sent : Int, asked : Int]
    BY <2>1
  <2> QED
    BY <2>2 DEF WheelKnown, WheelConserved
<1> QED
  BY <1>1, <1>2, <1>3 DEF KeyPathInv

LEMMA LayoutInUse ==
  ASSUME LayoutKnown
  PROVE  /\ Detected \in Layouts /\ "us" \in Layouts
         /\ Cached \in [override : Overrides \cup {""}, cached : {"", "us", "jp"}, xkb : {"us", "jp"}]
BY DEF LayoutKnown, Detected, Cached, Layouts

\* A key of the user.
LEMMA StrokeStep ==
  ASSUME KeysAlike, KeyPathInv, NEW k \in InKeys, NEW down \in BOOLEAN, Stroke(k, down)
  PROVE  KeyPathInv'
<1> DEFINE y == EvdevToYamy(k)
<1>1. /\ y # 0 /\ k \notin 256..351 /\ YamyToEvdev(Detected, y) = k
      /\ EvdevToYamy(y) = IF k \in MainBlock THEN y ELSE 0
  BY TablesInverse DEF KeysAlike
<1>2. /\ inDown' = (IF down THEN inDown \cup {k} ELSE inDown \ {k})
      /\ UNCHANGED <<passage, ruleDown, wheel>>
  BY DEF Stroke
<1>3. CASE ComesOut(k)
  <2>1. ~Swallowed(y) /\ Layered(y) = y
    <3>1. k # 0 /\ passage \in {"bypass", "layers"}
      BY TablesInverse DEF KeysAlike, KeyPathInv, KeysHeld
    <3> QED
      BY <1>1, <1>3, <3>1 DEF ComesOut, Swallowed, Layered
  <2>2. /\ outDown' = (IF down THEN outDown \cup {k} ELSE outDown \ {k}) /\ layout' = Cached
    <3>1. Inject(y, down)
      BY <1>1, <2>1 DEF Stroke
    <3>2. k # 0
      BY TablesInverse DEF KeysAlike
    <3> QED
      BY <1>1, <3>1, <3>2 DEF Inject
  <2>3. LayoutKnown'
    BY <2>2, LayoutInUse DEF KeyPathInv, LayoutKnown
  <2>4. KeysHeld'
    BY <1>2, <1>3, <2>2 DEF KeyPathInv, KeysHeld, ComesOut
  <2> QED
    BY <1>2, <2>3, <2>4 DEF KeyPathInv, WheelKnown, WheelConserved
<1>4. CASE ~ComesOut(k)
  <2>1. UNCHANGED <<outDown, layout>>
    <3>1. Swallowed(y)
      BY <1>1, <1>4 DEF ComesOut, Swallowed
    <3> QED
      BY <3>1 DEF Stroke
  <2>2. KeysHeld'
    BY <1>2, <1>4, <2>1 DEF KeyPathInv, KeysHeld, ComesOut
  <2> QED
    BY <1>2, <2>1, <2>2 DEF KeyPathInv, LayoutKnown, WheelKnown, WheelConserved
<1> QED
  BY <1>3, <1>4

\* A key of a rule: pressed and released as the same key, also when the layout has changed.
LEMMA RuleStep ==
  ASSUME KeysAlike, KeyPathInv, NEW y \in RuleCodes, NEW down \in BOOLEAN, Rule(y, down)
  PROVE  KeyPathInv'
<1> DEFINE e == YamyToEvdev("us", y)
<1>1. YamyToEvdev(Detected, y) = e
  BY LayoutInUse DEF KeyPathInv, KeysAlike
<1>2. /\ inDown = {} /\ UNCHANGED <<passage, inDown, wheel>>
      /\ ruleDown' = (IF down THEN ruleDown \cup {y} ELSE ruleDown \ {y})
      /\ outDown' = (IF e = 0 THEN outDown ELSE IF down THEN outDown \cup {e} ELSE outDown \ {e})
      /\ layout' = Cached
  BY <1>1 DEF Rule, Inject
<1>3. LayoutKnown'
  BY <1>2, LayoutInUse DEF KeyPathInv, LayoutKnown
<1>4. KeysHeld'
  <2>1. /\ outDown \subseteq Made(ruleDown) /\ ruleDown \subseteq RuleCodes
        /\ inDown' = {} /\ passage' \in {"bypass", "layers"}
    BY <1>2 DEF KeyPathInv, KeysHeld
  <2> SUFFICES outDown' \subseteq Made(ruleDown')
    BY <1>2, <2>1 DEF KeysHeld, Made
  <2>2. CASE down
    <3>1. Made(ruleDown') = Made(ruleDown) \cup ({e} \ {0})
      BY <1>2, <2>2 DEF Made
    <3> QED
      BY <1>2, <2>1, <2>2, <3>1
  <2>3. CASE ~down
    <3>1. Made(ruleDown) \subseteq Made(ruleDown') \cup ({e} \ {0})
      BY <1>2, <2>3 DEF Made
    <3> QED
      BY <1>2, <2>1, <2>3, <3>1
  <2> QED
    BY <2>2, <2>3
<1>5. WheelKnown'
  BY <1>2 DEF KeyPathInv, WheelKnown, WheelConserved
<1> QED
  BY <1>3, <1>4, <1>5 DEF KeyPathInv

\* Layouts change: no key does.
LEMMA LayoutStep ==
  ASSUME KeyPathInv,
         (\E l \in Overrides : SetLayoutOverride(l)) \/ (\E l \in {"us", "jp"} : SessionLayout(l))
  PROVE  KeyPathInv'
<1>1. LayoutKnown' /\ UNCHANGED <<passage, inDown, ruleDown, outDown, wheel>>
  BY DEF SetLayoutOverride, SessionLayout, KeyPathInv, LayoutKnown
<1> QED
  BY <1>1 DEF KeyPathInv, KeysHeld, ComesOut, WheelKnown, WheelConserved

\* Truncating division: quotient and rest make the number, and the rest is small.
LEMMA Truncates ==
  ASSUME NEW a \in Int
  PROVE  /\ Quot(a, 120) \in Int /\ Rem(a, 120) = a - 120 * Quot(a, 120)
         /\ Rem(a, 120) > -120 /\ Rem(a, 120) < 120
<1>1. CASE a >= 0
  <2>1. a \div 120 \in Int /\ a - 120 * (a \div 120) >= 0 /\ a - 120 * (a \div 120) < 120
    BY <1>1
  <2> QED
    BY <1>1, <2>1 DEF Quot, Rem
<1>2. CASE a < 0
  <2> DEFINE b == -a
  <2>1. b \in Nat /\ b \div 120 \in Int /\ b - 120 * (b \div 120) >= 0 /\ b - 120 * (b \div 120) < 120
    BY <1>2
  <2>2. Quot(a, 120) = -(b \div 120)
    BY <1>2 DEF Quot
  <2> QED
    BY <2>1, <2>2 DEF Rem
<1> QED
  BY <1>1, <1>2

LEMMA WheelStep ==
  ASSUME KeyPathInv, NEW d \in Deltas, MouseWheel(d)
  PROVE  KeyPathInv'
<1> DEFINE acc == wheel.acc + d
           steps == Quot(acc, 120)
<1>1. /\ acc \in Int /\ d \in Int /\ wheel.acc \in Int /\ wheel.sent \in Int /\ wheel.asked \in Int
      /\ 120 * wheel.sent + wheel.acc = wheel.asked
  BY KeyPathAssumption DEF KeyPathInv, WheelKnown, WheelConserved
<1>2. steps \in Int /\ Rem(acc, 120) = acc - 120 * steps /\ Rem(acc, 120) > -120 /\ Rem(acc, 120) < 120
  <2> HIDE DEF acc
  <2> QED
    BY <1>1, Truncates
<1>3. wheel' = [acc |-> IF steps # 0 THEN Rem(acc, 120) ELSE acc, sent |-> wheel.sent + steps, asked |-> wheel.asked + d]
  BY DEF MouseWheel
<1>4. WheelKnown'
  <2> HIDE DEF steps
  <2>1. wheel'.acc = Rem(acc, 120)
    BY <1>1, <1>2, <1>3
  <2>2. /\ wheel' \in [acc : Int, sent : Int, asked : Int]
        /\ wheel'.sent = wheel.sent + steps /\ wheel'.asked = wheel.asked + d
    BY <1>1, <1>2, <1>3
  <2> QED
    BY <1>1, <1>2, <2>1, <2>2 DEF WheelKnown, WheelConserved
<1>5. UNCHANGED <<passage, inDown, ruleDown, outDown, layout>>
  BY DEF MouseWheel
<1> QED
  BY <1>4, <1>5 DEF KeyPathInv, LayoutKnown, KeysHeld, ComesOut

LEMMA KeyPathStep == KeysAlike /\ KeyPathInv /\ [KeyPathNext]_keyPathVars => KeyPathInv'
<1> SUFFICES ASSUME KeysAlike, KeyPathInv, [KeyPathNext]_keyPathVars PROVE KeyPathInv'
  OBVIOUS
<1>1. CASE KeyPathNext
  BY <1>1, StrokeStep, RuleStep, LayoutStep, WheelStep DEF KeyPathNext
<1>2. CASE UNCHANGED keyPathVars
  BY <1>2 DEF keyPathVars, KeyPathInv, LayoutKnown, KeysHeld, ComesOut, WheelKnown, WheelConserved
<1> QED
  BY <1>1, <1>2

LEMMA KeyFacts == KeysAlike /\ KeyPathInv => KeyPathTypeOK /\ KeyEcho /\ WheelConserved
<1> SUFFICES ASSUME KeysAlike, KeyPathInv PROVE KeyPathTypeOK /\ KeyEcho /\ WheelConserved
  OBVIOUS
<1>1. KeyEcho
  BY DEF KeyPathInv, KeysHeld, ComesOut, Made, KeyEcho
<1>2. outDown \subseteq 1..767
  <2>1. ASSUME NEW k \in inDown PROVE k \in 1..767
    <3>1. k \in Kb104
      BY DEF KeyPathInv, KeysHeld, KeysAlike
    <3>2. k \in 1..139
      BY <3>1, TablesInverse
    <3> QED
      BY <3>2
  <2>2. \A y \in ruleDown : YamyToEvdev("us", y) \in 0..767
    BY CodeRange, KeyPathAssumption DEF KeyPathInv, KeysHeld
  <2> QED
    BY <2>1, <2>2 DEF KeyPathInv, KeysHeld, Made
<1>3. wheel.acc \in -119..119 /\ WheelConserved
  BY DEF KeyPathInv, WheelKnown, WheelConserved
<1> QED
  BY <1>1, <1>2, <1>3 DEF KeyPathInv, KeysHeld, LayoutKnown, KeyPathTypeOK

(* ------------------------------ Keys go through ------------------------------ *)

\* A behaviour exercises one part; the others stand still.
LEMMA OnePart ==
  ASSUME [ServicesNext]_servicesVars
  PROVE  /\ [HistoryNext]_historyVars /\ [ViewerNext]_viewerVars /\ [KeyPathNext]_keyPathVars
         /\ [DevicesNext]_deviceVars /\ [CacheNext]_cacheVars /\ [TreeNext]_treeVars
BY DEF ServicesNext, servicesVars

\* A key that no rule touches comes out as it went in or not at all, from the devices that are read through the code
\* tables and the engine to the injector, however many keys, devices and calls there are: for the keys of a 104 key
\* keyboard, whatever the configuration names, and rules whose codes are one key on every layout.
THEOREM KeysGoThrough == KeysAlike => (ServicesSpec => []KeysThrough)
<1> SUFFICES ASSUME KeysAlike PROVE ServicesSpec => []KeysThrough
  OBVIOUS
<1>1. ServicesInit => DevicesInv /\ KeyPathInv
  BY DevicesBegin, KeyPathBegin DEF ServicesInit
<1>2. DevicesInv /\ KeyPathInv /\ [ServicesNext]_servicesVars => DevicesInv' /\ KeyPathInv'
  BY OnePart, DevicesStep, KeyPathStep
<1>3. DevicesInv /\ KeyPathInv => KeysThrough
  BY HookFacts, KeyFacts DEF KeysThrough
<1> QED
  BY <1>1, <1>2, <1>3, PTL DEF ServicesSpec

(* ------------------------------ Windows and monitors ------------------------------ *)

\* The climb is at a window.  Unless a monitor changed, the CRTCs that a lookup has passed do not have the point, and
\* what it found has it if any does.
ClimbKnown ==
  /\ parent \in [TreeWin -> TreeWin \cup {Root}]
  /\ climb \in [at : {"idle", "climb", "top"}, win : TreeWin, left : 0..kMaxDepth]
Lookups == [at : {"none", "point", "primary", "lit", "found"}, point : Int, monitor : Monitor \cup {0}, moved : BOOLEAN]
FoundKnown ==
  /\ primary \in Monitor \cup {0} /\ moves \in 0..MaxMoves
  /\ found \in Lookups
  /\ found.at \in {"point", "lit"} => found.monitor \in Monitor
  /\ found.at = "point" /\ ~found.moved => \A m \in Monitor : m < found.monitor => ~In(found.point, area[m])
  /\ found.at \in {"primary", "lit"} /\ ~found.moved => \A m \in Monitor : ~In(found.point, area[m])
  /\ found.at = "found" /\ ~found.moved /\ (\E m \in Monitor : In(found.point, area[m]))
       => found.monitor # 0 /\ In(found.point, area[found.monitor])

TreeInv == ClimbKnown /\ FoundKnown

LEMMA TreeBegin == TreeInit => TreeInv
<1> SUFFICES ASSUME TreeInit PROVE TreeInv
  OBVIOUS
<1>1. ClimbKnown
  BY TreeAssumption DEF TreeInit, ClimbKnown, NoClimb
<1>2. FoundKnown
  BY TreeAssumption DEF TreeInit, FoundKnown, Lookups, NotLooked
<1> QED
  BY <1>1, <1>2 DEF TreeInv

\* The CRTCs are numbered without gaps.
LEMMA NextCrtc ==
  ASSUME NEW m \in Monitor
  PROVE  /\ m \in Nat /\ m # 0 /\ 1 \in Monitor
         /\ \A o \in Monitor : o \in Nat /\ (o < m + 1 => o < m \/ o = m) /\ ~(o < 1)
         /\ m + 1 \notin Monitor => \A o \in Monitor : o < m \/ o = m
<1>1. Cardinality(Monitor) \in Nat /\ Monitor = 1..Cardinality(Monitor)
  BY TreeAssumption, FS_CardinalityType
<1> QED
  BY <1>1

\* One request of a lookup.
LEMMA LookupKnown ==
  ASSUME FoundKnown, AskCrtc \/ AskPrimary \/ AskLit
  PROVE  FoundKnown'
<1>1. UNCHANGED <<area, primary, moves>> /\ found \in Lookups
  BY DEF AskCrtc, AskPrimary, AskLit, FoundKnown
<1>2. CASE AskCrtc
  <2>1. found.at = "point" /\ found.monitor \in Monitor
    BY <1>2 DEF AskCrtc, FoundKnown
  <2> DEFINE hit == area[found.monitor] # Off /\ In(found.point, area[found.monitor])
  <2>2. ~hit => ~In(found.point, area[found.monitor])
    BY DEF In, Off, FoundKnown, Lookups
  <2>3. CASE hit
    <3>1. found' = [found EXCEPT !.at = "found"]
      BY <1>2, <2>3 DEF AskCrtc, Passed
    <3> QED
      BY <1>1, <2>1, <2>3, <3>1, NextCrtc DEF FoundKnown, Lookups
  <2>4. CASE ~hit /\ found.monitor + 1 \in Monitor
    <3>1. found' = [found EXCEPT !.monitor = found.monitor + 1]
      BY <1>2, <2>4 DEF AskCrtc, Passed
    <3>2. ~found.moved => \A m \in Monitor : m < found.monitor + 1 => ~In(found.point, area[m])
      BY <2>1, <2>2, <2>4, NextCrtc DEF FoundKnown
    <3> QED
      BY <1>1, <2>1, <2>4, <3>1, <3>2 DEF FoundKnown, Lookups
  <2>5. CASE ~hit /\ found.monitor + 1 \notin Monitor
    <3>1. found' = [found EXCEPT !.at = "primary"]
      BY <1>2, <2>5 DEF AskCrtc, Passed
    <3>2. ~found.moved => \A m \in Monitor : ~In(found.point, area[m])
      BY <2>1, <2>2, <2>5, NextCrtc DEF FoundKnown
    <3> QED
      BY <1>1, <2>1, <3>1, <3>2 DEF FoundKnown, Lookups
  <2> QED
    BY <2>3, <2>4, <2>5
<1>3. CASE AskPrimary
  <2>1. PICK m \in Monitor : TRUE
    BY TreeAssumption
  <2>2. 1 \in Monitor
    BY <2>1, NextCrtc
  <2> QED
    BY <1>1, <1>3, <2>2 DEF AskPrimary, FoundKnown, Lookups
<1>4. CASE AskLit
  <2>1. found.at = "lit" /\ found.monitor \in Monitor
    BY <1>4 DEF AskLit, FoundKnown
  <2>2. \/ found' = [found EXCEPT !.at = "found"]
        \/ found' = [found EXCEPT !.at = "found", !.monitor = 0]
        \/ found.monitor + 1 \in Monitor /\ found' = [found EXCEPT !.monitor = found.monitor + 1]
    BY <1>4 DEF AskLit, Passed
  <2> QED
    BY <1>1, <2>1, <2>2 DEF FoundKnown, Lookups
<1> QED
  BY <1>2, <1>3, <1>4

LEMMA TreeStep == TreeInv /\ [TreeNext]_treeVars => TreeInv'
<1> SUFFICES ASSUME TreeInv, [TreeNext]_treeVars PROVE TreeInv'
  OBVIOUS
<1> USE DEF TreeInv
<1>1. ASSUME UNCHANGED <<area, primary, found, moves>> PROVE FoundKnown'
  BY <1>1 DEF FoundKnown
<1>2. ASSUME NEW w \in TreeWin, GetToplevelWindow(w) PROVE TreeInv'
  <2>1. ClimbKnown'
    BY <1>2, TreeAssumption DEF GetToplevelWindow, ClimbKnown
  <2> QED
    BY <1>1, <1>2, <2>1 DEF GetToplevelWindow
<1>3. CASE Climb
  <2>1. ClimbKnown'
    <3>1. CASE climb.left = 0 \/ parent[climb.win] = Root
      BY <1>3, <3>1 DEF Climb, ClimbKnown
    <3>2. CASE climb.left # 0 /\ parent[climb.win] # Root
      <4>1. climb.left - 1 \in 0..kMaxDepth /\ parent[climb.win] \in TreeWin
        BY <3>2, TreeAssumption DEF ClimbKnown
      <4>2. climb' = [climb EXCEPT !.win = parent[climb.win], !.left = @ - 1] /\ UNCHANGED parent
        BY <1>3, <3>2 DEF Climb
      <4> QED
        BY <4>1, <4>2 DEF ClimbKnown
    <3> QED
      BY <3>1, <3>2
  <2> QED
    BY <1>1, <1>3, <2>1 DEF Climb
<1>4. ASSUME NEW w \in TreeWin, NEW p \in TreeWin \cup {Root}, Reparent(w, p) PROVE TreeInv'
  <2>1. ClimbKnown'
    BY <1>4 DEF Reparent, ClimbKnown
  <2>2. FoundKnown'
    BY <1>4, TreeAssumption DEF Reparent, FoundKnown
  <2> QED
    BY <2>1, <2>2
<1>5. ASSUME NEW x \in 0..2 * Cardinality(Monitor), LookAt(x) PROVE TreeInv'
  <2>1. ClimbKnown'
    BY <1>5 DEF LookAt, ClimbKnown
  <2>2. x \in Int /\ 1 \in Monitor /\ \A m \in Monitor : ~(m < 1)
    <3>1. \A c : \A n \in 0..c : n \in Int
      OBVIOUS
    <3>2. PICK m \in Monitor : TRUE
      BY TreeAssumption
    <3> QED
      BY <3>1, <3>2, NextCrtc
  <2>3. FoundKnown'
    BY <1>5, <2>2 DEF LookAt, FoundKnown, Lookups
  <2> QED
    BY <2>1, <2>3
<1>8. CASE AskCrtc \/ AskPrimary \/ AskLit
  <2>1. ClimbKnown'
    BY <1>8 DEF AskCrtc, AskPrimary, AskLit, ClimbKnown
  <2> QED
    BY <1>8, <2>1, LookupKnown
<1>6. ASSUME NEW m \in Monitor, SwitchMonitor(m) PROVE TreeInv'
  <2>1. ClimbKnown'
    BY <1>6 DEF SwitchMonitor, ClimbKnown
  <2>2. FoundKnown'
    <3>1. moves' \in 0..MaxMoves
      BY <1>6, TreeAssumption DEF SwitchMonitor, FoundKnown
    <3>2. primary' \in Monitor \cup {0}
      BY <1>6 DEF SwitchMonitor, FoundKnown
    <3>3. /\ found' \in Lookups /\ found'.moved
          /\ found'.at \in {"point", "lit"} => found'.monitor \in Monitor
      BY <1>6 DEF SwitchMonitor, FoundKnown, Lookups
    <3> QED
      BY <3>1, <3>2, <3>3 DEF FoundKnown
  <2> QED
    BY <2>1, <2>2
<1>7. CASE UNCHANGED treeVars
  <2>1. ClimbKnown'
    BY <1>7 DEF treeVars, ClimbKnown
  <2> QED
    BY <1>1, <1>7, <2>1 DEF treeVars
<1> QED
  BY <1>2, <1>3, <1>4, <1>5, <1>6, <1>7, <1>8 DEF TreeNext

LEMMA TreeFacts == TreeInv => TreeTypeOK /\ ToplevelIsWindow /\ PointOnMonitor
<1> SUFFICES ASSUME TreeInv PROVE TreeTypeOK /\ ToplevelIsWindow /\ PointOnMonitor
  OBVIOUS
<1>1. TreeTypeOK /\ ToplevelIsWindow
  BY TreeAssumption DEF TreeInv, ClimbKnown, FoundKnown, Lookups, TreeTypeOK, ToplevelIsWindow
<1>2. ASSUME found.at = "found", ~found.moved, NEW m \in Monitor, In(found.point, area[m])
      PROVE  In(found.point, MonitorRect(found.monitor))
  BY <1>2 DEF TreeInv, FoundKnown, MonitorRect
<1> QED
  BY <1>1, <1>2 DEF PointOnMonitor

(* ------------------------------ The property cache ------------------------------ *)

Entries == [win : XWin, text : 0..MaxTitles, stamp : 0..MaxTicks]

\* Titles, their history and the clock: a window has its title now, and had every other one by now.
TitlesKnown ==
  /\ clock \in 0..MaxTicks /\ changes \in 0..MaxTitles
  /\ title \in [XWin -> 0..MaxTitles] /\ held \in [XWin -> [0..MaxTitles -> 0..MaxTicks]]
  /\ \A w \in XWin : title[w] <= changes /\ held[w][title[w]] = clock
  /\ \A w \in XWin : \A n \in 0..MaxTitles : held[w][n] <= clock

\* An entry is of a title that the window had no longer than FetchTime before it was stored.
EntriesKnown ==
  /\ propertyCache \subseteq Entries
  /\ IsFiniteSet(propertyCache) /\ Cardinality(propertyCache) <= kMaxCacheEntries
  /\ \A d, e \in propertyCache : d.win = e.win => d = e
  /\ \A e \in propertyCache : e.stamp <= clock /\ held[e.win][e.text] >= e.stamp - FetchTime

\* What a thread is about to store the window had when the server answered, not longer than FetchTime ago; what it
\* has been given to copy, the window had no longer than that and kCacheTimeout before the thread asked.
AskerKnown(a) ==
  /\ a \in [at : {"idle", "copy", "fetch", "store", "again", "answered"},
            win : XWin \cup {Asleep.win}, text : {Torn, NoText} \cup 0..MaxTitles, since : Nat, read : Nat]
  /\ a.since <= clock
  /\ a.at # "idle" => a.win \in XWin
  /\ a.at = "again" => a.text = NoText
  /\ a.at = "store" => a.text \in 0..MaxTitles /\ held[a.win][a.text] >= a.read /\ clock <= a.read + FetchTime
  /\ a.at \in {"copy", "answered"} /\ a.text >= 0 => held[a.win][a.text] >= a.since - kCacheTimeout - FetchTime
AskersKnown == DOMAIN ask = Asker /\ \A t \in Asker : AskerKnown(ask[t])

CacheInv == TitlesKnown /\ EntriesKnown /\ AskersKnown

LEMMA CacheBegin == CacheInit => CacheInv
<1> SUFFICES ASSUME CacheInit PROVE CacheInv
  OBVIOUS
<1> USE CacheAssumption
<1>1. TitlesKnown
  BY DEF CacheInit, TitlesKnown
<1>2. EntriesKnown
  BY FS_EmptySet DEF CacheInit, EntriesKnown
<1>3. AskersKnown
  <2>1. AskerKnown([at |-> "idle", win |-> Asleep.win, text |-> NoText, since |-> 0, read |-> 0])
    BY DEF AskerKnown, NoText, Torn, CacheInit
  <2>2. Asleep = [at |-> "idle", win |-> Asleep.win, text |-> NoText, since |-> 0, read |-> 0]
    BY DEF Asleep
  <2> HIDE DEF Asleep
  <2> QED
    BY <2>1, <2>2 DEF AskersKnown, CacheInit
<1> QED
  BY <1>1, <1>2, <1>3 DEF CacheInv

LEMMA HeldSince ==
  ASSUME NEW h \in [XWin -> [0..MaxTitles -> 0..MaxTicks]], NEW w \in XWin, NEW n \in 0..MaxTitles
  PROVE  h[w][n] \in Nat
<1>1. h[w] \in [0..MaxTitles -> 0..MaxTicks]
  OBVIOUS
<1>2. h[w][n] \in 0..MaxTicks
  BY <1>1
<1> QED
  BY <1>2

\* What a thread knows stays true while titles are only added to, and the clock waits for those about to store.
LEMMA AskerKeeps ==
  ASSUME TitlesKnown, NEW a, AskerKnown(a), clock' \in 0..MaxTicks, clock' >= clock,
         a.at = "store" => clock' <= a.read + FetchTime,
         held' \in [XWin -> [0..MaxTitles -> 0..MaxTicks]],
         \A w \in XWin : \A n \in 0..MaxTitles : held'[w][n] >= held[w][n] /\ held'[w][n] <= clock'
  PROVE  AskerKnown(a)'
<1>1. a.at = "store" => held'[a.win][a.text] >= a.read
  <2> SUFFICES ASSUME a.at = "store" PROVE held'[a.win][a.text] >= a.read
    OBVIOUS
  <2>1. a.win \in XWin /\ a.text \in 0..MaxTitles /\ a.read \in Nat /\ held[a.win][a.text] >= a.read
    BY DEF AskerKnown
  <2>2. held[a.win][a.text] \in Nat /\ held'[a.win][a.text] \in Nat
    BY <2>1, HeldSince DEF TitlesKnown
  <2> QED
    BY <2>1, <2>2
<1>2. a.at \in {"copy", "answered"} /\ a.text >= 0 => held'[a.win][a.text] >= a.since - kCacheTimeout - FetchTime
  <2> SUFFICES ASSUME a.at \in {"copy", "answered"}, a.text >= 0
               PROVE  held'[a.win][a.text] >= a.since - kCacheTimeout - FetchTime
    OBVIOUS
  <2>1. a.win \in XWin /\ a.text \in 0..MaxTitles /\ a.since \in Nat
    BY DEF AskerKnown, NoText, Torn
  <2>2. held[a.win][a.text] \in Nat /\ held'[a.win][a.text] \in Nat
    BY <2>1, HeldSince DEF TitlesKnown
  <2> QED
    BY <2>1, <2>2, CacheAssumption DEF AskerKnown
<1>3. a.since <= clock'
  BY DEF AskerKnown, TitlesKnown
<1> QED
  BY <1>1, <1>2, <1>3 DEF AskerKnown, Asleep

\* A thread finds an entry that has not expired, or none.
LEMMA LookupStep ==
  ASSUME CacheInv, NEW t \in Asker, NEW missed \in {"fetch", "answered"},
         NEW a \in [at : {"idle", "again"}, win : XWin, text : {Torn, NoText} \cup 0..MaxTitles, since : Nat, read : Nat],
         a.since <= clock, missed = "answered" => a.text = NoText,
         Lookup(t, a, missed), UNCHANGED <<title, held, propertyCache, clock, changes>>
  PROVE  CacheInv'
<1>1. TitlesKnown' /\ EntriesKnown'
  BY DEF CacheInv, TitlesKnown, EntriesKnown
<1>2. \A b : AskerKnown(b) => AskerKnown(b)'
  BY DEF AskerKnown, Asleep
<1>3. /\ a.win \in XWin /\ a.text \in {Torn, NoText} \cup 0..MaxTitles
      /\ a.since \in Nat /\ a.since <= clock
  OBVIOUS
<1>4. AskerKnown(ask'[t]) /\ DOMAIN ask' = Asker /\ \A u \in Asker \ {t} : ask'[u] = ask[u]
  <2>1. CASE Get(a.win) = {}
    <3>1. ask' = [ask EXCEPT ![t] = [a EXCEPT !.at = missed]]
      BY <2>1 DEF Lookup
    <3>2. AskerKnown([a EXCEPT !.at = missed])
      <4> DEFINE r == [a EXCEPT !.at = missed]
      <4>1. /\ r \in [at : {"idle", "copy", "fetch", "store", "again", "answered"},
                      win : XWin \cup {Asleep.win}, text : {Torn, NoText} \cup 0..MaxTitles, since : Nat, read : Nat]
            /\ r.at = missed /\ r.win = a.win /\ r.text = a.text /\ r.since = a.since
        OBVIOUS
      <4> HIDE DEF r
      <4> QED
        BY <4>1, <1>3 DEF AskerKnown, NoText
    <3> QED
      BY <3>1, <3>2 DEF CacheInv, AskersKnown
  <2>2. CASE Get(a.win) # {}
    <3> DEFINE e == CHOOSE x \in Get(a.win) : TRUE
    <3>1. e \in propertyCache /\ e.win = a.win /\ ~Expired(e)
      BY <2>2 DEF Get
    <3> HIDE DEF e
    <3>2. ask' = [ask EXCEPT ![t] = [a EXCEPT !.at = "copy", !.text = e.text]]
      BY <2>2 DEF Lookup, e
    <3>3. /\ e.text \in 0..MaxTitles /\ e.stamp \in Nat /\ held[a.win][e.text] \in Nat
          /\ held[a.win][e.text] >= e.stamp - FetchTime
      <4>1. e \in Entries /\ held[e.win][e.text] >= e.stamp - FetchTime
        BY <3>1 DEF CacheInv, EntriesKnown
      <4>2. e.text \in 0..MaxTitles /\ e.stamp \in 0..MaxTicks
        BY <4>1 DEF Entries
      <4>3. held[a.win][e.text] \in Nat
        BY <1>3, <4>2, HeldSince DEF CacheInv, TitlesKnown
      <4>4. e.stamp \in Nat
        BY <4>2
      <4> QED
        BY <3>1, <4>1, <4>2, <4>3, <4>4
    <3>4. clock \in Nat /\ clock - e.stamp <= kCacheTimeout
      BY <3>1, <3>3, CacheAssumption DEF Expired, CacheInv, TitlesKnown
    <3>5. AskerKnown([a EXCEPT !.at = "copy", !.text = e.text])
      <4> DEFINE r == [a EXCEPT !.at = "copy", !.text = e.text]
      <4>1. /\ r \in [at : {"idle", "copy", "fetch", "store", "again", "answered"},
                      win : XWin \cup {Asleep.win}, text : {Torn, NoText} \cup 0..MaxTitles, since : Nat, read : Nat]
            /\ r.at = "copy" /\ r.win = a.win /\ r.text = e.text /\ r.since = a.since
        BY <3>3
      <4>2. held[a.win][e.text] >= a.since - kCacheTimeout - FetchTime
        BY <1>3, <3>3, <3>4, CacheAssumption
      <4> HIDE DEF r
      <4> QED
        BY <4>1, <4>2, <1>3, <3>3 DEF AskerKnown
    <3> QED
      BY <3>2, <3>5 DEF CacheInv, AskersKnown
  <2> QED
    BY <2>1, <2>2
<1>5. AskersKnown'
  BY <1>2, <1>4 DEF CacheInv, AskersKnown
<1> QED
  BY <1>1, <1>5 DEF CacheInv

\* The steps of a thread between its calls of the cache: the others are as they were.
LEMMA ThreadStep ==
  ASSUME CacheInv, NEW t \in Asker, Fetch(t) \/ Copy(t) \/ Answered(t)
  PROVE  CacheInv'
<1>1. TitlesKnown' /\ EntriesKnown' /\ UNCHANGED <<title, held, propertyCache, clock, changes>>
  BY DEF CacheInv, TitlesKnown, EntriesKnown, Fetch, Copy, Answered
<1>2. \A b : AskerKnown(b) => AskerKnown(b)'
  BY <1>1 DEF AskerKnown, Asleep
<1>3. AskerKnown(ask[t]) /\ DOMAIN ask = Asker /\ \A u \in Asker : AskerKnown(ask[u])
  BY DEF CacheInv, AskersKnown
<1>4. AskerKnown(ask'[t]) /\ DOMAIN ask' = Asker /\ \A u \in Asker \ {t} : ask'[u] = ask[u]
  <2>1. CASE Fetch(t)
    <3> DEFINE r == [ask[t] EXCEPT !.at = "store", !.text = title[ask[t].win], !.read = clock]
    <3>1. ask[t].win \in XWin /\ ask[t].since \in Nat /\ ask[t].since <= clock
      BY <2>1, <1>3 DEF AskerKnown, Fetch
    <3>2. title[ask[t].win] \in 0..MaxTitles /\ held[ask[t].win][title[ask[t].win]] = clock /\ clock \in Nat
      BY <3>1 DEF CacheInv, TitlesKnown
    <3>3. /\ r \in [at : {"idle", "copy", "fetch", "store", "again", "answered"},
                    win : XWin \cup {Asleep.win}, text : {Torn, NoText} \cup 0..MaxTitles, since : Nat, read : Nat]
          /\ r.at = "store" /\ r.win = ask[t].win /\ r.text = title[ask[t].win] /\ r.since = ask[t].since
          /\ r.read = clock
      BY <1>3, <3>1, <3>2 DEF AskerKnown
    <3>4. ask' = [ask EXCEPT ![t] = r]
      BY <2>1 DEF Fetch
    <3> HIDE DEF r
    <3>5. AskerKnown(r)
      BY <3>1, <3>2, <3>3, CacheAssumption DEF AskerKnown
    <3> QED
      BY <1>3, <3>4, <3>5
  <2>2. CASE Copy(t)
    <3> DEFINE r == [ask[t] EXCEPT !.at = "answered"]
    <3>1. /\ r \in [at : {"idle", "copy", "fetch", "store", "again", "answered"},
                    win : XWin \cup {Asleep.win}, text : {Torn, NoText} \cup 0..MaxTitles, since : Nat, read : Nat]
          /\ r.at = "answered" /\ r.win = ask[t].win /\ r.text = ask[t].text /\ r.since = ask[t].since
      BY <1>3 DEF AskerKnown
    <3>2. ask' = [ask EXCEPT ![t] = r] /\ ask[t].at = "copy"
      BY <2>2 DEF Copy
    <3> HIDE DEF r
    <3>3. AskerKnown(r)
      BY <1>3, <3>1, <3>2 DEF AskerKnown
    <3> QED
      BY <1>3, <3>2, <3>3
  <2>3. CASE Answered(t)
    <3>1. AskerKnown([at |-> "idle", win |-> Asleep.win, text |-> NoText, since |-> 0, read |-> 0])
      BY DEF AskerKnown, NoText, Torn, CacheInv, TitlesKnown
    <3>2. Asleep = [at |-> "idle", win |-> Asleep.win, text |-> NoText, since |-> 0, read |-> 0]
      BY DEF Asleep
    <3>3. ask' = [ask EXCEPT ![t] = Asleep]
      BY <2>3 DEF Answered
    <3> HIDE DEF Asleep
    <3>4. AskerKnown(Asleep)
      BY <3>1, <3>2
    <3> QED
      BY <1>3, <3>3, <3>4
  <2> QED
    BY <2>1, <2>2, <2>3
<1>5. AskersKnown'
  BY <1>2, <1>3, <1>4 DEF AskersKnown
<1> QED
  BY <1>1, <1>5 DEF CacheInv

LEMMA GetStep ==
  ASSUME CacheInv, NEW t \in Asker, GetAgain(t) \/ \E w \in XWin : GetWindowText(t, w)
  PROVE  CacheInv'
<1>1. AskerKnown(ask[t]) /\ clock \in Nat
  BY DEF CacheInv, AskersKnown, TitlesKnown
<1>2. ASSUME NEW w \in XWin, GetWindowText(t, w) PROVE CacheInv'
  <2> DEFINE a == [ask[t] EXCEPT !.win = w, !.since = clock]
  <2>1. /\ a \in [at : {"idle", "again"}, win : XWin, text : {Torn, NoText} \cup 0..MaxTitles, since : Nat, read : Nat]
        /\ a.since <= clock
    <3>1. ask[t] \in [at : {"idle", "copy", "fetch", "store", "again", "answered"},
                      win : XWin \cup {Asleep.win}, text : {Torn, NoText} \cup 0..MaxTitles, since : Nat, read : Nat]
          /\ ask[t].at = "idle"
      BY <1>1, <1>2 DEF AskerKnown, GetWindowText
    <3>2. a.at = "idle" /\ a.win = w /\ a.text = ask[t].text /\ a.since = clock
          /\ a \in [at : {"idle", "again"}, win : XWin, text : {Torn, NoText} \cup 0..MaxTitles, since : Nat, read : Nat]
      BY <1>1, <3>1
    <3> QED
      BY <1>1, <3>2
  <2>2. Lookup(t, a, "fetch") /\ UNCHANGED <<title, held, propertyCache, clock, changes>>
    BY <1>2 DEF GetWindowText
  <2> HIDE DEF a
  <2> QED
    BY <2>1, <2>2, LookupStep
<1>3. CASE GetAgain(t)
  <2>1. /\ ask[t] \in [at : {"idle", "again"}, win : XWin, text : {Torn, NoText} \cup 0..MaxTitles, since : Nat, read : Nat]
        /\ ask[t].since <= clock /\ ask[t].text = NoText
    BY <1>1, <1>3 DEF AskerKnown, GetAgain
  <2>2. Lookup(t, ask[t], "answered") /\ UNCHANGED <<title, held, propertyCache, clock, changes>>
    BY <1>3 DEF GetAgain
  <2> QED
    BY <2>1, <2>2, LookupStep
<1> QED
  BY <1>2, <1>3

\* set makes room: what is dropped has expired, or is the oldest of those that have not.
LEMMA RoomMade ==
  ASSUME TitlesKnown, EntriesKnown, NEW kept \in MakeRoom(propertyCache)
  PROVE  /\ kept \subseteq propertyCache /\ IsFiniteSet(kept)
         /\ Cardinality(kept) \in Nat /\ Cardinality(kept) + 1 <= kMaxCacheEntries
         /\ \A e \in propertyCache \ kept : ~Expired(e) => \A d \in kept : e.stamp <= d.stamp
<1> DEFINE fresh == {e \in propertyCache : ~Expired(e)}
<1> USE CacheAssumption
<1>1. IsFiniteSet(propertyCache) /\ Cardinality(propertyCache) \in Nat /\ Cardinality(propertyCache) <= kMaxCacheEntries
  BY FS_CardinalityType DEF EntriesKnown
<1>2. IsFiniteSet(fresh) /\ Cardinality(fresh) \in Nat /\ Cardinality(fresh) <= kMaxCacheEntries
  <2>1. fresh \in SUBSET propertyCache
    OBVIOUS
  <2> HIDE DEF fresh
  <2> QED
    BY <1>1, <2>1, FS_Subset, FS_CardinalityType
<1>3. CASE Cardinality(propertyCache) < kMaxCacheEntries
  <2>1. kept = propertyCache
    BY <1>3 DEF MakeRoom
  <2> QED
    BY <1>1, <1>3, <2>1
<1>4. CASE ~(Cardinality(propertyCache) < kMaxCacheEntries) /\ Cardinality(fresh) < kMaxCacheEntries
  <2>1. kept = fresh
    BY <1>4 DEF MakeRoom
  <2> QED
    BY <1>2, <1>4, <2>1
<1>5. CASE ~(Cardinality(propertyCache) < kMaxCacheEntries) /\ ~(Cardinality(fresh) < kMaxCacheEntries)
  <2>1. PICK e \in fresh : kept = fresh \ {e} /\ \A y \in fresh : e.stamp <= y.stamp
    BY <1>5 DEF MakeRoom, Evict
  <2>2. IsFiniteSet(kept) /\ Cardinality(kept) = Cardinality(fresh) - 1 /\ Cardinality(kept) \in Nat
    <3> HIDE DEF fresh
    <3> QED
      BY <1>2, <2>1, FS_RemoveElement, FS_CardinalityType
  <2>3. \A x \in propertyCache \ kept : ~Expired(x) => x = e
    BY <2>1
  <2> QED
    BY <1>2, <2>1, <2>2, <2>3
<1> QED
  BY <1>3, <1>4, <1>5

\* A thread whose pointer is spoiled has no title to answer with.
LEMMA SpoiledKnown ==
  ASSUME AskersKnown, NEW new
  PROVE  /\ DOMAIN Spoiled(new) = Asker
         /\ \A u \in Asker : AskerKnown(Spoiled(new)[u]) /\ (ask[u].at # "copy" => Spoiled(new)[u] = ask[u])
<1>1. ASSUME NEW u \in Asker PROVE AskerKnown(Spoiled(new)[u]) /\ (ask[u].at # "copy" => Spoiled(new)[u] = ask[u])
  <2> DEFINE r == [ask[u] EXCEPT !.text = Torn]
  <2>1. AskerKnown(ask[u])
    BY DEF AskersKnown
  <2>2. Spoiled(new)[u] = ask[u] \/ (ask[u].at = "copy" /\ Spoiled(new)[u] = r)
    BY DEF Spoiled
  <2>3. ask[u].at = "copy" => AskerKnown(r)
    <3> SUFFICES ASSUME ask[u].at = "copy" PROVE AskerKnown(r)
      OBVIOUS
    <3>1. /\ r \in [at : {"idle", "copy", "fetch", "store", "again", "answered"},
                    win : XWin \cup {Asleep.win}, text : {Torn, NoText} \cup 0..MaxTitles, since : Nat, read : Nat]
          /\ r.at = "copy" /\ r.win = ask[u].win /\ r.text = Torn /\ r.since = ask[u].since
      BY <2>1 DEF AskerKnown
    <3> HIDE DEF r
    <3> QED
      BY <2>1, <3>1 DEF AskerKnown, Torn
  <2> QED
    BY <2>1, <2>2, <2>3
<1> QED
  BY <1>1 DEF Spoiled

LEMMA StoreStep ==
  ASSUME CacheInv, NEW t \in Asker, Store(t)
  PROVE  /\ CacheInv'
         /\ \A e \in propertyCache : (\A d \in propertyCache' : d.win # e.win) /\ ~Expired(e)
              => \A d \in propertyCache' : e.stamp <= d.stamp
<1> DEFINE n == [win |-> ask[t].win, text |-> ask[t].text, stamp |-> clock]
<1>1. PICK kept \in MakeRoom(propertyCache) :
        /\ propertyCache' = {e \in kept : e.win # ask[t].win} \cup {n}
        /\ ask' = [Spoiled(propertyCache') EXCEPT ![t].at = "again", ![t].text = NoText, ![t].read = 0]
  BY DEF Store
<1>2. UNCHANGED <<title, held, clock, changes>> /\ ask[t].at = "store"
  BY DEF Store
<1>3. AskerKnown(ask[t]) /\ ask[t].win \in XWin /\ ask[t].text \in 0..MaxTitles
      /\ clock \in 0..MaxTicks /\ held[ask[t].win][ask[t].text] >= clock - FetchTime
  <2>1. /\ AskerKnown(ask[t]) /\ ask[t].win \in XWin /\ ask[t].text \in 0..MaxTitles /\ ask[t].read \in Nat
        /\ held[ask[t].win][ask[t].text] >= ask[t].read /\ clock <= ask[t].read + FetchTime
        /\ clock \in 0..MaxTicks /\ held \in [XWin -> [0..MaxTitles -> 0..MaxTicks]]
    BY <1>2 DEF CacheInv, AskersKnown, AskerKnown, TitlesKnown
  <2>2. held[ask[t].win][ask[t].text] \in Nat
    BY <2>1, HeldSince
  <2> QED
    BY <2>1, <2>2, CacheAssumption DEF CacheInv, AskersKnown, AskerKnown, TitlesKnown
<1>4. /\ kept \subseteq propertyCache /\ IsFiniteSet(kept)
      /\ Cardinality(kept) \in Nat /\ Cardinality(kept) + 1 <= kMaxCacheEntries
      /\ \A e \in propertyCache \ kept : ~Expired(e) => \A d \in kept : e.stamp <= d.stamp
  BY RoomMade DEF CacheInv
<1>5. /\ n.win = ask[t].win /\ n.stamp = clock /\ n \in Entries /\ held[n.win][n.text] >= n.stamp - FetchTime
  BY <1>3, CacheAssumption DEF Entries
<1> HIDE DEF n
<1>6. TitlesKnown'
  BY <1>2 DEF CacheInv, TitlesKnown
<1>7. EntriesKnown'
  <2> DEFINE others == {e \in kept : e.win # ask[t].win}
  <2>1. IsFiniteSet(others) /\ Cardinality(others) \in Nat /\ Cardinality(others) <= Cardinality(kept)
    <3>1. others \in SUBSET kept
      OBVIOUS
    <3> HIDE DEF others
    <3> QED
      BY <1>4, <3>1, FS_Subset, FS_CardinalityType
  <2>2. IsFiniteSet(propertyCache') /\ Cardinality(propertyCache') <= kMaxCacheEntries
    <3>1. propertyCache' = others \cup {n}
      BY <1>1
    <3> HIDE DEF others
    <3>2. IsFiniteSet(others \cup {n}) /\ Cardinality(others \cup {n}) <= Cardinality(others) + 1
          /\ Cardinality(others \cup {n}) \in Nat
      <4>1. IsFiniteSet(others \cup {n})
        BY <2>1, FS_AddElement
      <4>2. Cardinality(others \cup {n}) = IF n \in others THEN Cardinality(others) ELSE Cardinality(others) + 1
        BY <2>1, FS_AddElement
      <4> QED
        BY <2>1, <4>1, <4>2
    <3> QED
      BY <1>4, <2>1, <3>1, <3>2, CacheAssumption
  <2>3. \A e \in others : e \in propertyCache /\ e.win # n.win
    BY <1>4, <1>5
  <2>4. propertyCache' = others \cup {n} 
    BY <1>1
  <2> HIDE DEF others
  <2>5. propertyCache' \subseteq Entries /\ \A d, e \in propertyCache' : d.win = e.win => d = e
    BY <1>5, <2>3, <2>4 DEF CacheInv, EntriesKnown
  <2>6. \A e \in propertyCache' : e.stamp <= clock /\ held[e.win][e.text] >= e.stamp - FetchTime
    BY <1>3, <1>5, <2>3, <2>4 DEF CacheInv, EntriesKnown
  <2> QED
    BY <1>2, <2>2, <2>5, <2>6 DEF EntriesKnown
<1>8. AskersKnown'
  <2> DEFINE s == Spoiled(propertyCache')
             r == [ask[t] EXCEPT !.at = "again", !.text = NoText, !.read = 0]
  <2>1. DOMAIN s = Asker /\ s[t] = ask[t] /\ \A u \in Asker : AskerKnown(s[u])
    BY <1>2, SpoiledKnown DEF CacheInv
  <2>2. \A b : AskerKnown(b) => AskerKnown(b)'
    BY <1>2 DEF AskerKnown, Asleep
  <2>3. AskerKnown(r)
    <3>1. /\ r \in [at : {"idle", "copy", "fetch", "store", "again", "answered"},
                    win : XWin \cup {Asleep.win}, text : {Torn, NoText} \cup 0..MaxTitles, since : Nat, read : Nat]
          /\ r.at = "again" /\ r.win = ask[t].win /\ r.text = NoText /\ r.since = ask[t].since
      BY <1>3 DEF AskerKnown
    <3> HIDE DEF r
    <3> QED
      BY <1>3, <3>1 DEF AskerKnown
  <2>4. DOMAIN ask' = Asker /\ ask'[t] = r /\ \A u \in Asker \ {t} : ask'[u] = s[u]
    <3>1. ask' = [s EXCEPT ![t].at = "again", ![t].text = NoText, ![t].read = 0]
      BY <1>1
    <3>2. s = [u \in Asker |-> s[u]]
      BY DEF Spoiled
    <3> HIDE DEF s
    <3> QED
      BY <2>1, <3>1, <3>2
  <2> HIDE DEF s, r
  <2> QED
    BY <2>1, <2>2, <2>3, <2>4 DEF AskersKnown
<1>9. ASSUME NEW e \in propertyCache, \A d \in propertyCache' : d.win # e.win, ~Expired(e), NEW d \in propertyCache'
      PROVE  e.stamp <= d.stamp
  <2>1. e \notin kept
    BY <1>1, <1>5, <1>9
  <2>2. CASE d = n
    BY <1>5, <2>2, <1>9 DEF CacheInv, EntriesKnown
  <2>3. CASE d \in kept
    BY <1>4, <1>9, <2>1, <2>3
  <2> QED
    BY <1>1, <2>2, <2>3
<1> QED
  BY <1>6, <1>7, <1>8, <1>9 DEF CacheInv

\* Titles and the clock change: what was held stays held, and later.
LEMMA TitleStep ==
  ASSUME CacheInv, NEW w \in XWin, SetTitle(w)
  PROVE  CacheInv'
<1> DEFINE h == [held[w] EXCEPT ![title[w]] = clock, ![title[w] + 1] = clock]
<1> USE CacheAssumption
<1>1. /\ title[w] \in 0..MaxTitles /\ title[w] <= changes /\ changes < MaxTitles /\ changes \in Nat
      /\ title[w] + 1 \in 0..MaxTitles /\ clock \in 0..MaxTicks
  BY DEF CacheInv, TitlesKnown, SetTitle
<1>2. /\ title' = [title EXCEPT ![w] = title[w] + 1] /\ changes' = changes + 1
      /\ held' = [held EXCEPT ![w] = h] /\ UNCHANGED <<propertyCache, clock, ask>>
  BY DEF SetTitle
<1>3. /\ held \in [XWin -> [0..MaxTitles -> 0..MaxTicks]] /\ held[w] \in [0..MaxTitles -> 0..MaxTicks]
      /\ \A v \in XWin : \A n \in 0..MaxTitles : held[v][n] <= clock
  BY DEF CacheInv, TitlesKnown
<1>4. /\ h \in [0..MaxTitles -> 0..MaxTicks] /\ h[title[w] + 1] = clock
      /\ \A n \in 0..MaxTitles : h[n] >= held[w][n] /\ h[n] <= clock
  <2>1. \A n \in 0..MaxTitles : h[n] = IF n = title[w] + 1 \/ n = title[w] THEN clock ELSE held[w][n]
    BY <1>1, <1>3
  <2>2. h \in [0..MaxTitles -> 0..MaxTicks]
    BY <1>1, <1>3
  <2>3. \A n \in 0..MaxTitles : held[w][n] \in 0..MaxTicks /\ held[w][n] <= clock
    BY <1>3
  <2> HIDE DEF h
  <2>4. \A n \in 0..MaxTitles : h[n] >= held[w][n] /\ h[n] <= clock
    BY <1>1, <2>1, <2>3
  <2> QED
    BY <1>1, <2>1, <2>2, <2>4
<1> HIDE DEF h
<1>5. /\ held' \in [XWin -> [0..MaxTitles -> 0..MaxTicks]]
      /\ \A v \in XWin : held'[v] = IF v = w THEN h ELSE held[v]
  BY <1>2, <1>3, <1>4
<1>6. \A v \in XWin : \A n \in 0..MaxTitles : held'[v][n] >= held[v][n] /\ held'[v][n] <= clock
  <2> TAKE v \in XWin
  <2> TAKE n \in 0..MaxTitles
  <2>1. held[v][n] \in Nat
    BY <1>3, HeldSince
  <2>2. CASE v = w
    BY <1>4, <1>5, <2>2
  <2>3. CASE v # w
    BY <1>3, <1>5, <2>1, <2>3
  <2> QED
    BY <2>2, <2>3
<1>7. TitlesKnown'
  <2>1. \A v \in XWin : title'[v] <= changes' /\ held'[v][title'[v]] = clock
    <3> TAKE v \in XWin
    <3>1. CASE v = w
      BY <1>1, <1>2, <1>4, <1>5, <3>1 DEF CacheInv, TitlesKnown
    <3>2. CASE v # w
      <4>1. title'[v] = title[v] /\ title[v] \in 0..MaxTitles /\ title[v] <= changes /\ held[v][title[v]] = clock
        BY <1>2, <3>2 DEF CacheInv, TitlesKnown
      <4> QED
        BY <1>1, <1>2, <1>5, <3>2, <4>1
    <3> QED
      BY <3>1, <3>2
  <2>2. title' \in [XWin -> 0..MaxTitles] /\ changes' \in 0..MaxTitles
    BY <1>1, <1>2 DEF CacheInv, TitlesKnown
  <2> QED
    BY <1>1, <1>2, <1>5, <1>6, <2>1, <2>2 DEF TitlesKnown
<1>8. EntriesKnown'
  <2>1. ASSUME NEW e \in propertyCache PROVE held'[e.win][e.text] >= e.stamp - FetchTime
    <3>1. e.win \in XWin /\ e.text \in 0..MaxTitles /\ e.stamp \in Nat /\ held[e.win][e.text] >= e.stamp - FetchTime
      BY DEF CacheInv, EntriesKnown, Entries
    <3>2. held[e.win][e.text] \in Nat /\ held'[e.win][e.text] \in Nat
      BY <1>3, <1>5, <3>1, HeldSince
    <3>3. held'[e.win][e.text] >= held[e.win][e.text]
      BY <1>6, <3>1
    <3> QED
      BY <3>1, <3>2, <3>3
  <2> QED
    BY <1>2, <2>1 DEF CacheInv, EntriesKnown
<1>9. AskersKnown'
  <2>1. ASSUME NEW b, AskerKnown(b) PROVE AskerKnown(b)'
    <3>1. clock' \in 0..MaxTicks /\ clock' = clock /\ clock' >= clock /\ (b.at = "store" => clock' <= b.read + FetchTime)
      BY <1>1, <1>2, <2>1 DEF AskerKnown
    <3> QED
      BY <1>5, <1>6, <2>1, <3>1, AskerKeeps DEF CacheInv
  <2> QED
    BY <1>2, <2>1 DEF CacheInv, AskersKnown
<1> QED
  BY <1>7, <1>8, <1>9 DEF CacheInv

LEMMA TickStep ==
  ASSUME CacheInv, Tick
  PROVE  CacheInv'
<1> USE CacheAssumption
<1>1. /\ clock \in 0..MaxTicks /\ clock' = clock + 1 /\ clock' \in 0..MaxTicks
      /\ UNCHANGED <<title, propertyCache, ask, changes>> /\ \A t \in Asker : ask[t].at = "store" => clock < ask[t].read + FetchTime
      /\ held' = [w \in XWin |-> [held[w] EXCEPT ![title[w]] = clock + 1]]
  BY DEF CacheInv, TitlesKnown, Tick
<1>2. /\ held \in [XWin -> [0..MaxTitles -> 0..MaxTicks]] /\ title \in [XWin -> 0..MaxTitles]
      /\ \A v \in XWin : \A n \in 0..MaxTitles : held[v][n] <= clock
  BY DEF CacheInv, TitlesKnown
<1>3. ASSUME NEW v \in XWin
      PROVE  /\ held'[v] \in [0..MaxTitles -> 0..MaxTicks] /\ held'[v][title[v]] = clock'
             /\ \A n \in 0..MaxTitles : held'[v][n] >= held[v][n] /\ held'[v][n] <= clock'
  <2>1. title[v] \in 0..MaxTitles /\ held[v] \in [0..MaxTitles -> 0..MaxTicks]
    BY <1>2
  <2>2. held'[v] = [held[v] EXCEPT ![title[v]] = clock']
    BY <1>1
  <2>3. ASSUME NEW n \in 0..MaxTitles PROVE held'[v][n] >= held[v][n] /\ held'[v][n] <= clock'
    <3>1. held'[v][n] = (IF n = title[v] THEN clock' ELSE held[v][n]) /\ held[v][n] \in Nat
      BY <2>1, <2>2
    <3> QED
      BY <1>1, <1>2, <3>1
  <2> QED
    BY <1>1, <2>1, <2>2, <2>3
<1>4. held' \in [XWin -> [0..MaxTitles -> 0..MaxTicks]]
  BY <1>1, <1>3
<1>5. TitlesKnown'
  BY <1>1, <1>3, <1>4 DEF CacheInv, TitlesKnown
<1>6. EntriesKnown'
  <2>1. ASSUME NEW e \in propertyCache PROVE held'[e.win][e.text] >= e.stamp - FetchTime /\ e.stamp <= clock'
    <3>1. e.win \in XWin /\ e.text \in 0..MaxTitles /\ e.stamp \in Nat /\ held[e.win][e.text] >= e.stamp - FetchTime
          /\ e.stamp <= clock
      BY DEF CacheInv, EntriesKnown, Entries
    <3>2. held[e.win][e.text] \in Nat /\ held'[e.win][e.text] \in Nat
      BY <1>2, <1>4, <3>1, HeldSince
    <3> QED
      BY <1>1, <1>3, <3>1, <3>2
  <2> QED
    BY <1>1, <2>1 DEF CacheInv, EntriesKnown
<1>7. AskersKnown'
  <2>1. ASSUME NEW b, AskerKnown(b), b.at = "store" => clock < b.read + FetchTime PROVE AskerKnown(b)'
    <3>1. clock' >= clock /\ (b.at = "store" => clock' <= b.read + FetchTime)
      BY <1>1, <2>1 DEF AskerKnown
    <3> QED
      BY <1>1, <1>3, <1>4, <2>1, <3>1, AskerKeeps DEF CacheInv
  <2> QED
    BY <1>1, <2>1 DEF CacheInv, AskersKnown
<1> QED
  BY <1>5, <1>6, <1>7 DEF CacheInv

LEMMA CacheStep == CacheInv /\ [CacheNext]_cacheVars => CacheInv'
<1> SUFFICES ASSUME CacheInv, [CacheNext]_cacheVars PROVE CacheInv'
  OBVIOUS
<1>1. CASE CacheNext
  BY <1>1, ThreadStep, GetStep, StoreStep, TitleStep, TickStep DEF CacheNext
<1>2. CASE UNCHANGED cacheVars
  BY <1>2 DEF cacheVars, CacheInv, TitlesKnown, EntriesKnown, AskersKnown, AskerKnown, Asleep
<1> QED
  BY <1>1, <1>2

LEMMA CacheFacts == CacheInv => CacheTypeOK /\ AnswerRecent
<1> SUFFICES ASSUME CacheInv PROVE CacheTypeOK /\ AnswerRecent
  OBVIOUS
<1>1. CacheTypeOK
  BY DEF CacheInv, TitlesKnown, EntriesKnown, AskersKnown, AskerKnown, Entries, CacheTypeOK
<1>2. AnswerRecent
  BY DEF CacheInv, AskersKnown, AskerKnown, AnswerRecent
<1> QED
  BY <1>1, <1>2

\* Only a store drops entries.
LEMMA EvictsAnOldest ==
  ASSUME CacheInv, [CacheNext]_cacheVars
  PROVE  [\A e \in propertyCache : (\A d \in propertyCache' : d.win # e.win) /\ ~Expired(e)
            => \A d \in propertyCache' : e.stamp <= d.stamp]_cacheVars
<1> DEFINE Drops == \A e \in propertyCache : (\A d \in propertyCache' : d.win # e.win) /\ ~Expired(e)
                      => \A d \in propertyCache' : e.stamp <= d.stamp
<1>1. UNCHANGED propertyCache => Drops
  OBVIOUS
<1>2. ASSUME NEW t \in Asker, Store(t) PROVE Drops
  BY <1>2, StoreStep
<1>3. ASSUME \/ \E t \in Asker : Fetch(t) \/ GetAgain(t) \/ Copy(t) \/ Answered(t) \/ \E w \in XWin : GetWindowText(t, w)
             \/ (\E w \in XWin : SetTitle(w)) \/ Tick
      PROVE  UNCHANGED propertyCache
  BY <1>3 DEF Fetch, GetAgain, Copy, Answered, GetWindowText, SetTitle, Tick
<1> HIDE DEF Drops
<1>4. CASE CacheNext
  <2>1. Drops
    BY <1>1, <1>2, <1>3, <1>4 DEF CacheNext
  <2> QED
    BY <2>1 DEF Drops
<1>5. CASE UNCHANGED cacheVars
  BY <1>5
<1> QED
  BY <1>4, <1>5

\* What the engine asks about windows is answered as it is, or was no longer than kCacheTimeout and FetchTime before
\* it asked, for any number of threads, windows and monitors, changes and ticks; a full cache drops an oldest
\* entry; the climb ends at a window and a point is on the monitor found for it.
THEOREM WindowsAreFound == ServicesSpec => WindowsFound
<1>1. ServicesInit => CacheInv /\ TreeInv
  BY CacheBegin, TreeBegin DEF ServicesInit
<1>2. CacheInv /\ TreeInv /\ [ServicesNext]_servicesVars => CacheInv' /\ TreeInv'
  BY OnePart, CacheStep, TreeStep
<1>3. CacheInv /\ TreeInv => CacheTypeOK /\ AnswerRecent /\ TreeTypeOK /\ ToplevelIsWindow /\ PointOnMonitor
  BY CacheFacts, TreeFacts
<1>4. CacheInv /\ [ServicesNext]_servicesVars
        => [\A e \in propertyCache : (\A d \in propertyCache' : d.win # e.win) /\ ~Expired(e)
              => \A d \in propertyCache' : e.stamp <= d.stamp]_cacheVars
  BY OnePart, EvictsAnOldest
<1> QED
  BY <1>1, <1>2, <1>3, <1>4, PTL DEF ServicesSpec, WindowsFound, EvictsOldest

(* ------------------------------ The end of a list ------------------------------ *)

\* s ends with t.
EndsWith(s, t) == Len(t) <= Len(s) /\ \A k \in 1..Len(t) : t[k] = s[Len(s) - Len(t) + k]

LEMMA EndsTransitive ==
  ASSUME NEW S, NEW r \in Seq(S), NEW s \in Seq(S), NEW t \in Seq(S), EndsWith(r, s), EndsWith(s, t)
  PROVE  EndsWith(r, t)
<1>1. Len(r) \in Nat /\ Len(s) \in Nat /\ Len(t) \in Nat
  OBVIOUS
<1>2. ASSUME NEW k \in 1..Len(t) PROVE t[k] = r[Len(r) - Len(t) + k]
  <2>1. Len(s) - Len(t) + k \in 1..Len(s) /\ t[k] = s[Len(s) - Len(t) + k]
    BY <1>1 DEF EndsWith
  <2>2. s[Len(s) - Len(t) + k] = r[Len(r) - Len(s) + (Len(s) - Len(t) + k)]
    BY <2>1 DEF EndsWith
  <2>3. Len(r) - Len(s) + (Len(s) - Len(t) + k) = Len(r) - Len(t) + k
    BY <1>1
  <2> QED
    BY <2>1, <2>2, <2>3
<1> QED
  BY <1>1, <1>2 DEF EndsWith

LEMMA EndsAppend ==
  ASSUME NEW S, NEW s \in Seq(S), NEW t \in Seq(S), NEW x \in S, EndsWith(s, t)
  PROVE  EndsWith(Append(s, x), Append(t, x))
<1>1. /\ Len(s) \in Nat /\ Len(t) \in Nat /\ Len(t) <= Len(s)
      /\ Len(Append(s, x)) = Len(s) + 1 /\ Len(Append(t, x)) = Len(t) + 1
      /\ \A k \in 1..Len(s) : Append(s, x)[k] = s[k]
      /\ \A k \in 1..Len(t) : Append(t, x)[k] = t[k]
      /\ Append(s, x)[Len(s) + 1] = x /\ Append(t, x)[Len(t) + 1] = x
  BY DEF EndsWith
<1>2. ASSUME NEW k \in 1..Len(t) + 1
      PROVE  Append(t, x)[k] = Append(s, x)[(Len(s) + 1) - (Len(t) + 1) + k]
  <2>1. (Len(s) + 1) - (Len(t) + 1) + k = Len(s) - Len(t) + k
    BY <1>1
  <2>2. CASE k = Len(t) + 1
    <3>1. Len(s) - Len(t) + k = Len(s) + 1
      BY <1>1, <2>2
    <3> QED
      BY <1>1, <2>1, <2>2, <3>1
  <2>3. CASE k \in 1..Len(t)
    <3>1. Len(s) - Len(t) + k \in 1..Len(s)
      BY <1>1, <2>3
    <3>2. t[k] = s[Len(s) - Len(t) + k]
      BY <2>3 DEF EndsWith
    <3> QED
      BY <1>1, <2>1, <2>3, <3>1, <3>2
  <2> QED
    BY <1>1, <2>2, <2>3
<1> DEFINE a == Append(s, x)
           b == Append(t, x)
<1>3. Len(a) = Len(s) + 1 /\ Len(b) = Len(t) + 1 /\ Len(b) <= Len(a)
  BY <1>1
<1>4. \A k \in 1..Len(b) : b[k] = a[Len(a) - Len(b) + k]
  BY <1>2, <1>3
<1> HIDE DEF a, b
<1>5. EndsWith(a, b)
  BY <1>3, <1>4 DEF EndsWith
<1> QED
  BY <1>5 DEF a, b

LEMMA EndsUnique ==
  ASSUME NEW S, NEW s \in Seq(S), NEW t \in Seq(S), NEW u \in Seq(S),
         EndsWith(s, t), EndsWith(s, u), Len(t) = Len(u)
  PROVE  t = u
<1>1. \A k \in 1..Len(t) : t[k] = u[k]
  BY DEF EndsWith
<1> QED
  BY <1>1, SeqEqual

LEMMA EndsSelf ==
  ASSUME NEW S, NEW s \in Seq(S)
  PROVE  EndsWith(s, s) /\ EndsWith(s, <<>>) /\ (EndsWith(s, <<>>) /\ Len(<<>>) = 0)
BY DEF EndsWith

LEMMA EndsConcat ==
  ASSUME NEW S, NEW s \in Seq(S), NEW t \in Seq(S)
  PROVE  EndsWith(s \o t, t)
<1>1. /\ Len(s \o t) = Len(s) + Len(t) /\ Len(s) \in Nat /\ Len(t) \in Nat
      /\ \A i \in 1..Len(s) + Len(t) : (s \o t)[i] = IF i <= Len(s) THEN s[i] ELSE t[i - Len(s)]
  BY ConcatProperties
<1>2. ASSUME NEW k \in 1..Len(t) PROVE t[k] = (s \o t)[Len(s \o t) - Len(t) + k]
  <2>1. Len(s \o t) - Len(t) + k = Len(s) + k /\ Len(s) + k \in 1..Len(s) + Len(t)
        /\ ~(Len(s) + k <= Len(s)) /\ (Len(s) + k) - Len(s) = k
    BY <1>1
  <2> QED
    BY <1>1, <2>1
<1> QED
  BY <1>1, <1>2 DEF EndsWith

\* The end that starts after place m.
LEMMA EndsSub ==
  ASSUME NEW S, NEW s \in Seq(S), NEW m \in 0..Len(s)
  PROVE  /\ SubSeq(s, m + 1, Len(s)) \in Seq(S) /\ Len(SubSeq(s, m + 1, Len(s))) = Len(s) - m
         /\ EndsWith(s, SubSeq(s, m + 1, Len(s)))
<1> DEFINE t == SubSeq(s, m + 1, Len(s))
<1>1. Len(s) \in Nat /\ m + 1 \in Int /\ \A i \in m + 1..Len(s) : s[i] \in S
  OBVIOUS
<1>2. /\ t \in Seq(S) /\ Len(t) = (IF m + 1 <= Len(s) THEN Len(s) - (m + 1) + 1 ELSE 0)
      /\ \A i \in 1..Len(s) - (m + 1) + 1 : t[i] = s[m + 1 + i - 1]
  BY <1>1, SubSeqProperties
<1>3. Len(t) = Len(s) - m
  BY <1>1, <1>2
<1> HIDE DEF t
<1>4. ASSUME NEW k \in 1..Len(t) PROVE t[k] = s[Len(s) - Len(t) + k]
  <2>1. k \in 1..Len(s) - (m + 1) + 1 /\ m + 1 + k - 1 = Len(s) - Len(t) + k
    BY <1>1, <1>3
  <2> QED
    BY <1>2, <2>1
<1>5. EndsWith(s, t)
  BY <1>1, <1>3, <1>4 DEF EndsWith
<1> QED
  BY <1>2, <1>3, <1>5 DEF t

LEMMA LastOfEnds ==
  ASSUME NEW S, NEW s \in Seq(S), NEW n \in Nat
  PROVE  /\ LastOf(s, n) \in Seq(S) /\ EndsWith(s, LastOf(s, n))
         /\ Len(LastOf(s, n)) = IF Len(s) > n THEN n ELSE Len(s)
<1>1. CASE Len(s) > n
  <2> DEFINE m == Len(s) - n
  <2>1. m \in 0..Len(s) /\ m + 1 = Len(s) - n + 1 /\ Len(s) - m = n
    BY <1>1
  <2>2. LastOf(s, n) = SubSeq(s, m + 1, Len(s))
    BY <1>1, <2>1 DEF LastOf
  <2> HIDE DEF m
  <2> QED
    BY <1>1, <2>1, <2>2, EndsSub
<1>2. CASE ~(Len(s) > n)
  BY <1>2, EndsSelf DEF LastOf
<1> QED
  BY <1>1, <1>2

\* The last ones of s are those of any end of s that has enough of them.
LEMMA LastOfEnd ==
  ASSUME NEW S, NEW s \in Seq(S), NEW t \in Seq(S), NEW n \in Nat, EndsWith(s, t), Len(t) = Len(s) \/ Len(t) >= n
  PROVE  LastOf(s, n) = LastOf(t, n)
<1>1. /\ LastOf(s, n) \in Seq(S) /\ EndsWith(s, LastOf(s, n))
      /\ Len(LastOf(s, n)) = IF Len(s) > n THEN n ELSE Len(s)
  BY LastOfEnds
<1>2. /\ LastOf(t, n) \in Seq(S) /\ EndsWith(t, LastOf(t, n))
      /\ Len(LastOf(t, n)) = IF Len(t) > n THEN n ELSE Len(t)
  BY LastOfEnds
<1>3. EndsWith(s, LastOf(t, n))
  BY <1>2, EndsTransitive
<1>4. Len(LastOf(s, n)) = Len(LastOf(t, n))
  BY <1>1, <1>2 DEF EndsWith
<1> QED
  BY <1>1, <1>2, <1>3, <1>4, EndsUnique

\* A function on 1..n is a sequence of length n.
LEMMA ListIs ==
  ASSUME NEW S, NEW n \in Nat, NEW f \in [1..n -> S]
  PROVE  f \in Seq(S) /\ Len(f) = n
<1>1. f \in Seq(S)
  BY SeqDef
<1>2. DOMAIN f = 1..n /\ DOMAIN f = 1..Len(f) /\ Len(f) \in Nat
  BY <1>1, LenProperties
<1> QED
  BY <1>1, <1>2

\* An element more at the end, or in between.
LEMMA AppendMore ==
  ASSUME NEW S, NEW s \in Seq(S), NEW t \in Seq(S), NEW x \in S
  PROVE  s \o Append(t, x) = Append(s \o t, x)
<1>1. <<x>> \in Seq(S) /\ s \o t \in Seq(S)
  BY ConcatProperties
<1>2. Append(t, x) = t \o <<x>> /\ Append(s \o t, x) = (s \o t) \o <<x>>
  BY <1>1, AppendIsConcat
<1> QED
  BY <1>1, <1>2, ConcatAssociative

LEMMA AppendBetween ==
  ASSUME NEW S, NEW s \in Seq(S), NEW t \in Seq(S), NEW x \in S
  PROVE  Append(s, x) \o t = s \o (<<x>> \o t)
<1>1. <<x>> \in Seq(S)
  OBVIOUS
<1>2. Append(s, x) = s \o <<x>>
  BY AppendIsConcat
<1> QED
  BY <1>1, <1>2, ConcatAssociative

(* ------------------------------ The notifications ------------------------------ *)

Added == {<<"added", m>> : m \in Notice}
Signals == Added \cup {<<"cleared">>}

\* What the signals after place i say was added, and the list they lead to.
News(s, i) == [j \in 1..Len(s) - i |-> s[i + j][2]]
Coming(old, s, i) == (IF i = 0 THEN old ELSE <<>>) \o News(s, i)

\* The signals that wait make a list that ends with p: after the last that clears it, if there is one.
Leads(old, s, i, p) ==
  /\ i \in 0..Len(s) /\ (i # 0 => s[i] = <<"cleared">>)
  /\ \A j \in i+1..Len(s) : s[j] \in Added
  /\ EndsWith(Coming(old, s, i), p) /\ (p = <<>> => Coming(old, s, i) = <<>>)
LeadsTo(old, s, p) == \E i \in 0..Len(s) : Leads(old, s, i, p)

PastKnown ==
  /\ past \in Seq(Notice) /\ received \in Seq(Notice) /\ pastMax \in 1..kSizeLimit
  /\ HistoryFaithful
ViewerKnown ==
  /\ viewer \in [open : BOOLEAN, list : Seq(Notice), signals : Seq(Signals)]
  /\ viewer.open => LeadsTo(viewer.list, viewer.signals, past)
  /\ ~viewer.open => viewer.signals = <<>>

HistoryInv == PastKnown /\ ViewerKnown

LEMMA ComingType ==
  ASSUME NEW old \in Seq(Notice), NEW s \in Seq(Signals), NEW i \in 0..Len(s),
         \A j \in i+1..Len(s) : s[j] \in Added
  PROVE  News(s, i) \in Seq(Notice) /\ Len(News(s, i)) = Len(s) - i /\ Coming(old, s, i) \in Seq(Notice)
<1> DEFINE n == Len(s) - i
<1>1. n \in Nat /\ Len(s) \in Nat
  OBVIOUS
<1>2. ASSUME NEW j \in 1..n PROVE s[i + j][2] \in Notice
  <2>1. s[i + j] \in Added
    BY <1>1
  <2> QED
    BY <2>1 DEF Added
<1>3. News(s, i) \in Seq(Notice) /\ Len(News(s, i)) = n
  <2>1. News(s, i) = [j \in 1..n |-> s[i + j][2]]
    BY DEF News
  <2> HIDE DEF n
  <2>2. [j \in 1..n |-> s[i + j][2]] \in [1..n -> Notice]
    BY <1>2
  <2> QED
    BY <1>1, <2>1, <2>2, ListIs
<1> QED
  BY <1>3, ConcatProperties DEF Coming

\* One more signal.
LEMMA NewsMore ==
  ASSUME NEW old \in Seq(Notice), NEW s \in Seq(Signals), NEW i \in 0..Len(s), NEW m \in Notice,
         \A j \in i+1..Len(s) : s[j] \in Added
  PROVE  Coming(old, Append(s, <<"added", m>>), i) = Append(Coming(old, s, i), m)
<1> DEFINE t == Append(s, <<"added", m>>)
           base == IF i = 0 THEN old ELSE <<>>
<1>1. /\ t \in Seq(Signals) /\ Len(t) = Len(s) + 1 /\ Len(s) \in Nat /\ i \in 0..Len(t)
      /\ \A j \in 1..Len(s) : t[j] = s[j]
      /\ t[Len(s) + 1] = <<"added", m>> /\ t[Len(s) + 1] \in Added
  BY DEF Signals, Added
<1>2. t[Len(s) + 1][2] = m
  BY <1>1
<1> HIDE DEF t
<1>3. ASSUME NEW j \in i+1..Len(t) PROVE t[j] \in Added
  <2>1. j = Len(s) + 1 \/ (j \in i+1..Len(s) /\ j \in 1..Len(s))
    BY <1>1
  <2> QED
    BY <1>1, <2>1
<1>4. News(s, i) \in Seq(Notice) /\ Len(News(s, i)) = Len(s) - i /\ News(t, i) \in Seq(Notice) /\ Len(News(t, i)) = Len(s) - i + 1
  <2>1. News(s, i) \in Seq(Notice) /\ Len(News(s, i)) = Len(s) - i
    BY ComingType
  <2>2. News(t, i) \in Seq(Notice) /\ Len(News(t, i)) = Len(t) - i
    BY <1>1, <1>3, ComingType
  <2> QED
    BY <1>1, <2>1, <2>2
<1>5. News(t, i) = Append(News(s, i), m)
  <2> DEFINE u == Append(News(s, i), m)
  <2>1. /\ u \in Seq(Notice) /\ Len(u) = Len(s) - i + 1
        /\ \A j \in 1..Len(s) - i : u[j] = News(s, i)[j]
        /\ u[Len(s) - i + 1] = m
    BY <1>4
  <2> HIDE DEF u
  <2>2. ASSUME NEW j \in 1..Len(News(t, i)) PROVE News(t, i)[j] = u[j]
    <3>1. News(t, i)[j] = t[i + j][2]
      BY <1>1, <1>4 DEF News
    <3>2. CASE j = Len(s) - i + 1
      <4>1. i + j = Len(s) + 1
        BY <1>1, <3>2
      <4> QED
        BY <1>2, <2>1, <3>1, <3>2, <4>1
    <3>3. CASE j \in 1..Len(s) - i
      <4>1. i + j \in 1..Len(s)
        BY <1>1, <3>3
      <4>2. News(s, i)[j] = s[i + j][2]
        BY <3>3 DEF News
      <4> QED
        BY <1>1, <2>1, <3>1, <3>3, <4>1, <4>2
    <3> QED
      BY <1>1, <1>4, <3>2, <3>3
  <2>3. News(t, i) = u
    BY <1>4, <2>1, <2>2, SeqEqual
  <2> QED
    BY <2>3 DEF u
<1>6. base \in Seq(Notice) /\ base \o Append(News(s, i), m) = Append(base \o News(s, i), m)
  <2>1. base \in Seq(Notice)
    OBVIOUS
  <2>2. News(s, i) \in Seq(Notice) /\ m \in Notice
    BY <1>4
  <2> HIDE DEF base
  <2> QED
    BY <2>1, <2>2, AppendMore, SMTT(30)
<1> QED
  BY <1>5, <1>6 DEF Coming, t

LEMMA LeadsMore ==
  ASSUME NEW old \in Seq(Notice), NEW s \in Seq(Signals), NEW m \in Notice, NEW p \in Seq(Notice), NEW q \in Seq(Notice),
         LeadsTo(old, s, p), q # <<>>, EndsWith(Append(p, m), q)
  PROVE  LeadsTo(old, Append(s, <<"added", m>>), q)
<1> DEFINE t == Append(s, <<"added", m>>)
<1>1. PICK i \in 0..Len(s) : Leads(old, s, i, p)
  BY DEF LeadsTo
<1>2. /\ Len(t) = Len(s) + 1 /\ Len(s) \in Nat /\ \A j \in 1..Len(s) : t[j] = s[j]
      /\ t[Len(s) + 1] \in Added
  BY DEF Added
<1>3. Coming(old, t, i) = Append(Coming(old, s, i), m) /\ Coming(old, s, i) \in Seq(Notice)
  BY <1>1, NewsMore, ComingType DEF Leads
<1>4. EndsWith(Coming(old, t, i), q)
  <2>1. EndsWith(Append(Coming(old, s, i), m), Append(p, m))
    BY <1>1, <1>3, EndsAppend DEF Leads
  <2>2. Append(Coming(old, s, i), m) \in Seq(Notice) /\ Append(p, m) \in Seq(Notice)
    BY <1>3
  <2> QED
    BY <1>3, <2>1, <2>2, EndsTransitive
<1> HIDE DEF t
<1>5. i \in 0..Len(t) /\ (i # 0 => t[i] = <<"cleared">>) /\ \A j \in i+1..Len(t) : t[j] \in Added
  <2>1. i \in 0..Len(t) /\ (i # 0 => t[i] = s[i] /\ s[i] = <<"cleared">>)
    BY <1>1, <1>2 DEF Leads
  <2>2. ASSUME NEW j \in i+1..Len(t) PROVE t[j] \in Added
    <3>1. j = Len(s) + 1 \/ (j \in i+1..Len(s) /\ j \in 1..Len(s))
      BY <1>2
    <3> QED
      BY <1>1, <1>2, <3>1 DEF Leads
  <2> QED
    BY <2>1, <2>2
<1>6. LeadsTo(old, t, q)
  BY <1>4, <1>5 DEF Leads, LeadsTo
<1> QED
  BY <1>6 DEF t

LEMMA LeadsCleared ==
  ASSUME NEW old \in Seq(Notice), NEW s \in Seq(Signals)
  PROVE  LeadsTo(old, Append(s, <<"cleared">>), <<>>) /\ Append(s, <<"cleared">>) \in Seq(Signals)
<1> DEFINE t == Append(s, <<"cleared">>)
           i == Len(s) + 1
<1>1. /\ t \in Seq(Signals) /\ Len(t) = i /\ Len(s) \in Nat /\ t[i] = <<"cleared">> /\ i # 0 /\ i \in 0..Len(t)
  BY DEF Signals
<1> HIDE DEF t, i
<1>2. Len(t) - i = 0 /\ i+1..Len(t) = {}
  BY <1>1 DEF i
<1>3. Coming(old, t, i) \in Seq(Notice) /\ Len(News(t, i)) = 0 /\ News(t, i) \in Seq(Notice)
  BY <1>1, <1>2, ComingType
<1>4. Coming(old, t, i) = <<>>
  BY <1>1, <1>3 DEF Coming
<1>5. EndsWith(<<>>, <<>>)
  BY EndsSelf DEF EndsWith
<1> QED
  BY <1>1, <1>2, <1>4, <1>5 DEF LeadsTo, Leads, t

\* A signal is handled: the list comes nearer to what it will be.
LEMMA LeadsNext ==
  ASSUME NEW old \in Seq(Notice), NEW s \in Seq(Signals), s # <<>>, NEW p \in Seq(Notice), LeadsTo(old, s, p),
         NEW new, new = (IF Head(s)[1] = "added" THEN Append(old, Head(s)[2]) ELSE <<>>)
  PROVE  new \in Seq(Notice) /\ LeadsTo(new, Tail(s), p)
<1> DEFINE t == Tail(s)
<1>1. /\ t \in Seq(Signals) /\ Len(t) = Len(s) - 1 /\ Len(s) \in Nat \ {0} /\ Len(t) \in Nat
      /\ \A j \in 1..Len(t) : t[j] = s[j + 1]
      /\ Head(s) = s[1] /\ s[1] \in Signals
  BY HeadTailProperties
<1> HIDE DEF t
<1>2. PICK i \in 0..Len(s) : Leads(old, s, i, p)
  BY DEF LeadsTo
<1>3. \A m : <<"added", m>>[1] = "added" /\ <<"added", m>>[2] = m
  OBVIOUS
<1>4. <<"cleared">>[1] # "added"
  OBVIOUS
<1>5. new \in Seq(Notice)
  <2>1. CASE s[1] \in Added
    <3>1. PICK m \in Notice : s[1] = <<"added", m>>
      BY <2>1 DEF Added
    <3> QED
      BY <1>1, <1>3, <3>1
  <2>2. CASE s[1] = <<"cleared">>
    BY <1>1, <1>4, <2>2
  <2> QED
    BY <1>1, <2>1, <2>2 DEF Signals
<1>6. CASE i = 0
  <2>1. PICK m \in Notice : s[1] = <<"added", m>>
    BY <1>1, <1>2, <1>6 DEF Leads, Added
  <2>2. new = Append(old, m)
    BY <1>1, <1>3, <2>1
  <2>3. \A j \in 0+1..Len(s) : s[j] \in Added
    BY <1>2, <1>6 DEF Leads
  <2>4. \A j \in 0+1..Len(t) : t[j] \in Added
    BY <1>1, <2>3
  <2>5. /\ News(s, 0) \in Seq(Notice) /\ Len(News(s, 0)) = Len(s) /\ 0 \in 0..Len(t) /\ 0 \in 0..Len(s)
        /\ News(t, 0) \in Seq(Notice) /\ Len(News(t, 0)) = Len(s) - 1
    <3>1. 0 \in 0..Len(t) /\ 0 \in 0..Len(s) /\ Len(s) - 0 = Len(s) /\ Len(t) - 0 = Len(s) - 1
      BY <1>1
    <3>2. News(s, 0) \in Seq(Notice) /\ Len(News(s, 0)) = Len(s) - 0
      BY <2>3, <3>1, ComingType
    <3>3. News(t, 0) \in Seq(Notice) /\ Len(News(t, 0)) = Len(t) - 0
      BY <1>1, <2>4, <3>1, ComingType
    <3> QED
      BY <3>1, <3>2, <3>3
  <2>6. News(s, 0) = <<m>> \o News(t, 0)
    <3> DEFINE u == <<m>> \o News(t, 0)
    <3>1. <<m>> \in Seq(Notice) /\ Len(<<m>>) = 1 /\ <<m>>[1] = m
      OBVIOUS
    <3>2. u \in Seq(Notice) /\ Len(u) = 1 + (Len(s) - 1) /\ \A j \in 1..1 + (Len(s) - 1) : u[j] = IF j <= 1 THEN m ELSE News(t, 0)[j - 1]
      BY <2>5, <3>1, ConcatProperties
    <3> HIDE DEF u
    <3>3. ASSUME NEW j \in 1..Len(News(s, 0)) PROVE News(s, 0)[j] = u[j]
      <4>1. News(s, 0)[j] = s[j][2] /\ j \in 1..Len(s)
        BY <1>1, <2>5 DEF News
      <4>2. CASE j = 1
        BY <1>1, <1>3, <2>1, <3>2, <4>1, <4>2
      <4>3. CASE j # 1
        <5>1. j - 1 \in 1..Len(t) /\ News(t, 0)[j - 1] = t[j - 1][2] /\ t[j - 1] = s[j]
          BY <1>1, <4>1, <4>3 DEF News
        <5> QED
          BY <1>1, <3>2, <4>1, <4>3, <5>1
      <4> QED
        BY <4>2, <4>3
    <3>4. News(s, 0) = u
      BY <1>1, <2>5, <3>2, <3>3, SeqEqual
    <3> QED
      BY <3>4 DEF u
  <2>7. Coming(new, t, 0) = Coming(old, s, 0)
    <3>1. Append(old, m) \o News(t, 0) = old \o (<<m>> \o News(t, 0))
      <4>1. old \in Seq(Notice) /\ News(t, 0) \in Seq(Notice) /\ m \in Notice
        BY <2>5
      <4> QED
        BY <4>1, AppendBetween, SMTT(30)
    <3> QED
      BY <2>2, <2>6, <3>1 DEF Coming
  <2> QED
    BY <1>2, <1>5, <1>6, <2>4, <2>5, <2>7 DEF Leads, LeadsTo, t
<1>7. CASE i # 0
  <2> DEFINE h == i - 1
  <2>1. h \in 0..Len(t) /\ (h # 0 => t[h] = <<"cleared">>) /\ Len(t) - h = Len(s) - i
    <3>1. h \in 0..Len(t) /\ Len(t) - h = Len(s) - i /\ (h # 0 => h \in 1..Len(t) /\ h + 1 = i)
      BY <1>1, <1>7
    <3>2. s[i] = <<"cleared">>
      BY <1>2, <1>7 DEF Leads
    <3> HIDE DEF h
    <3> QED
      BY <1>1, <3>1, <3>2
  <2>2. \A j \in h+1..Len(t) : t[j] \in Added /\ t[j] = s[j + 1]
    <3> TAKE j \in h+1..Len(t)
    <3>1. j \in 1..Len(t) /\ j + 1 \in i+1..Len(s)
      BY <1>1, <1>7
    <3> QED
      BY <1>1, <1>2, <3>1 DEF Leads
  <2>3. /\ News(s, i) \in Seq(Notice) /\ Len(News(s, i)) = Len(s) - i
        /\ News(t, h) \in Seq(Notice) /\ Len(News(t, h)) = Len(s) - i
    <3>1. News(s, i) \in Seq(Notice) /\ Len(News(s, i)) = Len(s) - i
      BY <1>2, ComingType DEF Leads
    <3> HIDE DEF h
    <3>2. News(t, h) \in Seq(Notice) /\ Len(News(t, h)) = Len(t) - h
      BY <1>1, <2>1, <2>2, ComingType
    <3> QED
      BY <2>1, <3>1, <3>2
  <2>4. News(t, h) = News(s, i)
    <3>1. ASSUME NEW j \in 1..Len(News(t, h)) PROVE News(t, h)[j] = News(s, i)[j]
      <4>1. News(s, i)[j] = s[i + j][2] /\ News(t, h)[j] = t[h + j][2]
        BY <1>1, <2>1, <2>3 DEF News
      <4>2. h + j \in h+1..Len(t) /\ (h + j) + 1 = i + j
        BY <1>1, <2>1, <2>3
      <4> QED
        BY <2>2, <4>1, <4>2
    <3> QED
      BY <2>3, <3>1, SeqEqual
  <2>5. h = 0 => new = <<>>
    BY <1>1, <1>2, <1>4, <1>7 DEF Leads
  <2>6. Coming(new, t, h) = Coming(old, s, i)
    BY <1>7, <2>4, <2>5 DEF Coming
  <2> HIDE DEF h
  <2> QED
    BY <1>2, <1>5, <2>1, <2>2, <2>6 DEF Leads, LeadsTo, t
<1> QED
  BY <1>6, <1>7

\* Without signals nothing comes.
LEMMA NothingComes ==
  ASSUME NEW old \in Seq(Notice)
  PROVE  Coming(old, <<>>, 0) = old /\ 0 \in 0..Len(<<>>) /\ 0+1..Len(<<>>) = {}
<1>1. Len(<<>>) = 0 /\ 0 \in 0..Len(<<>>) /\ 0+1..Len(<<>>) = {} /\ 1..Len(<<>>) - 0 = {}
  OBVIOUS
<1>2. News(<<>>, 0) = <<>>
  <2>1. News(<<>>, 0) = [j \in 1..Len(<<>>) - 0 |-> <<>>[0 + j][2]]
    BY DEF News
  <2>2. News(<<>>, 0) \in [1..0 -> Notice] /\ 0 \in Nat
    BY <1>1, <2>1
  <2>3. News(<<>>, 0) \in Seq(Notice) /\ Len(News(<<>>, 0)) = 0
    BY <2>2, ListIs
  <2> QED
    BY <2>3
<1>3. Coming(old, <<>>, 0) = old \o <<>>
  BY <1>2 DEF Coming
<1> QED
  BY <1>1, <1>3, ConcatEmptySeq

LEMMA HistoryBegin == HistoryInit => HistoryInv
<1> SUFFICES ASSUME HistoryInit PROVE HistoryInv
  OBVIOUS
<1>1. pastMax \in 1..kSizeLimit
  BY HistoryAssumption DEF HistoryInit
<1>2. past = <<>> /\ received = <<>> /\ viewer = [open |-> FALSE, list |-> <<>>, signals |-> <<>>]
  BY DEF HistoryInit, Closed
<1>3. LastOf(<<>>, pastMax) = <<>>
  BY <1>1 DEF LastOf
<1>4. PastKnown
  BY <1>1, <1>2, <1>3 DEF PastKnown, HistoryFaithful
<1>5. ViewerKnown
  BY <1>2 DEF ViewerKnown
<1> QED
  BY <1>4, <1>5 DEF HistoryInv

\* With at least one place, the history keeps something of what there was.
LEMMA LastOfSome ==
  ASSUME NEW S, NEW s \in Seq(S), NEW n \in Nat \ {0}
  PROVE  LastOf(s, n) = <<>> => s = <<>>
<1>1. Len(LastOf(s, n)) = IF Len(s) > n THEN n ELSE Len(s)
  BY LastOfEnds
<1> QED
  BY <1>1

LEMMA AddStep ==
  ASSUME HistoryInv, NEW m \in Notice, AddNotification(m)
  PROVE  HistoryInv'
<1> DEFINE grown == Append(past, m)
           all == Append(received, m)
<1>1. /\ past' = LastOf(grown, pastMax) /\ received' = all /\ viewer' = Signal(viewer, <<"added", m>>)
      /\ UNCHANGED pastMax
  BY DEF AddNotification
<1>2. /\ past \in Seq(Notice) /\ received \in Seq(Notice) /\ pastMax \in Nat \ {0} /\ pastMax \in 1..kSizeLimit
      /\ past = LastOf(received, pastMax)
  BY HistoryAssumption DEF HistoryInv, PastKnown, HistoryFaithful
<1>3. EndsWith(received, past) /\ Len(past) = IF Len(received) > pastMax THEN pastMax ELSE Len(received)
  BY <1>2, LastOfEnds
<1>4. /\ grown \in Seq(Notice) /\ all \in Seq(Notice) /\ Len(grown) = Len(past) + 1 /\ Len(all) = Len(received) + 1
      /\ grown # <<>>
  <2>1. /\ grown \in Seq(Notice) /\ Len(grown) = Len(past) + 1
        /\ all \in Seq(Notice) /\ Len(all) = Len(received) + 1 /\ Len(past) \in Nat
    BY <1>2, AppendProperties
  <2> HIDE DEF grown
  <2>2. grown # <<>>
    BY <2>1
  <2> QED
    BY <2>1, <2>2
<1>5. EndsWith(all, grown)
  BY <1>2, <1>3, EndsAppend
<1> HIDE DEF grown, all
<1>6. LastOf(all, pastMax) = LastOf(grown, pastMax)
  <2>1. Len(grown) = Len(all) \/ Len(grown) >= pastMax
    BY <1>2, <1>3, <1>4
  <2> QED
    BY <1>2, <1>4, <1>5, <2>1, LastOfEnd
<1>7. past' \in Seq(Notice) /\ EndsWith(grown, past') /\ past' # <<>>
  BY <1>1, <1>2, <1>4, LastOfEnds, LastOfSome
<1>8. PastKnown'
  BY <1>1, <1>2, <1>4, <1>6, <1>7 DEF PastKnown, HistoryFaithful
<1>9. ViewerKnown'
  <2>1. CASE viewer.open
    <3> DEFINE more == Append(viewer.signals, <<"added", m>>)
    <3>1. viewer.list \in Seq(Notice) /\ viewer.signals \in Seq(Signals) /\ LeadsTo(viewer.list, viewer.signals, past)
      BY <2>1 DEF HistoryInv, ViewerKnown
    <3>2. more \in Seq(Signals)
      BY <3>1 DEF Signals, Added
    <3>3. LeadsTo(viewer.list, more, past')
      BY <1>2, <1>7, <3>1, LeadsMore DEF grown
    <3>4. viewer' = [viewer EXCEPT !.signals = more]
      BY <1>1, <2>1 DEF Signal
    <3> HIDE DEF more
    <3>5. /\ viewer' \in [open : BOOLEAN, list : Seq(Notice), signals : Seq(Signals)]
          /\ viewer'.list = viewer.list /\ viewer'.signals = more /\ viewer'.open
      BY <2>1, <3>2, <3>4 DEF HistoryInv, ViewerKnown
    <3> QED
      BY <3>3, <3>5 DEF ViewerKnown
  <2>2. CASE ~viewer.open
    BY <1>1, <2>2 DEF HistoryInv, ViewerKnown, Signal
  <2> QED
    BY <2>1, <2>2
<1> QED
  BY <1>8, <1>9 DEF HistoryInv

LEMMA SizeStep ==
  ASSUME HistoryInv, NEW n \in Sizes, SetMaxSize(n)
  PROVE  HistoryInv'
<1>1. pastMax' \in 1..kSizeLimit /\ pastMax' \in Nat \ {0}
  BY HistoryAssumption DEF SetMaxSize
<1>2. past' = LastOf(past, pastMax') /\ received' = past' /\ UNCHANGED viewer /\ past \in Seq(Notice)
  BY DEF SetMaxSize, HistoryInv, PastKnown
<1>3. /\ past' \in Seq(Notice) /\ EndsWith(past, past') /\ Len(past') <= pastMax'
      /\ (past' = <<>> => past = <<>>)
  BY <1>1, <1>2, LastOfEnds, LastOfSome
<1>4. LastOf(past', pastMax') = past'
  <2>1. ~(Len(past') > pastMax')
    BY <1>1, <1>3
  <2> QED
    BY <2>1 DEF LastOf
<1>5. PastKnown'
  BY <1>1, <1>2, <1>3, <1>4 DEF PastKnown, HistoryFaithful
<1>6. ASSUME viewer.open PROVE LeadsTo(viewer.list, viewer.signals, past')
  <2>1. /\ viewer.list \in Seq(Notice) /\ viewer.signals \in Seq(Signals)
        /\ LeadsTo(viewer.list, viewer.signals, past)
    BY <1>6 DEF HistoryInv, ViewerKnown
  <2>2. PICK i \in 0..Len(viewer.signals) : Leads(viewer.list, viewer.signals, i, past)
    BY <2>1 DEF LeadsTo
  <2>3. Coming(viewer.list, viewer.signals, i) \in Seq(Notice)
    BY <2>1, <2>2, ComingType DEF Leads
  <2>4. EndsWith(Coming(viewer.list, viewer.signals, i), past')
    BY <1>2, <1>3, <2>2, <2>3, EndsTransitive DEF Leads
  <2> QED
    BY <1>3, <2>2, <2>4 DEF Leads, LeadsTo
<1>7. ViewerKnown'
  BY <1>2, <1>6 DEF HistoryInv, ViewerKnown
<1> QED
  BY <1>5, <1>7 DEF HistoryInv

LEMMA ViewerStep ==
  ASSUME HistoryInv, OpenViewer \/ ClearHistory \/ ViewerSignal \/ CloseViewer
  PROVE  HistoryInv'
<1>0. past \in Seq(Notice)
  BY DEF HistoryInv, PastKnown
<1>1. CASE OpenViewer
  <2>1. UNCHANGED <<past, pastMax, received>> /\ viewer' = [open |-> TRUE, list |-> past, signals |-> <<>>]
    BY <1>1 DEF OpenViewer
  <2>2. PastKnown'
    BY <2>1 DEF HistoryInv, PastKnown, HistoryFaithful
  <2>3. LeadsTo(past, <<>>, past)
    BY <1>0, NothingComes, EndsSelf DEF LeadsTo, Leads
  <2>4. ViewerKnown'
    BY <1>0, <2>1, <2>3 DEF ViewerKnown
  <2> QED
    BY <2>2, <2>4 DEF HistoryInv
<1>2. CASE ClearHistory
  <2> DEFINE more == Append(viewer.signals, <<"cleared">>)
  <2>1. /\ viewer.open /\ UNCHANGED pastMax /\ past' = <<>> /\ received' = <<>>
        /\ viewer' = [viewer EXCEPT !.signals = more]
    BY <1>2 DEF ClearHistory, Signal
  <2>2. viewer \in [open : BOOLEAN, list : Seq(Notice), signals : Seq(Signals)]
    BY DEF HistoryInv, ViewerKnown
  <2>3. more \in Seq(Signals) /\ LeadsTo(viewer.list, more, <<>>)
    BY <2>2, LeadsCleared
  <2> HIDE DEF more
  <2>4. /\ viewer' \in [open : BOOLEAN, list : Seq(Notice), signals : Seq(Signals)]
        /\ viewer'.list = viewer.list /\ viewer'.signals = more /\ viewer'.open
    BY <2>1, <2>2, <2>3
  <2>5. ViewerKnown'
    BY <2>1, <2>3, <2>4 DEF ViewerKnown
  <2>6. pastMax \in 1..kSizeLimit /\ LastOf(<<>>, pastMax) = <<>>
    BY DEF HistoryInv, PastKnown, LastOf
  <2>7. PastKnown'
    BY <2>1, <2>6 DEF PastKnown, HistoryFaithful
  <2> QED
    BY <2>5, <2>7 DEF HistoryInv
<1>3. CASE ViewerSignal
  <2> DEFINE new == IF Head(viewer.signals)[1] = "added" THEN Append(viewer.list, Head(viewer.signals)[2]) ELSE <<>>
             rest == Tail(viewer.signals)
  <2>1. /\ viewer.signals # <<>> /\ UNCHANGED <<past, pastMax, received>>
        /\ viewer' = [viewer EXCEPT !.signals = rest, !.list = new]
    BY <1>3 DEF ViewerSignal
  <2>2. /\ viewer \in [open : BOOLEAN, list : Seq(Notice), signals : Seq(Signals)] /\ viewer.open
        /\ LeadsTo(viewer.list, viewer.signals, past)
    BY <2>1 DEF HistoryInv, ViewerKnown
  <2>3. new \in Seq(Notice) /\ LeadsTo(new, rest, past)
    BY <1>0, <2>1, <2>2, LeadsNext
  <2>4. rest \in Seq(Signals)
    BY <2>1, <2>2
  <2> HIDE DEF new, rest
  <2>5. /\ viewer' \in [open : BOOLEAN, list : Seq(Notice), signals : Seq(Signals)]
        /\ viewer'.list = new /\ viewer'.signals = rest /\ viewer'.open
    BY <2>1, <2>2, <2>3, <2>4
  <2>6. ViewerKnown'
    BY <2>1, <2>3, <2>5 DEF ViewerKnown
  <2>7. PastKnown'
    BY <2>1 DEF HistoryInv, PastKnown, HistoryFaithful
  <2> QED
    BY <2>6, <2>7 DEF HistoryInv
<1>4. CASE CloseViewer
  <2>1. UNCHANGED <<past, pastMax, received>> /\ viewer' = [open |-> FALSE, list |-> <<>>, signals |-> <<>>]
    BY <1>4 DEF CloseViewer, Closed
  <2>2. PastKnown'
    BY <2>1 DEF HistoryInv, PastKnown, HistoryFaithful
  <2>3. ViewerKnown'
    BY <2>1 DEF ViewerKnown
  <2> QED
    BY <2>2, <2>3 DEF HistoryInv
<1> QED
  BY <1>1, <1>2, <1>3, <1>4

LEMMA HistoryStep == HistoryInv /\ [HistoryNext]_historyVars => HistoryInv'
<1> SUFFICES ASSUME HistoryInv, [HistoryNext]_historyVars PROVE HistoryInv'
  OBVIOUS
<1>1. CASE HistoryNext
  BY <1>1, AddStep, SizeStep, ViewerStep DEF HistoryNext
<1>2. CASE UNCHANGED historyVars
  BY <1>2 DEF historyVars, HistoryInv, PastKnown, ViewerKnown, HistoryFaithful
<1> QED
  BY <1>1, <1>2

LEMMA HistoryFacts == HistoryInv => HistoryTypeOK /\ HistoryFaithful /\ ViewerShows
<1> SUFFICES ASSUME HistoryInv PROVE HistoryTypeOK /\ HistoryFaithful /\ ViewerShows
  OBVIOUS
<1>1. HistoryTypeOK /\ HistoryFaithful
  BY DEF HistoryInv, PastKnown, ViewerKnown, HistoryTypeOK
<1>2. ASSUME viewer.open, viewer.signals = <<>>
      PROVE  /\ Len(past) <= Len(viewer.list) /\ LastOf(viewer.list, Len(past)) = past
             /\ past = <<>> => viewer.list = <<>>
  <2>1. viewer.list \in Seq(Notice) /\ past \in Seq(Notice) /\ LeadsTo(viewer.list, <<>>, past) /\ Len(past) \in Nat
    BY <1>2 DEF HistoryInv, PastKnown, ViewerKnown
  <2>2. <<>> \in Seq(Signals) /\ Len(<<>>) = 0
    OBVIOUS
  <2>3. Leads(viewer.list, <<>>, 0, past)
    BY <2>1, <2>2 DEF LeadsTo
  <2>5. Coming(viewer.list, <<>>, 0) = viewer.list
    BY <2>1, NothingComes
  <2>6. EndsWith(viewer.list, past) /\ (past = <<>> => viewer.list = <<>>)
    BY <2>3, <2>5 DEF Leads
  <2>7. LastOf(viewer.list, Len(past)) = past
    <3>1. /\ LastOf(viewer.list, Len(past)) \in Seq(Notice) /\ EndsWith(viewer.list, LastOf(viewer.list, Len(past)))
          /\ Len(LastOf(viewer.list, Len(past))) = Len(past)
      BY <2>1, <2>6, LastOfEnds DEF EndsWith
    <3> QED
      BY <2>1, <2>6, <3>1, EndsUnique
  <2> QED
    BY <2>6, <2>7 DEF EndsWith
<1> QED
  BY <1>1, <1>2 DEF ViewerShows

(* ---------------------------------- The log ---------------------------------- *)

LogEntry == [n : Nat, level : Levels, hit : BOOLEAN]
ShownLine == [n : Nat, hit : BOOLEAN, lit : BOOLEAN]
PlainLine == [n : Nat, hit : BOOLEAN, lit : {FALSE}]

\* What rebuildLogView has shown when it has come to each entry.
Rebuilds(f, es, min) ==
  /\ f \in [0..Len(es) -> Seq(PlainLine)]
  /\ f[0] = <<>>
  /\ \A i \in 1..Len(es) :
       f[i] = IF es[i].level >= min THEN Append(f[i - 1], Line(es[i])) ELSE f[i - 1]

LEMMA LinesRebuilt ==
  ASSUME NEW es \in Seq(LogEntry), NEW min \in Nat
  PROVE  \E f : Rebuilds(f, es, min) /\ Lines(es, min) = f[Len(es)]
<1> DEFINE N == Len(es)
           A == Seq(PlainLine)
           Next_(l, i) == IF es[i].level >= min THEN Append(l, Line(es[i])) ELSE l
           step == [p \in A \X (1 .. N) |-> Next_(p[1], p[2])]
           Equation(f) == f = [i \in 0..N |-> IF i = 0 THEN <<>> ELSE Next_(f[i - 1], i)]
           shown == CHOOSE f : Equation(f)
<1>0. N \in Nat /\ <<>> \in A
  OBVIOUS
<1>1. \A i \in 1..N : Line(es[i]) \in PlainLine
  <2> TAKE i \in 1..N
  <2>1. es[i] \in LogEntry
    OBVIOUS
  <2> QED
    BY <2>1 DEF Line, LogEntry, PlainLine
<1>2. \A l \in A, i \in 1..N : Next_(l, i) \in A
  BY <1>1
<1>3. step \in [A \X (1 .. N) -> A]
  <2> HIDE DEF N, A, Next_
  <2> QED
    BY <1>2
<1>4. PICK f \in [0 .. N -> A] : Recurs(f, N, <<>>, step)
  <2> HIDE DEF N, step, A
  <2> QED
    BY <1>0, <1>3, RecursionExists
<1>5. ASSUME NEW i \in 0..N PROVE f[i] = IF i = 0 THEN <<>> ELSE Next_(f[i - 1], i)
  <2>1. f[i] = IF i = 0 THEN <<>> ELSE step[<<f[i - 1], i>>]
    BY <1>4 DEF Recurs
  <2>2. i # 0 => f[i - 1] \in A /\ i \in 1..N
    BY <1>0, <1>4
  <2> HIDE DEF N, A, Next_
  <2>3. i # 0 => step[<<f[i - 1], i>>] = Next_(f[i - 1], i)
    BY <2>2
  <2> QED
    BY <2>1, <2>3
<1>6. Equation(f)
  <2> HIDE DEF N, A, Next_
  <2>1. f = [i \in 0..N |-> f[i]]
    BY <1>4
  <2> QED
    BY <1>5, <2>1
<1>7. Equation(shown)
  BY <1>6, Zenon
<1>8. Lines(es, min) = shown[N]
  BY DEF Lines
<1>9. shown = f
  <2> HIDE DEF shown, A, Next_
  <2>1. \A i \in 0..N : shown[i] = IF i = 0 THEN <<>> ELSE Next_(shown[i - 1], i)
    BY <1>7
  <2>2. DOMAIN shown = 0..N /\ DOMAIN f = 0..N
    BY <1>7, <1>4
  <2> DEFINE T == {i \in Nat : i <= N => shown[i] = f[i]}
  <2>3. 0 \in T
    BY <1>0, <1>5, <2>1
  <2>4. ASSUME NEW i \in Nat, i \in T PROVE i + 1 \in T
    <3> SUFFICES ASSUME i + 1 <= N PROVE shown[i + 1] = f[i + 1]
      OBVIOUS
    <3> HIDE DEF N
    <3>1. i + 1 \in 0..N /\ i + 1 # 0 /\ (i + 1) - 1 = i /\ i <= N
      BY <1>0
    <3>2. shown[i] = f[i]
      BY <3>1, <2>4
    <3> HIDE DEF T
    <3> QED
      BY <1>5, <2>1, <3>1, <3>2
  <2> HIDE DEF T
  <2>5. \A i \in Nat : i \in T
    BY <2>3, <2>4, NumberInduction
  <2>6. \A i \in 0..N : shown[i] = f[i]
    BY <2>5 DEF T
  <2> HIDE DEF N
  <2>7. shown = [i \in 0..N |-> shown[i]] /\ f = [i \in 0..N |-> f[i]]
    BY <1>4, <1>7
  <2> QED
    BY <2>6, <2>7
<1>10. Rebuilds(f, es, min)
  <2>1. f[0] = <<>>
    BY <1>0, <1>5
  <2>2. ASSUME NEW i \in 1..N PROVE f[i] = Next_(f[i - 1], i)
    <3>1. i \in 0..N /\ i # 0
      OBVIOUS
    <3> HIDE DEF Next_
    <3> QED
      BY <1>5, <3>1
  <2> QED
    BY <1>4, <2>1, <2>2 DEF Rebuilds
<1> QED
  BY <1>8, <1>9, <1>10

LEMMA LinesType ==
  ASSUME NEW es \in Seq(LogEntry), NEW min \in Nat
  PROVE  Lines(es, min) \in Seq(PlainLine) /\ (es = <<>> => Lines(es, min) = <<>>)
<1>1. PICK f : Rebuilds(f, es, min) /\ Lines(es, min) = f[Len(es)]
  BY LinesRebuilt
<1>2. Len(es) \in 0..Len(es) /\ (es = <<>> => Len(es) = 0)
  OBVIOUS
<1> QED
  BY <1>1, <1>2 DEF Rebuilds

\* One entry more is one line more, or none.
LEMMA LinesAppend ==
  ASSUME NEW es \in Seq(LogEntry), NEW min \in Nat, NEW e \in LogEntry
  PROVE  Lines(Append(es, e), min) =
           IF e.level >= min THEN Append(Lines(es, min), Line(e)) ELSE Lines(es, min)
<1> DEFINE more == Append(es, e)
<1>1. /\ more \in Seq(LogEntry) /\ Len(more) = Len(es) + 1 /\ more[Len(es) + 1] = e
      /\ \A i \in 1..Len(es) : more[i] = es[i]
  BY AppendProperties
<1>2. Len(es) \in Nat
  OBVIOUS
<1> HIDE DEF more
<1>3. PICK f : Rebuilds(f, es, min) /\ Lines(es, min) = f[Len(es)]
  BY LinesRebuilt
<1>4. PICK g : Rebuilds(g, more, min) /\ Lines(more, min) = g[Len(more)]
  BY <1>1, LinesRebuilt
<1> DEFINE T == {i \in Nat : i <= Len(es) => g[i] = f[i]}
<1>5. 0 \in T
  BY <1>3, <1>4 DEF Rebuilds
<1>6. ASSUME NEW i \in Nat, i \in T PROVE i + 1 \in T
  <2> SUFFICES ASSUME i + 1 <= Len(es) PROVE g[i + 1] = f[i + 1]
    OBVIOUS
  <2>1. /\ i + 1 \in 1..Len(es) /\ i + 1 \in 1..Len(more) /\ (i + 1) - 1 = i /\ i <= Len(es)
        /\ more[i + 1] = es[i + 1]
    BY <1>1, <1>2
  <2>2. g[i] = f[i]
    BY <1>6, <2>1
  <2>3. f[i + 1] = IF es[i + 1].level >= min THEN Append(f[i], Line(es[i + 1])) ELSE f[i]
    BY <1>3, <2>1 DEF Rebuilds
  <2>4. g[i + 1] = IF more[i + 1].level >= min THEN Append(g[i], Line(more[i + 1])) ELSE g[i]
    BY <1>4, <2>1 DEF Rebuilds
  <2> QED
    BY <2>1, <2>2, <2>3, <2>4
<1>7. g[Len(es)] = f[Len(es)]
  <2> HIDE DEF T
  <2>1. \A i \in Nat : i \in T
    BY <1>5, <1>6, NumberInduction
  <2> QED
    BY <1>2, <2>1 DEF T
<1>8. Len(es) + 1 \in 1..Len(more) /\ (Len(es) + 1) - 1 = Len(es)
  BY <1>1, <1>2
<1>9. g[Len(es) + 1] = IF more[Len(es) + 1].level >= min
                       THEN Append(g[Len(es)], Line(more[Len(es) + 1])) ELSE g[Len(es)]
  BY <1>4, <1>8 DEF Rebuilds
<1>10. Lines(more, min) = IF e.level >= min THEN Append(Lines(es, min), Line(e)) ELSE Lines(es, min)
  BY <1>1, <1>3, <1>4, <1>7, <1>9
<1> QED
  BY <1>10 DEF more

\* What is shown of the end of a buffer is the end of what is shown of it.
LEMMA LinesEnd ==
  ASSUME NEW es \in Seq(LogEntry), NEW fs \in Seq(LogEntry), NEW min \in Nat, EndsWith(es, fs)
  PROVE  EndsWith(Lines(es, min), Lines(fs, min))
<1> DEFINE d == Len(es) - Len(fs)
<1>1. d \in Nat /\ Len(es) \in Nat /\ Len(fs) \in Nat /\ d + Len(fs) = Len(es)
  BY DEF EndsWith
<1>2. \A k \in 1..Len(fs) : fs[k] = es[d + k]
  BY DEF EndsWith
<1> HIDE DEF d
<1>3. PICK f : Rebuilds(f, es, min) /\ Lines(es, min) = f[Len(es)]
  BY LinesRebuilt
<1>4. PICK g : Rebuilds(g, fs, min) /\ Lines(fs, min) = g[Len(fs)]
  BY LinesRebuilt
<1> DEFINE T == {k \in Nat : k <= Len(fs) => EndsWith(f[d + k], g[k])}
<1>5. 0 \in T
  <2>1. d + 0 \in 0..Len(es)
    BY <1>1
  <2>2. f \in [0..Len(es) -> Seq(PlainLine)] /\ g[0] = <<>>
    BY <1>3, <1>4 DEF Rebuilds
  <2>3. f[d + 0] \in Seq(PlainLine)
    BY <2>1, <2>2
  <2>4. EndsWith(f[d + 0], <<>>)
    BY <2>3, EndsSelf
  <2> QED
    BY <2>2, <2>4
<1>6. ASSUME NEW k \in Nat, k \in T PROVE k + 1 \in T
  <2> SUFFICES ASSUME k + 1 <= Len(fs) PROVE EndsWith(f[d + (k + 1)], g[k + 1])
    OBVIOUS
  <2>1. /\ k + 1 \in 1..Len(fs) /\ (k + 1) - 1 = k /\ k <= Len(fs) /\ k \in 0..Len(fs)
        /\ d + (k + 1) \in 1..Len(es) /\ (d + (k + 1)) - 1 = d + k /\ d + k \in 0..Len(es)
    BY <1>1
  <2>2. EndsWith(f[d + k], g[k])
    BY <1>6, <2>1
  <2>3. f[d + k] \in Seq(PlainLine) /\ g[k] \in Seq(PlainLine)
    BY <1>3, <1>4, <2>1 DEF Rebuilds
  <2>4. fs[k + 1] = es[d + (k + 1)] /\ fs[k + 1] \in LogEntry
    BY <1>2, <2>1
  <2>5. g[k + 1] = IF fs[k + 1].level >= min THEN Append(g[k], Line(fs[k + 1])) ELSE g[k]
    BY <1>4, <2>1 DEF Rebuilds
  <2>6. f[d + (k + 1)] = IF fs[k + 1].level >= min THEN Append(f[d + k], Line(fs[k + 1])) ELSE f[d + k]
    <3>1. f[d + (k + 1)] = IF es[d + (k + 1)].level >= min THEN Append(f[(d + (k + 1)) - 1], Line(es[d + (k + 1)]))
                           ELSE f[(d + (k + 1)) - 1]
      BY <1>3, <2>1 DEF Rebuilds
    <3> QED
      BY <2>1, <2>4, <3>1
  <2>7. Line(fs[k + 1]) \in PlainLine
    BY <2>4 DEF Line, LogEntry, PlainLine
  <2>8. EndsWith(Append(f[d + k], Line(fs[k + 1])), Append(g[k], Line(fs[k + 1])))
    BY <2>2, <2>3, <2>7, EndsAppend
  <2> QED
    BY <2>2, <2>5, <2>6, <2>8
<1>7. EndsWith(f[d + Len(fs)], g[Len(fs)])
  <2> HIDE DEF T
  <2>1. \A k \in Nat : k \in T
    BY <1>5, <1>6, NumberInduction
  <2> QED
    BY <1>1, <2>1 DEF T
<1> QED
  BY <1>1, <1>3, <1>4, <1>7

\* A part of a number is no more than the number; a remainder is less than the divisor.
LEMMA PartOf ==
  ASSUME NEW m \in Nat, NEW d \in Nat \ {0}
  PROVE  m \div d \in Nat /\ m \div d <= m
<1>1. m \div d \in Int /\ d * (m \div d) <= m /\ m < d * (m \div d) + d
  OBVIOUS
<1> QED
  BY <1>1

LEMMA RestOf ==
  ASSUME NEW m \in Nat, NEW d \in Nat \ {0}
  PROVE  m % d \in Nat /\ m % d < d
OBVIOUS

\* A trim leaves an end of the buffer within the limit, and never nothing of something.
LEMMA TrimKeeps ==
  ASSUME NEW S, NEW es \in Seq(S), NEW max \in Nat \ {0}
  PROVE  /\ Trim(es, max) \in Seq(S) /\ EndsWith(es, Trim(es, max)) /\ Len(Trim(es, max)) <= max
         /\ Trim(es, max) = <<>> => es = <<>>
<1>1. CASE Len(es) <= max
  BY <1>1, EndsSelf DEF Trim
<1>2. CASE ~(Len(es) <= max)
  <2> DEFINE part == max \div TrimDivisor
             share == IF part < 1 THEN 1 ELSE part
             excess == Len(es) - max
             m == IF share > excess THEN share ELSE excess
  <2>1. part \in Nat /\ part <= max
    BY LogViewerAssumption, PartOf
  <2>2. Trim(es, max) = SubSeq(es, m + 1, Len(es))
    BY <1>2 DEF Trim
  <2> HIDE DEF part
  <2>3. m \in 0..Len(es) /\ Len(es) - m <= max /\ Len(es) - m # 0
    BY <1>2, <2>1
  <2> HIDE DEF m
  <2>4. /\ Trim(es, max) \in Seq(S) /\ Len(Trim(es, max)) = Len(es) - m
        /\ EndsWith(es, Trim(es, max))
    BY <2>2, <2>3, EndsSub
  <2>5. Trim(es, max) # <<>>
    BY <2>3, <2>4
  <2> QED
    BY <2>3, <2>4, <2>5
<1> QED
  BY <1>1, <1>2

(* ------------------------------- Lines and numbers ------------------------------- *)

LEMMA NumbersIs ==
  ASSUME NEW v \in Seq(ShownLine)
  PROVE  /\ Numbers(v) \in Seq(Nat) /\ Len(Numbers(v)) = Len(v)
         /\ \A i \in 1..Len(v) : Numbers(v)[i] = v[i].n
<1>1. DOMAIN v = 1..Len(v) /\ Len(v) \in Nat /\ \A i \in 1..Len(v) : v[i] \in ShownLine
  OBVIOUS
<1>2. Numbers(v) \in [1..Len(v) -> Nat] /\ \A i \in 1..Len(v) : Numbers(v)[i] = v[i].n
  BY <1>1 DEF Numbers, ShownLine
<1> QED
  BY <1>1, <1>2, ListIs

\* Lists that say the same: the same numbers in the same places.
LEMMA NumbersSame ==
  ASSUME NEW v \in Seq(ShownLine), NEW w \in Seq(ShownLine), Len(v) = Len(w), \A i \in 1..Len(v) : v[i].n = w[i].n
  PROVE  Numbers(v) = Numbers(w)
<1>1. /\ Numbers(v) \in Seq(Nat) /\ Len(Numbers(v)) = Len(v)
      /\ \A i \in 1..Len(v) : Numbers(v)[i] = v[i].n
  BY NumbersIs
<1>2. /\ Numbers(w) \in Seq(Nat) /\ Len(Numbers(w)) = Len(w)
      /\ \A i \in 1..Len(w) : Numbers(w)[i] = w[i].n
  BY NumbersIs
<1>3. \A i \in 1..Len(Numbers(v)) : Numbers(v)[i] = Numbers(w)[i]
  BY <1>1, <1>2
<1> QED
  BY <1>1, <1>2, <1>3, SeqEqual

LEMMA NumbersAppend ==
  ASSUME NEW v \in Seq(ShownLine), NEW x \in ShownLine
  PROVE  Numbers(Append(v, x)) = Append(Numbers(v), x.n)
<1> DEFINE more == Append(v, x)
           a == Append(Numbers(v), x.n)
<1>1. /\ Numbers(v) \in Seq(Nat) /\ Len(Numbers(v)) = Len(v) /\ Len(v) \in Nat
      /\ \A i \in 1..Len(v) : Numbers(v)[i] = v[i].n
  BY NumbersIs
<1>2. /\ more \in Seq(ShownLine) /\ Len(more) = Len(v) + 1 /\ more[Len(v) + 1] = x
      /\ \A i \in 1..Len(v) : more[i] = v[i]
  BY AppendProperties
<1>3. x.n \in Nat
  BY DEF ShownLine
<1>4. /\ a \in Seq(Nat) /\ Len(a) = Len(v) + 1 /\ a[Len(v) + 1] = x.n
      /\ \A i \in 1..Len(v) : a[i] = v[i].n
  BY <1>1, <1>3, AppendProperties
<1> HIDE DEF more, a
<1>5. /\ Numbers(more) \in Seq(Nat) /\ Len(Numbers(more)) = Len(v) + 1
      /\ \A i \in 1..Len(v) + 1 : Numbers(more)[i] = more[i].n
  BY <1>2, NumbersIs
<1>6. ASSUME NEW i \in 1..Len(Numbers(more)) PROVE Numbers(more)[i] = a[i]
  <2>1. i = Len(v) + 1 \/ i \in 1..Len(v)
    BY <1>1, <1>5
  <2> QED
    BY <1>2, <1>4, <1>5, <2>1
<1>7. Numbers(more) = a
  BY <1>4, <1>5, <1>6, SeqEqual
<1> QED
  BY <1>7 DEF more, a

LEMMA NumbersEnd ==
  ASSUME NEW v \in Seq(ShownLine), NEW w \in Seq(ShownLine), EndsWith(v, w)
  PROVE  EndsWith(Numbers(v), Numbers(w))
<1>1. /\ Numbers(v) \in Seq(Nat) /\ Len(Numbers(v)) = Len(v)
      /\ \A i \in 1..Len(v) : Numbers(v)[i] = v[i].n
  BY NumbersIs
<1>2. /\ Numbers(w) \in Seq(Nat) /\ Len(Numbers(w)) = Len(w)
      /\ \A i \in 1..Len(w) : Numbers(w)[i] = w[i].n
  BY NumbersIs
<1>3. ASSUME NEW k \in 1..Len(w) PROVE Numbers(w)[k] = Numbers(v)[Len(v) - Len(w) + k]
  <2>1. Len(v) - Len(w) + k \in 1..Len(v) /\ w[k] = v[Len(v) - Len(w) + k]
    BY DEF EndsWith
  <2> QED
    BY <1>1, <1>2, <2>1
<1> QED
  BY <1>1, <1>2, <1>3 DEF EndsWith

LEMMA PlainIsShown == Seq(PlainLine) \subseteq Seq(ShownLine)
<1>1. PlainLine \subseteq ShownLine
  BY DEF PlainLine, ShownLine
<1> QED
  BY <1>1

\* The highlights.
LEMMA LitKeeps ==
  ASSUME NEW v \in Seq(PlainLine)
  PROVE  /\ Lit(v) \in Seq(ShownLine) /\ Len(Lit(v)) = Len(v) /\ Numbers(Lit(v)) = Numbers(v)
         /\ \A i \in DOMAIN Lit(v) : Lit(v)[i].lit => i \in HitsOf(Lit(v))
<1>1. DOMAIN v = 1..Len(v) /\ Len(v) \in Nat /\ \A i \in 1..Len(v) : v[i] \in PlainLine
  OBVIOUS
<1>2. /\ Lit(v) \in [1..Len(v) -> ShownLine]
      /\ \A i \in 1..Len(v) : Lit(v)[i].n = v[i].n /\ (Lit(v)[i].lit <=> Lit(v)[i].hit)
  BY <1>1 DEF Lit, PlainLine, ShownLine
<1>3. Lit(v) \in Seq(ShownLine) /\ Len(Lit(v)) = Len(v)
  BY <1>1, <1>2, ListIs
<1>4. v \in Seq(ShownLine)
  BY PlainIsShown
<1>5. Numbers(Lit(v)) = Numbers(v)
  BY <1>2, <1>3, <1>4, NumbersSame
<1> QED
  BY <1>2, <1>3, <1>5 DEF HitsOf

(* ----------------------------------- Search ----------------------------------- *)

LEMMA HitsAre ==
  ASSUME NEW v \in Seq(ShownLine)
  PROVE  /\ HitsOf(v) \in SUBSET (1..Len(v)) /\ Len(v) \in Nat /\ IsFiniteSet(HitsOf(v)) /\ HitCount(v) \in Nat
         /\ HitCount(v) = 0 => HitsOf(v) = {}
<1>1. HitsOf(v) \in SUBSET (1..Len(v)) /\ Len(v) \in Nat
  BY DEF HitsOf
<1>2. IsFiniteSet(1..Len(v))
  BY <1>1, FS_Interval
<1>3. IsFiniteSet(HitsOf(v))
  BY <1>1, <1>2, FS_Subset
<1> QED
  BY <1>1, <1>3, FS_CardinalityType, FS_EmptySet DEF HitCount

LEMMA HitIs ==
  ASSUME NEW v \in Seq(ShownLine), NEW at \in Nat
  PROVE  NextHit(v, at) \in 0..Len(v) /\ LastHit(v, at) \in 0..Len(v)
<1>1. HitsOf(v) \in SUBSET (1..Len(v)) /\ Len(v) \in Nat
  BY HitsAre
<1>2. NextHit(v, at) \in 0..Len(v)
  <2>1. CASE \E i \in HitsOf(v) : i > at
    <3> DEFINE S == {i \in HitsOf(v) : i > at}
    <3>1. S \in SUBSET Nat /\ S # {}
      BY <1>1, <2>1
    <3>2. PICK n \in S : \A m \in S : n <= m
      BY <3>1, LeastElement
    <3>3. \E i \in HitsOf(v) : i > at /\ \A j \in HitsOf(v) : j > at => i <= j
      BY <3>2
    <3>4. NextHit(v, at) \in HitsOf(v)
      BY <2>1, <3>3 DEF NextHit
    <3> QED
      BY <1>1, <3>4
  <2>2. CASE ~\E i \in HitsOf(v) : i > at
    BY <1>1, <2>2 DEF NextHit
  <2> QED
    BY <2>1, <2>2
<1>3. LastHit(v, at) \in 0..Len(v)
  <2>1. CASE \E i \in HitsOf(v) : i < at
    <3> DEFINE S == {k \in 0..Len(v) : Len(v) - k \in HitsOf(v) /\ Len(v) - k < at}
    <3>1. S \in SUBSET Nat
      BY <1>1
    <3>2. S # {}
      <4>1. PICK i \in HitsOf(v) : i < at
        BY <2>1
      <4>2. Len(v) - i \in 0..Len(v) /\ Len(v) - (Len(v) - i) = i
        BY <1>1
      <4> QED
        BY <4>1, <4>2
    <3>3. PICK n \in S : \A m \in S : n <= m
      BY <3>1, <3>2, LeastElement
    <3>4. ASSUME NEW j \in HitsOf(v), j < at PROVE Len(v) - n >= j
      <4>1. Len(v) - j \in 0..Len(v) /\ Len(v) - (Len(v) - j) = j
        BY <1>1
      <4>2. Len(v) - j \in S
        BY <3>4, <4>1
      <4>3. n <= Len(v) - j /\ n \in Nat /\ j \in Nat
        BY <1>1, <3>1, <3>3, <4>2
      <4> QED
        BY <1>1, <4>3
    <3>5. Len(v) - n \in HitsOf(v) /\ Len(v) - n < at
      OBVIOUS
    <3>6. \E i \in HitsOf(v) : i < at /\ \A j \in HitsOf(v) : j < at => i >= j
      BY <3>4, <3>5
    <3>7. LastHit(v, at) \in HitsOf(v)
      BY <2>1, <3>6 DEF LastHit
    <3> QED
      BY <1>1, <3>7
  <2>2. CASE ~\E i \in HitsOf(v) : i < at
    BY <1>1, <2>2 DEF LastHit
  <2> QED
    BY <2>1, <2>2
<1> QED
  BY <1>2, <1>3

SearchState == [text : BOOLEAN, total : Nat, index : Nat, at : Nat]
InSearch(s, v) == s \in SearchState /\ s.at \in 0..Len(v) /\ (s.total > 0 => s.index < s.total)

\* A search stays on a line of the view, and counts round.
LEMMA FindKeeps ==
  ASSUME NEW v \in Seq(ShownLine), NEW s, InSearch(s, v), NEW forward \in BOOLEAN
  PROVE  InSearch(FindMatch(s, v, forward), v) /\ FindMatch(s, v, forward).total = s.total /\ FindMatch(s, v, forward).text = s.text
<1> DEFINE hit == IF forward THEN NextHit(v, s.at) ELSE LastHit(v, s.at)
           round == IF forward THEN NextHit(v, 0) ELSE LastHit(v, Len(v) + 1)
           on == IF forward THEN (s.index + 1) % s.total ELSE (s.index + s.total - 1) % s.total
           first == IF forward THEN 0 ELSE s.total - 1
           r == FindMatch(s, v, forward)
<1>1. s \in SearchState /\ s.at \in Nat /\ s.at \in 0..Len(v) /\ Len(v) + 1 \in Nat /\ s.total \in Nat /\ s.index \in Nat
  BY DEF InSearch, SearchState
<1>2. hit \in 0..Len(v) /\ round \in 0..Len(v)
  BY <1>1, HitIs
<1>3. s.total # 0 => on \in Nat /\ on < s.total /\ first \in Nat /\ first < s.total
  <2> SUFFICES ASSUME s.total # 0 PROVE on \in Nat /\ on < s.total /\ first \in Nat /\ first < s.total
    OBVIOUS
  <2>1. s.total \in Nat \ {0} /\ s.index + 1 \in Nat /\ s.index + s.total - 1 \in Nat
    BY <1>1
  <2>2. (s.index + 1) % s.total \in Nat /\ (s.index + 1) % s.total < s.total
    BY <2>1, RestOf
  <2>3. (s.index + s.total - 1) % s.total \in Nat /\ (s.index + s.total - 1) % s.total < s.total
    BY <2>1, RestOf
  <2> QED
    BY <2>1, <2>2, <2>3
<1>4. r = IF s.total = 0 THEN s
          ELSE IF hit # 0 THEN [s EXCEPT !.at = hit, !.index = on]
          ELSE [s EXCEPT !.at = round, !.index = first]
  BY DEF FindMatch
<1> HIDE DEF hit, round, on, first, r
<1>5. CASE s.total = 0
  BY <1>1, <1>4, <1>5 DEF InSearch, r
<1>6. CASE s.total # 0
  <2>1. PICK a \in 0..Len(v), b \in Nat : b < s.total /\ r = [s EXCEPT !.at = a, !.index = b]
    BY <1>2, <1>3, <1>4, <1>6
  <2>2. a \in Nat /\ r = [text |-> s.text, total |-> s.total, index |-> b, at |-> a]
    <3>1. a \in Nat
      OBVIOUS
    <3>2. s = [text |-> s.text, total |-> s.total, index |-> s.index, at |-> s.at]
      BY <1>1 DEF SearchState
    <3> QED
      BY <2>1, <3>1, <3>2
  <2>3. r \in SearchState /\ r.at = a /\ r.index = b /\ r.total = s.total /\ r.text = s.text
    BY <1>1, <2>2 DEF SearchState
  <2> QED
    BY <2>1, <2>3 DEF InSearch, r
<1> QED
  BY <1>5, <1>6

(* ------------------------------- The log viewer ------------------------------- *)

LogTypes ==
  /\ logged \in Nat /\ queued \in Seq(LogEntry) /\ entries \in Seq(LogEntry) /\ seen \in Seq(LogEntry)
  /\ limit \in Limits /\ view \in Seq(ShownLine) /\ minLevel \in Levels \cup {0}
  /\ pause \in [on : BOOLEAN, missed : Nat] /\ sincePause \in Nat
  /\ stats \in [count : [Levels -> Nat], used : Nat]
  /\ InSearch(search, view)

BufferKept == EndsWith(seen, entries) /\ Len(entries) <= limit /\ (seen # <<>> => entries # <<>>)
ViewKept == EndsWith(Numbers(view), Numbers(Lines(entries, minLevel)))
OfLevel(s, l) == {i \in DOMAIN s : s[i].level = l}
CountsKept == stats.used = Len(entries) /\ \A l \in Levels : stats.count[l] = Cardinality(OfLevel(seen, l))

\* Nothing is highlighted where nothing was found.
Dark(v) == \A i \in DOMAIN v : ~v[i].lit
LightKnown == (~search.text => search.total = 0) /\ (search.total = 0 => Dark(view))

LogInv == LogTypes /\ BufferKept /\ ViewKept /\ PauseHonest /\ CountsKept /\ LightKnown

LEMMA LogNumbers ==
  LogTypes => limit \in Nat \ {0} /\ minLevel \in Nat
BY LogViewerAssumption DEF LogTypes

\* The view after rebuildLogView, and with the hits highlighted.
LEMMA RebuiltView ==
  ASSUME NEW es \in Seq(LogEntry), NEW min \in Nat
  PROVE  LET l == Lines(es, min) IN
         /\ l \in Seq(ShownLine) /\ EndsWith(Numbers(l), Numbers(l)) /\ Dark(l)
         /\ Lit(l) \in Seq(ShownLine) /\ EndsWith(Numbers(Lit(l)), Numbers(l))
         /\ HitCount(Lit(l)) \in Nat /\ (HitCount(Lit(l)) = 0 => Dark(Lit(l)))
<1> DEFINE l == Lines(es, min)
<1>1. l \in Seq(PlainLine)
  BY LinesType
<1> HIDE DEF l
<1>2. l \in Seq(ShownLine) /\ Numbers(l) \in Seq(Nat)
  BY <1>1, PlainIsShown, NumbersIs
<1>3. EndsWith(Numbers(l), Numbers(l))
  BY <1>2, EndsSelf
<1>4. Dark(l)
  <2> SUFFICES ASSUME NEW i \in DOMAIN l PROVE ~l[i].lit
    BY DEF Dark
  <2>1. l[i] \in PlainLine
    BY <1>1
  <2> QED
    BY <2>1 DEF PlainLine
<1>5. /\ Lit(l) \in Seq(ShownLine) /\ Numbers(Lit(l)) = Numbers(l)
      /\ \A i \in DOMAIN Lit(l) : Lit(l)[i].lit => i \in HitsOf(Lit(l))
  BY <1>1, LitKeeps
<1>6. HitCount(Lit(l)) \in Nat /\ (HitCount(Lit(l)) = 0 => HitsOf(Lit(l)) = {})
  BY <1>5, HitsAre
<1>7. HitCount(Lit(l)) = 0 => Dark(Lit(l))
  BY <1>5, <1>6 DEF Dark
<1> QED
  BY <1>2, <1>3, <1>4, <1>5, <1>6, <1>7 DEF l

\* How many entries there are of a level, with one entry more.
LEMMA CountMore ==
  ASSUME NEW s \in Seq(LogEntry), NEW e \in LogEntry, NEW l \in Levels
  PROVE  /\ Cardinality(OfLevel(s, l)) \in Nat
         /\ Cardinality(OfLevel(Append(s, e), l)) = Cardinality(OfLevel(s, l)) + (IF e.level = l THEN 1 ELSE 0)
<1> DEFINE more == Append(s, e)
<1>1. /\ more \in Seq(LogEntry) /\ Len(more) = Len(s) + 1 /\ more[Len(s) + 1] = e
      /\ \A i \in 1..Len(s) : more[i] = s[i]
  BY AppendProperties
<1>2. Len(s) \in Nat /\ DOMAIN s = 1..Len(s) /\ OfLevel(s, l) \in SUBSET (1..Len(s))
  BY DEF OfLevel
<1>3. IsFiniteSet(1..Len(s))
  BY <1>2, FS_Interval
<1>4. IsFiniteSet(OfLevel(s, l)) /\ Cardinality(OfLevel(s, l)) \in Nat
  BY <1>2, <1>3, FS_Subset, FS_CardinalityType
<1>5. DOMAIN more = 1..Len(s) + 1
  BY <1>1
<1> HIDE DEF more
<1>6. OfLevel(more, l) = OfLevel(s, l) \cup (IF e.level = l THEN {Len(s) + 1} ELSE {})
  <2>1. ASSUME NEW i PROVE i \in OfLevel(more, l) <=> i \in OfLevel(s, l) \/ (i = Len(s) + 1 /\ e.level = l)
    <3>1. i \in OfLevel(more, l) <=> i \in 1..Len(s) + 1 /\ more[i].level = l
      BY <1>5 DEF OfLevel
    <3>2. i \in OfLevel(s, l) <=> i \in 1..Len(s) /\ s[i].level = l
      BY <1>2 DEF OfLevel
    <3>3. i \in 1..Len(s) + 1 <=> i \in 1..Len(s) \/ i = Len(s) + 1
      BY <1>2
    <3> QED
      BY <1>1, <1>2, <3>1, <3>2, <3>3
  <2> QED
    BY <2>1
<1>7. Len(s) + 1 \notin OfLevel(s, l)
  BY <1>2
<1>8. /\ Cardinality(OfLevel(s, l) \cup {Len(s) + 1}) = Cardinality(OfLevel(s, l)) + 1
  BY <1>4, <1>7, FS_AddElement
<1>9. Cardinality(OfLevel(more, l)) = Cardinality(OfLevel(s, l)) + (IF e.level = l THEN 1 ELSE 0)
  <2>1. CASE e.level = l
    <3>1. OfLevel(more, l) = OfLevel(s, l) \cup {Len(s) + 1}
      BY <1>6, <2>1
    <3> QED
      BY <1>8, <2>1, <3>1
  <2>2. CASE e.level # l
    <3>1. OfLevel(more, l) = OfLevel(s, l)
      BY <1>6, <2>2
    <3> QED
      BY <1>4, <2>2, <3>1
  <2> QED
    BY <2>1, <2>2
<1> QED
  BY <1>4, <1>9 DEF more

LEMMA LogBegin == ViewerInit => LogInv
<1> SUFFICES ASSUME ViewerInit PROVE LogInv
  OBVIOUS
<1> USE DEF ViewerInit
<1>1. <<>> \in Seq(LogEntry) /\ <<>> \in Seq(ShownLine) /\ Len(<<>>) = 0 /\ <<>> \in Seq(Nat)
  OBVIOUS
<1>2. limit \in Nat \ {0} /\ minLevel \in Nat
  BY LogViewerAssumption
<1>3. InSearch(search, view)
  BY <1>1 DEF InSearch, SearchState
<1>4. LogTypes
  BY <1>1, <1>3 DEF LogTypes
<1>5. BufferKept
  BY <1>1, <1>2 DEF BufferKept, EndsWith
<1>6. ViewKept
  <2>1. Lines(entries, minLevel) = <<>>
    BY <1>1, <1>2, LinesType
  <2>2. Numbers(<<>>) \in Seq(Nat)
    BY <1>1, NumbersIs
  <2> QED
    BY <2>1, <2>2, EndsSelf DEF ViewKept
<1>7. CountsKept
  <2>1. ASSUME NEW l \in Levels PROVE stats.count[l] = Cardinality(OfLevel(seen, l))
    <3>1. OfLevel(seen, l) = {}
      BY <1>1 DEF OfLevel
    <3> QED
      BY <3>1, FS_EmptySet
  <2> QED
    BY <1>1, <2>1 DEF CountsKept
<1>8. PauseHonest /\ LightKnown
  BY <1>1 DEF PauseHonest, LightKnown, Dark
<1> QED
  BY <1>4, <1>5, <1>6, <1>7, <1>8 DEF LogInv

\* An entry is logged, and processed.
LEMMA LogStep ==
  ASSUME LogInv, NEW l \in Levels, NEW hit \in BOOLEAN, Log(l, hit)
  PROVE  LogInv'
<1>1. queued' \in Seq(LogEntry) /\ logged' \in Nat
  <2>1. [n |-> logged + 1, level |-> l, hit |-> hit] \in LogEntry
    BY DEF LogInv, LogTypes, LogEntry
  <2> QED
    BY <2>1 DEF Log, LogInv, LogTypes
<1>2. UNCHANGED <<entries, limit, view, minLevel, pause, search, stats, seen, sincePause>>
  BY DEF Log
<1> QED
  BY <1>1, <1>2 DEF LogInv, LogTypes, BufferKept, ViewKept, PauseHonest, CountsKept, OfLevel, LightKnown, Dark, InSearch

LEMMA ProcessStep ==
  ASSUME LogInv, Process
  PROVE  LogInv'
<1> DEFINE e == Head(queued)
           grown == Append(entries, e)
           shows == e.level >= minLevel
<1>1. /\ queued # <<>> /\ queued' = Tail(queued) /\ entries' = Trim(grown, limit)
      /\ stats' = [count |-> [stats.count EXCEPT ![e.level] = @ + 1], used |-> Len(entries')]
      /\ seen' = Append(seen, e) /\ UNCHANGED <<logged, limit, minLevel, search>>
      /\ IF shows THEN view' = Append(view, Line(e)) /\ sincePause' = sincePause + 1 ELSE UNCHANGED <<view, sincePause>>
      /\ pause' = [pause EXCEPT !.missed = IF pause.on /\ shows THEN @ + 1 ELSE @]
  BY DEF Process, ShouldDisplay
<1>2. LogTypes /\ limit \in Nat \ {0} /\ minLevel \in Nat
  BY LogNumbers DEF LogInv
<1>3. /\ queued \in Seq(LogEntry) /\ entries \in Seq(LogEntry) /\ seen \in Seq(LogEntry) /\ view \in Seq(ShownLine)
      /\ stats \in [count : [Levels -> Nat], used : Nat] /\ pause \in [on : BOOLEAN, missed : Nat] /\ sincePause \in Nat
  BY <1>2 DEF LogTypes
<1>4. e \in LogEntry /\ queued' \in Seq(LogEntry)
  BY <1>1, <1>3
<1>5. Line(e) \in ShownLine /\ ~Line(e).lit /\ Line(e) \in PlainLine /\ e.level \in Levels
  BY <1>4 DEF Line, LogEntry, ShownLine, PlainLine
<1> HIDE DEF e
<1>6. grown \in Seq(LogEntry) /\ grown # <<>> /\ seen' \in Seq(LogEntry)
  <2>1. grown \in Seq(LogEntry) /\ grown # <<>>
    BY <1>3, <1>4, AppendProperties
  <2>2. Append(seen, e) \in Seq(LogEntry)
    BY <1>3, <1>4, AppendProperties
  <2> QED
    BY <1>1, <2>1, <2>2
<1>7. EndsWith(seen', grown)
  BY <1>1, <1>3, <1>4, EndsAppend DEF LogInv, BufferKept
<1>8. Lines(grown, minLevel) = IF shows THEN Append(Lines(entries, minLevel), Line(e)) ELSE Lines(entries, minLevel)
  BY <1>2, <1>3, <1>4, LinesAppend
<1> HIDE DEF grown
<1>9. /\ entries' \in Seq(LogEntry) /\ EndsWith(grown, entries') /\ Len(entries') <= limit /\ entries' # <<>>
  BY <1>1, <1>2, <1>6, TrimKeeps
<1>10. BufferKept'
  <2>1. EndsWith(seen', entries')
    BY <1>6, <1>7, <1>9, EndsTransitive
  <2> QED
    BY <1>1, <1>9, <2>1 DEF BufferKept
<1>11. /\ view' \in Seq(ShownLine) /\ Len(view') >= Len(view) /\ (Dark(view) => Dark(view'))
       /\ EndsWith(Numbers(view'), Numbers(Lines(grown, minLevel)))
  <2> DEFINE l == Lines(entries, minLevel)
  <2>1. EndsWith(Numbers(view), Numbers(l))
    BY DEF LogInv, ViewKept
  <2>2. l \in Seq(ShownLine)
    BY <1>2, <1>3, LinesType, PlainIsShown
  <2>3. CASE ~shows
    BY <1>1, <1>3, <1>8, <2>1, <2>3
  <2>4. CASE shows
    <3> HIDE DEF l, shows
    <3>1. view' = Append(view, Line(e)) /\ Lines(grown, minLevel) = Append(l, Line(e))
      BY <1>1, <1>8, <2>4 DEF l
    <3>2. /\ view' \in Seq(ShownLine) /\ Len(view') = Len(view) + 1 /\ view'[Len(view) + 1] = Line(e)
          /\ \A i \in 1..Len(view) : view'[i] = view[i]
      BY <1>3, <1>5, <3>1, AppendProperties
    <3>3. Dark(view) => Dark(view')
      <4> SUFFICES ASSUME Dark(view), NEW i \in DOMAIN view' PROVE ~view'[i].lit
        BY DEF Dark
      <4>1. i \in 1..Len(view) \/ i = Len(view) + 1
        BY <1>3, <3>2
      <4>2. DOMAIN view = 1..Len(view)
        BY <1>3
      <4> QED
        BY <1>5, <3>2, <4>1, <4>2 DEF Dark
    <3>4. /\ Numbers(view') = Append(Numbers(view), Line(e).n)
          /\ Numbers(Lines(grown, minLevel)) = Append(Numbers(l), Line(e).n)
      BY <1>3, <1>5, <2>2, <3>1, NumbersAppend
    <3>5. Numbers(view) \in Seq(Nat) /\ Numbers(l) \in Seq(Nat) /\ Line(e).n \in Nat
      BY <1>3, <1>5, <2>2, NumbersIs DEF ShownLine
    <3>6. EndsWith(Append(Numbers(view), Line(e).n), Append(Numbers(l), Line(e).n))
      BY <2>1, <3>5, EndsAppend DEF l
    <3>7. Len(view') >= Len(view)
      BY <1>3, <3>2
    <3> QED
      BY <3>2, <3>3, <3>4, <3>6, <3>7
  <2> QED
    BY <2>3, <2>4
<1>12. ViewKept'
  <2> DEFINE lg == Lines(grown, minLevel)
             le == Lines(entries', minLevel)
  <2>1. lg \in Seq(ShownLine) /\ le \in Seq(ShownLine)
    BY <1>2, <1>6, <1>9, LinesType, PlainIsShown
  <2>2. EndsWith(lg, le)
    BY <1>2, <1>6, <1>9, LinesEnd
  <2> HIDE DEF lg, le
  <2>3. EndsWith(Numbers(lg), Numbers(le))
    BY <2>1, <2>2, NumbersEnd
  <2>4. Numbers(lg) \in Seq(Nat) /\ Numbers(le) \in Seq(Nat) /\ Numbers(view') \in Seq(Nat)
    BY <1>11, <2>1, NumbersIs
  <2>5. EndsWith(Numbers(view'), Numbers(lg))
    BY <1>11 DEF lg
  <2>6. EndsWith(Numbers(view'), Numbers(le))
    BY <2>3, <2>4, <2>5, EndsTransitive
  <2> QED
    BY <1>1, <2>6 DEF ViewKept, le
<1>13. CountsKept' /\ stats' \in [count : [Levels -> Nat], used : Nat]
  <2>1. stats.count \in [Levels -> Nat] /\ Len(entries') \in Nat
    BY <1>3, <1>9
  <2>2. [stats.count EXCEPT ![e.level] = @ + 1] \in [Levels -> Nat]
    BY <1>5, <2>1
  <2>3. stats'.used = Len(entries') /\ stats'.count = [stats.count EXCEPT ![e.level] = @ + 1]
    BY <1>1
  <2>4. ASSUME NEW l \in Levels PROVE stats'.count[l] = Cardinality(OfLevel(seen', l))
    <3>1. stats.count[l] = Cardinality(OfLevel(seen, l))
      BY DEF LogInv, CountsKept
    <3>2. /\ Cardinality(OfLevel(seen, l)) \in Nat
          /\ Cardinality(OfLevel(seen', l)) = Cardinality(OfLevel(seen, l)) + (IF e.level = l THEN 1 ELSE 0)
      BY <1>1, <1>3, <1>4, CountMore
    <3>3. stats'.count[l] = stats.count[l] + (IF e.level = l THEN 1 ELSE 0)
      BY <1>5, <2>1, <2>3
    <3> QED
      BY <3>1, <3>2, <3>3
  <2> QED
    BY <1>1, <2>1, <2>2, <2>3, <2>4 DEF CountsKept
<1>14. PauseHonest' /\ pause' \in [on : BOOLEAN, missed : Nat] /\ sincePause' \in Nat
  <2> HIDE DEF shows
  <2>1. pause = [on |-> pause.on, missed |-> pause.missed] /\ pause.on \in BOOLEAN /\ pause.missed \in Nat
    BY <1>3
  <2>2. pause' = [on |-> pause.on, missed |-> IF pause.on /\ shows THEN pause.missed + 1 ELSE pause.missed]
    BY <1>1, <2>1
  <2>3. pause'.on = pause.on /\ pause'.missed = IF pause.on /\ shows THEN pause.missed + 1 ELSE pause.missed
    BY <2>2
  <2>4. sincePause' = IF shows THEN sincePause + 1 ELSE sincePause
    BY <1>1
  <2>5. pause.on => pause.missed = sincePause
    BY DEF LogInv, PauseHonest
  <2>6. PauseHonest'
    BY <2>3, <2>4, <2>5 DEF PauseHonest
  <2>7. sincePause' \in Nat /\ (IF pause.on /\ shows THEN pause.missed + 1 ELSE pause.missed) \in Nat
    BY <1>3, <2>1, <2>4
  <2> QED
    BY <2>1, <2>2, <2>6, <2>7
<1>15. InSearch(search, view')
  BY <1>2, <1>3, <1>11 DEF LogTypes, InSearch
<1>16. LightKnown'
  BY <1>1, <1>11 DEF LogInv, LightKnown
<1>17. LogTypes'
  BY <1>1, <1>2, <1>4, <1>6, <1>9, <1>11, <1>13, <1>14, <1>15 DEF LogTypes
<1> QED
  BY <1>10, <1>12, <1>13, <1>14, <1>16, <1>17 DEF LogInv

\* A search whose line is gone.
LEMMA SearchLeft ==
  ASSUME NEW s, NEW v, InSearch(s, v), NEW w \in Seq(ShownLine)
  PROVE  LET r == [s EXCEPT !.at = 0] IN InSearch(r, w) /\ r.text = s.text /\ r.total = s.total
<1>1. s \in SearchState /\ (s.total > 0 => s.index < s.total) /\ Len(w) \in Nat
  BY DEF InSearch
<1>2. [s EXCEPT !.at = 0] = [text |-> s.text, total |-> s.total, index |-> s.index, at |-> 0]
  BY <1>1 DEF SearchState
<1> QED
  BY <1>1, <1>2 DEF InSearch, SearchState

LEMMA ClearStep ==
  ASSUME LogInv, Clear
  PROVE  LogInv'
<1>1. /\ entries' = <<>> /\ view' = <<>> /\ stats' = [count |-> [l \in Levels |-> 0], used |-> 0]
      /\ pause' = [pause EXCEPT !.missed = 0] /\ seen' = <<>> /\ sincePause' = 0 /\ search' = [search EXCEPT !.at = 0]
      /\ UNCHANGED <<logged, queued, limit, minLevel>>
  BY DEF Clear
<1>2. LogTypes /\ limit \in Nat \ {0} /\ minLevel \in Nat /\ InSearch(search, view)
      /\ pause \in [on : BOOLEAN, missed : Nat]
  BY LogNumbers DEF LogInv, LogTypes
<1>3. <<>> \in Seq(LogEntry) /\ <<>> \in Seq(ShownLine) /\ Len(<<>>) = 0 /\ <<>> \in Seq(Nat)
  OBVIOUS
<1>4. InSearch(search', view') /\ search'.text = search.text /\ search'.total = search.total
  BY <1>1, <1>2, <1>3, SearchLeft
<1>5. LogTypes'
  BY <1>1, <1>2, <1>3, <1>4 DEF LogTypes
<1>6. BufferKept'
  BY <1>1, <1>2, <1>3 DEF BufferKept, EndsWith
<1>7. ViewKept'
  <2>1. Lines(entries', minLevel') = <<>>
    BY <1>1, <1>2, <1>3, LinesType
  <2>2. Numbers(<<>>) \in Seq(Nat)
    BY <1>3, NumbersIs
  <2> QED
    BY <1>1, <2>1, <2>2, EndsSelf DEF ViewKept
<1>8. CountsKept'
  <2>1. ASSUME NEW l \in Levels PROVE stats'.count[l] = Cardinality(OfLevel(seen', l))
    <3>1. OfLevel(seen', l) = {}
      BY <1>1, <1>3 DEF OfLevel
    <3> QED
      BY <1>1, <3>1, FS_EmptySet
  <2> QED
    BY <1>1, <1>3, <2>1 DEF CountsKept
<1>9. PauseHonest'
  BY <1>1, <1>2 DEF PauseHonest
<1>10. LightKnown'
  BY <1>1, <1>3, <1>4 DEF LogInv, LightKnown, Dark
<1> QED
  BY <1>5, <1>6, <1>7, <1>8, <1>9, <1>10 DEF LogInv

LEMMA PauseStep ==
  ASSUME LogInv, PauseResume
  PROVE  LogInv'
<1>1. /\ pause' = [on |-> ~pause.on, missed |-> 0] /\ sincePause' = 0
      /\ UNCHANGED <<logged, queued, entries, limit, view, minLevel, search, stats, seen>>
  BY DEF PauseResume
<1>2. LogTypes' /\ PauseHonest'
  BY <1>1 DEF LogInv, LogTypes, PauseHonest, InSearch
<1> QED
  BY <1>1, <1>2 DEF LogInv, BufferKept, ViewKept, CountsKept, OfLevel, LightKnown, Dark

LEMMA FilterStep ==
  ASSUME LogInv, NEW min \in Levels, SetFilters(min)
  PROVE  LogInv'
<1>1. /\ minLevel' = min /\ view' = Lines(entries, min) /\ search' = [search EXCEPT !.at = 0]
      /\ UNCHANGED <<logged, queued, entries, limit, pause, stats, seen, sincePause>>
  BY DEF SetFilters
<1>2. min \in Nat /\ entries \in Seq(LogEntry) /\ InSearch(search, view)
  BY LogViewerAssumption DEF LogInv, LogTypes
<1>3. view' \in Seq(ShownLine) /\ EndsWith(Numbers(view'), Numbers(view')) /\ Dark(view')
  BY <1>1, <1>2, RebuiltView
<1>4. InSearch(search', view') /\ search'.text = search.text /\ search'.total = search.total
  BY <1>1, <1>2, <1>3, SearchLeft
<1>5. LogTypes'
  BY <1>1, <1>3, <1>4 DEF LogInv, LogTypes
<1>6. ViewKept'
  BY <1>1, <1>3 DEF ViewKept
<1>7. LightKnown'
  BY <1>3, <1>4 DEF LogInv, LightKnown
<1> QED
  BY <1>1, <1>5, <1>6, <1>7 DEF LogInv, BufferKept, PauseHonest, CountsKept, OfLevel

LEMMA LimitStep ==
  ASSUME LogInv, NEW max \in Limits, SetLimit(max)
  PROVE  LogInv'
<1>1. /\ limit' = max /\ entries' = Trim(entries, max) /\ stats' = [stats EXCEPT !.used = Len(entries')]
      /\ view' = (IF entries' = <<>> THEN view ELSE Lines(entries', minLevel))
      /\ search' = [search EXCEPT !.at = 0]
      /\ UNCHANGED <<logged, queued, minLevel, pause, seen, sincePause>>
  BY DEF SetLimit
<1>2. /\ max \in Nat \ {0} /\ entries \in Seq(LogEntry) /\ seen \in Seq(LogEntry) /\ view \in Seq(ShownLine)
      /\ InSearch(search, view) /\ minLevel \in Nat /\ stats \in [count : [Levels -> Nat], used : Nat]
  BY LogNumbers, LogViewerAssumption DEF LogInv, LogTypes
<1>3. /\ entries' \in Seq(LogEntry) /\ EndsWith(entries, entries') /\ Len(entries') <= max /\ Len(entries') \in Nat
      /\ (entries' = <<>> => entries = <<>>)
  BY <1>1, <1>2, TrimKeeps
<1>4. BufferKept'
  <2>1. EndsWith(seen, entries) /\ (seen # <<>> => entries # <<>>)
    BY DEF LogInv, BufferKept
  <2>2. EndsWith(seen, entries')
    BY <1>2, <1>3, <2>1, EndsTransitive
  <2> QED
    BY <1>1, <1>3, <2>1, <2>2 DEF BufferKept
<1>5. view' \in Seq(ShownLine) /\ EndsWith(Numbers(view'), Numbers(Lines(entries', minLevel)))
      /\ (Dark(view) => Dark(view'))
  <2>1. CASE entries' = <<>>
    <3>0. Lines(entries', minLevel) = <<>>
      BY <1>2, <1>3, <2>1, LinesType
    <3>1. view' = view /\ Lines(entries', minLevel) = <<>> /\ <<>> \in Seq(ShownLine)
      BY <1>1, <2>1, <3>0
    <3>2. Numbers(view) \in Seq(Nat) /\ Numbers(<<>>) \in Seq(Nat) /\ Len(Numbers(<<>>)) = 0
      BY <1>2, <3>1, NumbersIs
    <3>3. EndsWith(Numbers(view), <<>>) /\ Numbers(<<>>) = <<>>
      BY <3>2, EndsSelf
    <3> QED
      BY <1>2, <3>1, <3>3
  <2>2. CASE entries' # <<>>
    <3>1. view' = Lines(entries', minLevel)
      BY <1>1, <2>2
    <3> QED
      BY <1>2, <1>3, <3>1, RebuiltView
  <2> QED
    BY <2>1, <2>2
<1>6. InSearch(search', view') /\ search'.text = search.text /\ search'.total = search.total
  BY <1>1, <1>2, <1>5, SearchLeft
<1>7. stats' \in [count : [Levels -> Nat], used : Nat] /\ stats'.count = stats.count /\ stats'.used = Len(entries')
  BY <1>1, <1>2, <1>3
<1>8. LogTypes'
  BY <1>1, <1>3, <1>5, <1>6, <1>7 DEF LogInv, LogTypes
<1>9. ViewKept' /\ CountsKept'
  BY <1>1, <1>5, <1>7 DEF LogInv, ViewKept, CountsKept, OfLevel
<1>10. LightKnown'
  BY <1>5, <1>6 DEF LogInv, LightKnown
<1>11. PauseHonest'
  BY <1>1 DEF LogInv, PauseHonest
<1> QED
  BY <1>4, <1>8, <1>9, <1>10, <1>11 DEF LogInv

LEMMA SearchStep ==
  ASSUME LogInv, Search \/ SearchEnds \/ \E forward \in BOOLEAN : Find(forward)
  PROVE  LogInv'
<1>0. /\ entries \in Seq(LogEntry) /\ view \in Seq(ShownLine) /\ InSearch(search, view) /\ minLevel \in Nat
      /\ ViewKept /\ LightKnown
  BY LogNumbers DEF LogInv, LogTypes
<1>1. ASSUME UNCHANGED <<logged, queued, entries, limit, minLevel, pause, stats, seen, sincePause>>,
             view' \in Seq(ShownLine), InSearch(search', view'),
             EndsWith(Numbers(view'), Numbers(Lines(entries, minLevel))), LightKnown'
      PROVE  LogInv'
  <2>1. LogTypes' /\ ViewKept'
    BY <1>1 DEF LogInv, LogTypes, ViewKept
  <2>2. BufferKept' /\ CountsKept' /\ PauseHonest'
    BY <1>1 DEF LogInv, BufferKept, CountsKept, OfLevel, PauseHonest
  <2> QED
    BY <1>1, <2>1, <2>2 DEF LogInv
<1>2. CASE Search
  <2> DEFINE s == [text |-> TRUE, total |-> HitCount(view'), index |-> 0, at |-> 0]
  <2>1. /\ view' = Lit(Lines(entries, minLevel)) /\ search' = FindMatch(s, view', TRUE)
        /\ UNCHANGED <<logged, queued, entries, limit, minLevel, pause, stats, seen, sincePause>>
    BY <1>2 DEF Search
  <2>2. /\ view' \in Seq(ShownLine) /\ EndsWith(Numbers(view'), Numbers(Lines(entries, minLevel)))
        /\ HitCount(view') \in Nat /\ (HitCount(view') = 0 => Dark(view'))
    BY <1>0, <2>1, RebuiltView
  <2>3. InSearch(s, view') /\ s.total = HitCount(view') /\ s.text = TRUE
    BY <2>2 DEF InSearch, SearchState
  <2> HIDE DEF s
  <2>4. InSearch(search', view') /\ search'.total = HitCount(view') /\ search'.text = TRUE
    BY <2>1, <2>2, <2>3, FindKeeps
  <2>5. LightKnown'
    BY <2>2, <2>4 DEF LightKnown
  <2> QED
    BY <1>1, <2>1, <2>2, <2>4, <2>5
<1>3. CASE SearchEnds
  <2>1. /\ view' = (IF search.total > 0 THEN Lines(entries, minLevel) ELSE view)
        /\ search' = [text |-> FALSE, total |-> 0, index |-> 0, at |-> 0]
        /\ UNCHANGED <<logged, queued, entries, limit, minLevel, pause, stats, seen, sincePause>>
    BY <1>3 DEF SearchEnds
  <2>2. search.total \in Nat
    BY <1>0 DEF InSearch, SearchState
  <2>3. view' \in Seq(ShownLine) /\ EndsWith(Numbers(view'), Numbers(Lines(entries, minLevel))) /\ Dark(view')
    <3>1. CASE search.total > 0
      <4>1. view' = Lines(entries, minLevel)
        BY <2>1, <3>1
      <4> QED
        BY <1>0, <4>1, RebuiltView
    <3>2. CASE ~(search.total > 0)
      BY <1>0, <2>1, <2>2, <3>2 DEF ViewKept, LightKnown
    <3> QED
      BY <3>1, <3>2
  <2>4. InSearch(search', view') /\ search'.total = 0
    BY <2>1, <2>3 DEF InSearch, SearchState
  <2>5. LightKnown'
    BY <2>3, <2>4 DEF LightKnown
  <2> QED
    BY <1>1, <2>1, <2>3, <2>4, <2>5
<1>4. ASSUME NEW forward \in BOOLEAN, Find(forward) PROVE LogInv'
  <2>1. /\ search' = FindMatch(search, view, forward)
        /\ UNCHANGED <<logged, queued, entries, limit, view, minLevel, pause, stats, seen, sincePause>>
    BY <1>4 DEF Find
  <2>2. InSearch(search', view) /\ search'.total = search.total /\ search'.text = search.text
    BY <1>0, <2>1, FindKeeps
  <2>3. InSearch(search', view') /\ LightKnown'
    BY <1>0, <2>1, <2>2 DEF LightKnown
  <2> QED
    BY <1>0, <1>1, <2>1, <2>3 DEF ViewKept
<1> QED
  BY <1>2, <1>3, <1>4

LEMMA ViewerLogStep == LogInv /\ [ViewerNext]_viewerVars => LogInv'
<1> SUFFICES ASSUME LogInv, [ViewerNext]_viewerVars PROVE LogInv'
  OBVIOUS
<1>1. CASE ViewerNext
  BY <1>1, LogStep, ProcessStep, ClearStep, PauseStep, FilterStep, LimitStep, SearchStep DEF ViewerNext, ViewerWidgets
<1>2. CASE UNCHANGED viewerVars
  BY <1>2 DEF viewerVars, LogInv, LogTypes, BufferKept, ViewKept, PauseHonest, CountsKept, OfLevel, LightKnown, Dark, InSearch
<1> QED
  BY <1>1, <1>2

\* Two ways to say that a list ends with another.
LEMMA SuffixEnds ==
  ASSUME NEW S, NEW s \in Seq(S), NEW t \in Seq(S), EndsWith(s, t)
  PROVE  SuffixIs(s, t)
<1> DEFINE m == Len(s) - Len(t)
<1>1. m \in 0..Len(s) /\ Len(s) - m = Len(t) /\ Len(t) <= Len(s)
  BY DEF EndsWith
<1>2. /\ SubSeq(s, m + 1, Len(s)) \in Seq(S) /\ Len(SubSeq(s, m + 1, Len(s))) = Len(s) - m
      /\ EndsWith(s, SubSeq(s, m + 1, Len(s)))
  BY <1>1, EndsSub
<1>3. SubSeq(s, m + 1, Len(s)) = t
  BY <1>1, <1>2, EndsUnique
<1> QED
  BY <1>1, <1>3 DEF SuffixIs

LEMMA LogFacts ==
  LogInv => ViewerTypeOK /\ BufferNewest /\ ViewFaithful /\ PauseHonest /\ StatsHonest /\ HighlightsGone
<1> SUFFICES ASSUME LogInv
             PROVE  ViewerTypeOK /\ BufferNewest /\ ViewFaithful /\ PauseHonest /\ StatsHonest /\ HighlightsGone
  OBVIOUS
<1>1. LogTypes /\ minLevel \in Nat
  BY LogNumbers DEF LogInv
<1>2. ViewerTypeOK
  BY <1>1 DEF LogTypes, ViewerTypeOK, InSearch, SearchState
<1>3. BufferNewest
  <2>1. SuffixIs(seen, entries)
    BY <1>1, SuffixEnds DEF LogTypes, LogInv, BufferKept
  <2> QED
    BY <2>1 DEF LogInv, BufferKept, BufferNewest
<1>4. ViewFaithful
  <2> DEFINE l == Lines(entries, minLevel)
  <2>1. view \in Seq(ShownLine) /\ l \in Seq(ShownLine) /\ EndsWith(Numbers(view), Numbers(l))
    BY <1>1, LinesType, PlainIsShown DEF LogTypes, LogInv, ViewKept
  <2> HIDE DEF l
  <2>2. Numbers(view) \in Seq(Nat) /\ Numbers(l) \in Seq(Nat)
    BY <2>1, NumbersIs
  <2>3. SuffixIs(Numbers(view), Numbers(l))
    BY <2>1, <2>2, SuffixEnds
  <2> QED
    BY <2>3 DEF ViewFaithful, l
<1>5. PauseHonest /\ StatsHonest /\ HighlightsGone
  BY DEF LogInv, CountsKept, OfLevel, StatsHonest, LightKnown, Dark, HighlightsGone
<1> QED
  BY <1>2, <1>3, <1>4, <1>5

\* The viewers show what happened: the notifications and the log entries, the newest up to their limits, in order,
\* through clears, pauses, filters, changes of the limit and searches, however the dialog's signals and the queue of the
\* interface lag behind (NotificationHistory, DialogLogQt).
THEOREM ViewersAreFaithful == ServicesSpec => []ViewersFaithful
<1>1. ServicesInit => HistoryInv /\ LogInv
  BY HistoryBegin, LogBegin DEF ServicesInit
<1>2. HistoryInv /\ LogInv /\ [ServicesNext]_servicesVars => (HistoryInv /\ LogInv)'
  BY OnePart, HistoryStep, ViewerLogStep
<1>3. HistoryInv /\ LogInv => ViewersFaithful
  BY HistoryFacts, LogFacts DEF ViewersFaithful
<1> QED
  BY <1>1, <1>2, <1>3, PTL DEF ServicesSpec
=============================================================================
