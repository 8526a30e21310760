--------------------------------- MODULE Engine ---------------------------------
(***************************************************************************)
(* What Engine::keyboardHandler does with one key event: it runs under m_cs *)
(* on the handler thread, so an event is one step.  Around it, the user     *)
(* hits and releases keys, time passes, and other threads switch the        *)
(* configuration or disable the engine between two events.                  *)
(*                                                                         *)
(* A key stands for its YAMY scan code.  With a JSON configuration no key   *)
(* is a modifier key of a keymap, no function is bound to a key and no      *)
(* prefix is active; the branches for those are not reached and left out.   *)
(***************************************************************************)
EXTENDS Keymap, ModifierKeyHandler, Integers

CONSTANTS
  Key,         \* scan codes of the keys on the user's keyboard
  NoKey,       \* 0, which is no scan code
  Mod,         \* virtual modifiers M00 .. MFF
  Config,      \* configuration files
  NoSetting,   \* m_setting before the first configuration is loaded
  Restored,    \* the configuration main() restores before start(), or NoSetting
  Keyboard,    \* the keys each configuration names
  Trigger,     \* m_virtualModTriggers of each configuration: scan code to modifier
  TapAction,   \* m_modTapActions of each configuration: modifier to scan code
  Mappings,    \* the mappings of each configuration, in file order
  EvdevToYamy, \* evdevToYamyKeyCode applied to a scan code
  HasEvdev,    \* scan codes that yamyToEvdevKeyCode knows
  Lag,         \* bound: how far the clock moves while one event is processed
  MayDisable   \* does the user disable and enable the engine?

\* What a mapping may be: parseSingleMapping resolves every key name, and
\* parseToField refuses an empty sequence.
Assignment(c) == [key : Keyboard[c], mods : SUBSET Mod, to : Seq(Keyboard[c]) \ {<<>>}]

ASSUME ConfigurationAssumption ==
  /\ NoKey \notin Key /\ NoSetting \notin Config /\ HasEvdev \subseteq Key
  /\ EvdevToYamy \in [Key -> Key \cup {NoKey}]
  /\ Lag \in Nat /\ MayDisable \in BOOLEAN /\ Restored \in Config \cup {NoSetting}
  /\ \A c \in Config :
       /\ Keyboard[c] \subseteq Key
       /\ DOMAIN Trigger[c] \subseteq Keyboard[c]
       /\ \A k \in DOMAIN Trigger[c] : Trigger[c][k] \in Mod
       /\ TapAction[c] \in [Mod -> Keyboard[c] \cup {NoKey}]
       /\ Mappings[c] \in Seq(Assignment(c))

VARIABLES
  setting,     \* m_setting
  enabled,     \* m_isEnabled
  phys,        \* the keys the user holds down
  pressed,     \* keys with m_isPressed
  pressCount,  \* m_currentKeyPressCount
  out,         \* keys with m_isPressedOnWin32
  outCount,    \* m_currentKeyPressCountOnWin32
  desk,        \* the keys that are down as the desktop sees them
  keyState,    \* state of each trigger key in the ModifierKeyHandler
  age,         \* time since each WAITING trigger was pressed
  active,      \* virtual modifiers set in m_modifierState
  tapped,      \* history: the trigger whose tap the latest event emitted
  fired        \* history: modifiers of the assignment the latest event went through

flagVars == <<pressed, pressCount>>
outVars  == <<out, outCount, desk>>
modVars  == <<keyState, age, active>>
vars == <<setting, enabled, phys, flagVars, outVars, modVars, tapped, fired>>

Init ==
  /\ setting = Restored /\ enabled = TRUE
  /\ phys = {} /\ pressed = {} /\ pressCount = 0
  /\ out = {} /\ outCount = 0 /\ desk = {}
  /\ keyState = [k \in Key |-> "IDLE"] /\ age = [k \in Key |-> 0]
  /\ active = {} /\ tapped = NoKey /\ fired = {}

KeymapOf(c) == Load(Mappings[c])
TapOf(c, t) == TapAction[c][Trigger[c][t]]

(* ------------------------------ Output ----------------------------------- *)

Output == [out |-> out, count |-> outCount, desk |-> desk]

\* InputInjectorLinux::inject: what the desktop sees down after a press or a release
\* of k; a code without an evdev code is refused.
Inject(d, k, press) ==
  IF k \notin HasEvdev THEN d ELSE IF press THEN d \cup {k} ELSE d \ {k}

\* generateKeyEvent: keep the flag and the count, inject the event; the release
\* of a key that is not down is swallowed.
GenerateKeyEvent(g, k, press) ==
  IF press
  THEN [out |-> g.out \cup {k}, count |-> IF k \in g.out THEN g.count ELSE g.count + 1,
        desk |-> Inject(g.desk, k, TRUE)]
  ELSE IF k \in g.out
       THEN [out |-> g.out \ {k}, count |-> g.count - 1, desk |-> Inject(g.desk, k, FALSE)]
       ELSE g

GenerateTap(g, k) == GenerateKeyEvent(GenerateKeyEvent(g, k, TRUE), k, FALSE)

\* generateKeySeqEvents with Part_down or Part_up: all but the last key are
\* tapped on the press; the last key follows the physical key.
GenerateKeySeqEvents(g, s, press) ==
  LET taps[n \in 0 .. Len(s) - 1] == IF n = 0 THEN g ELSE GenerateTap(taps[n - 1], s[n])
  IN  GenerateKeyEvent(IF press THEN taps[Len(s) - 1] ELSE g, s[Len(s)], press)

Emit(g) == out' = g.out /\ outCount' = g.count /\ desk' = g.desk

(* --------------------------- One key event ------------------------------- *)

\* The keyboard delivers a press, an auto-repeat or a release of k.
Device(k, press) ==
  /\ press \/ k \in phys
  /\ phys' = IF press THEN phys \cup {k} ELSE phys \ {k}

\* keyboardHandler: m_isPressed and m_currentKeyPressCount.
CountPress(k, press) ==
  /\ pressed' = IF press THEN pressed \cup {k} ELSE pressed \ {k}
  /\ pressCount' = CASE press /\ k \notin pressed  -> pressCount + 1
                     [] ~press /\ k \in pressed    -> pressCount - 1
                     [] OTHER                      -> pressCount

\* No setting yet, or the engine is disabled: the event is injected as it is.
Bypass(k, press) ==
  /\ setting = NoSetting \/ ~enabled
  /\ desk' = Inject(desk, k, press)
  /\ tapped' = NoKey /\ fired' = {}
  /\ UNCHANGED <<flagVars, out, outCount, modVars>>

\* The configuration does not name the key: the event is dropped.
UnknownKey(k) ==
  /\ setting # NoSetting /\ enabled /\ k \notin Keyboard[setting]
  /\ tapped' = NoKey /\ fired' = {}
  /\ UNCHANGED <<flagVars, outVars, modVars>>

\* The assignment that beginGeneratingKeyboardEvents finds before it turns to
\* the EventProcessor; it looks for one only while a virtual modifier is active.
EarlyAssignment(k) ==
  IF active = {} THEN 0 ELSE SearchAssignment(KeymapOf(setting), k, active)

ByKeymap(k, press) ==
  /\ setting # NoSetting /\ enabled /\ k \in Keyboard[setting]
  /\ EarlyAssignment(k) # 0
  /\ LET a == KeymapOf(setting)[EarlyAssignment(k)]
     IN  Emit(GenerateKeySeqEvents(Output, a.to, press)) /\ fired' = a.mods
  /\ CountPress(k, press)
  /\ tapped' = NoKey
  /\ UNCHANGED modVars

\* checkAndActivateWaitingModifiers, at the start of processEvent.
Woken == {t \in DOMAIN Trigger[setting] : Activates(keyState[t], age[t])}
ModsOf(T) == {Trigger[setting][t] : t \in T}

\* Layer 2, step 0: what the modifier handler says of scan code y.
Decision(y, press, lag) ==
  CASE y = NoKey -> Result("IDLE", "SUPPRESS")
    [] y \in DOMAIN Trigger[setting] ->
         ProcessNumberKey(IF y \in Woken THEN "ACTIVE" ELSE keyState[y], Older(age[y], lag),
                          press, TapOf(setting, y) # NoKey)
    [] OTHER -> Result("IDLE", "PASS")

\* Mutant: the bit of the modifier is not cleared.
ModsAfterNoClear(y, action) ==
  LET mods == active \cup ModsOf(Woken)
  IN  IF action = "ACTIVATE" THEN mods \cup {Trigger[setting][y]} ELSE mods

\* m_modifierState after the waiting triggers and the event's own key.
ModsAfter(y, action) ==
  LET mods == active \cup ModsOf(Woken)
  IN  CASE action = "ACTIVATE"   -> mods \cup {Trigger[setting][y]}
        [] action = "DEACTIVATE" -> mods \ {Trigger[setting][y]}
        [] OTHER                 -> mods

\* Mutant: only presses are substituted.
PassOnPressOnly(k, y, press, mods) ==
  LET i    == FindMatch(KeymapOf(setting), y, mods)
      code == IF i = 0 \/ ~press THEN y ELSE Head(KeymapOf(setting)[i].to)
  IN  Emit(GenerateKeyEvent(Output, code, press)) /\ fired' = {}

\* Layers 2 and 3 for a key that is not suppressed: the rule that matches, or y
\* itself; a code that has no evdev code, and what is not a key of the
\* configuration, are treated as beginGeneratingKeyboardEvents treats them.
PassOn(k, y, press, mods) ==
  LET i    == FindMatch(KeymapOf(setting), y, mods)
      code == IF i = 0 THEN y ELSE Head(KeymapOf(setting)[i].to)
  IN  /\ fired' = IF i = 0 THEN {} ELSE KeymapOf(setting)[i].mods
      /\ IF code \in HasEvdev
         THEN Emit(GenerateKeyEvent(Output, IF code \in Keyboard[setting] THEN code ELSE k, press))
         ELSE UNCHANGED outVars

ByProcessor(k, press, lag) ==
  LET y    == EvdevToYamy[k]
      r    == Decision(y, press, lag)
      next == [t \in Key |-> CASE t = y         -> r.state
                               [] t # y /\ t \in Woken -> "ACTIVE"
                               [] OTHER         -> keyState[t]]
      mods == ModsAfter(y, r.action)
  IN  /\ setting # NoSetting /\ enabled /\ k \in Keyboard[setting]
      /\ EarlyAssignment(k) = 0
      /\ keyState' = next
      /\ age' = [t \in Key |-> IF next[t] = "WAITING" /\ keyState[t] = "WAITING"
                               THEN Older(age[t], lag) ELSE 0]
      /\ active' = mods
      /\ CountPress(k, press)
      /\ tapped' = IF r.action = "TAP" /\ TapOf(setting, y) \in HasEvdev THEN y ELSE NoKey
      /\ CASE r.action = "PASS" -> PassOn(k, y, press, mods)
           [] r.action = "TAP" /\ TapOf(setting, y) \in HasEvdev ->
                Emit(GenerateTap(Output, TapOf(setting, y))) /\ fired' = {}
           [] OTHER -> fired' = {} /\ UNCHANGED outVars

KeyEvent(k, press) ==
  /\ Device(k, press)
  /\ \/ Bypass(k, press)
     \/ UnknownKey(k)
     \/ ByKeymap(k, press)
     \/ \E lag \in 0 .. Lag : ByProcessor(k, press, lag)
  /\ UNCHANGED <<setting, enabled>>

(* --------------------------- Around the events ---------------------------- *)

\* Time passes; it matters to the waiting triggers only.
Tick ==
  /\ \E k \in Key : keyState[k] = "WAITING" /\ age[k] <= MaximumHold
  /\ age' = [k \in Key |-> IF keyState[k] = "WAITING" THEN Older(age[k], 1) ELSE age[k]]
  /\ UNCHANGED <<setting, enabled, phys, flagVars, outVars, keyState, active, tapped, fired>>

\* switchConfiguration and setSetting: a configuration other than the present one
\* is installed.  The flags of the keys that it names are carried over, and a new
\* ModifierKeyHandler starts with every trigger IDLE; the counts and the
\* modifier state stay as they are.
SwitchConfiguration(c) ==
  /\ c # setting
  /\ setting' = c
  /\ pressed' = pressed \cap Keyboard[c]
  /\ out' = out \cap Keyboard[c]
  /\ keyState' = [k \in Key |-> "IDLE"] /\ age' = [k \in Key |-> 0]
  /\ tapped' = NoKey /\ fired' = {}
  /\ UNCHANGED <<enabled, phys, pressCount, outCount, desk, active>>

\* Engine::enable and Engine::disable, from the tray menu.
SetEnabled ==
  /\ MayDisable
  /\ enabled' = ~enabled
  /\ tapped' = NoKey /\ fired' = {}
  /\ UNCHANGED <<setting, phys, flagVars, outVars, modVars>>

Next ==
  \/ \E k \in Key, press \in BOOLEAN : KeyEvent(k, press)
  \/ Tick
  \/ \E c \in Config : SwitchConfiguration(c)
  \/ SetEnabled

Spec == Init /\ [][Next]_vars

\* Time goes on, and while keys are held down one of them repeats or is released
\* (the kernel repeats only the key that was pressed last).
Fairness ==
  /\ WF_vars(Tick)
  /\ WF_vars(\E k \in phys, press \in BOOLEAN : KeyEvent(k, press))

FairSpec == Spec /\ Fairness

(* -------------------------------- Properties ------------------------------ *)

TypeOK ==
  /\ setting \in Config \cup {NoSetting} /\ enabled \in BOOLEAN
  /\ phys \subseteq Key /\ pressed \subseteq Key /\ out \subseteq Key /\ desk \subseteq Key
  /\ pressCount \in Int /\ outCount \in Int
  /\ keyState \in [Key -> NumberKeyState] /\ age \in [Key -> Age]
  /\ active \subseteq Mod
  /\ tapped \in Key \cup {NoKey} /\ fired \subseteq Mod

\* The modifier bits are the triggers' doing: a virtual modifier is set exactly
\* while the handler has one of its triggers in MODIFIER_ACTIVE.
ModifierTracksTrigger ==
  active = {Trigger[setting][t] : t \in
              {k \in Key : keyState[k] = "ACTIVE" /\ setting # NoSetting}}

\* No stuck modifier: a modifier is active only while the user holds down a key
\* that triggers it.
NoStuckModifier ==
  \A m \in active : setting # NoSetting /\
    \E k \in phys : EvdevToYamy[k] \in DOMAIN Trigger[setting] /\ Trigger[setting][EvdevToYamy[k]] = m

\* "Modifier state machine guarantees no stuck keys": when the user holds no key, no
\* virtual modifier is left.
ModifiersLetGo == phys = {} => active = {}

\* "No keys remain pressed after event sequence completes": when the user holds
\* no key, the desktop sees none pressed.
NoStuckKeys == phys = {} => desk = {}

\* m_currentKeyPressCount is "how many keys are pressed phisically": none when the
\* user holds none.
CountsPhysical == phys = {} => pressCount = 0

\* The counters that decide "no key is pressed" agree with the key flags, and the
\* flags of the keys that can be injected with what was injected, as long as no raw
\* event was.
Accounting ==
  /\ pressCount = Cardinality(pressed) /\ outCount = Cardinality(out)
  /\ ~MayDisable /\ setting # NoSetting => out \cap HasEvdev \subseteq desk

\* An assignment is applied only while every virtual modifier it asks for is
\* active: searchAssignment's second attempt is for assignments "with no
\* modifiers at all (base key only)".
RequiredModsActive == [][fired' \subseteq active \cup active']_vars

\* A key of the configuration that is neither mapped nor a trigger passes
\* through: pressing it presses it on the desktop.
Unmapped(k) ==
  /\ setting # NoSetting /\ enabled /\ k \in Keyboard[setting] \cap HasEvdev
  /\ OfKey(KeymapOf(setting), k) = {} /\ k \notin DOMAIN Trigger[setting]
PassThrough == [][\A k \in phys' \ phys : Unmapped(k) => k \in desk']_vars

\* hasExceededMaximum "treat as IDLE": a trigger that has waited for more than the
\* maximum (the system was suspended) is not taken for a hold.
SuspendIsNotHold ==
  [][\A k \in Key : keyState[k] = "WAITING" /\ HasExceededMaximum(age[k]) => keyState'[k] # "ACTIVE"]_vars

\* processEvent first activates what has waited long enough: "if a modifier key is
\* held while another key is pressed, the modifier is activated BEFORE we process
\* the new key event".  (Where a switch has left a modifier active without its
\* trigger, the early match may take the key.)
HeldBeforeNextKey ==
  [][\A k \in phys' \ phys :
       setting # NoSetting /\ enabled /\ k \in Keyboard[setting] /\ ModifierTracksTrigger =>
         \A t \in DOMAIN Trigger[setting] :
           keyState[t] = "WAITING" /\ HasExceededThreshold(age[t]) => keyState'[t] = "ACTIVE"]_vars

\* A trigger that stays down is decided: key repeat, another key or the release
\* ends its waiting, unless another modifier is active, under which the early match
\* takes keys before the sweep.
WaitingEnds == \A k \in Key : (keyState[k] = "WAITING") ~> (keyState[k] # "WAITING" \/ active # {})

\* With one configuration the engine keeps the promise of HoldTap: no press of a
\* trigger is both a tap and a hold, and the modifiers are those of the holds.
TheConfig == CHOOSE c \in Config : TRUE
Phases(states) == [t \in DOMAIN Trigger[TheConfig] |->
  CASE states[t] = "IDLE" -> "up" [] states[t] = "WAITING" -> "undecided" [] states[t] = "ACTIVE" -> "hold"]
Promise == INSTANCE HoldTap WITH
  Trigger <- DOMAIN Trigger[TheConfig], ModOf <- Trigger[TheConfig], NoTrigger <- NoKey,
  phase <- Phases(keyState)
ImplementsHoldTap == Promise!Spec

\* A virtual modifier is active exactly while the user holds a key that triggers it and
\* the handler has decided that it is a hold.
ModifiersFollow == ModifierTracksTrigger /\ NoStuckModifier

\* Flags, counters and the desktop agree, and nothing stays down when the user lets go.
KeysBalanced == Accounting /\ NoStuckKeys

\* What a key does, through switches and disabling: assignments apply under their
\* modifiers only, other keys pass through, a held trigger counts before the next key, and
\* the counters stay exact.
TranslationMeant == RequiredModsActive /\ PassThrough /\ HeldBeforeNextKey /\ []Accounting
=============================================================================
