------------------------------ MODULE EngineProofs ------------------------------
(***************************************************************************)
(* Proofs about the keymap and the keyboard handler, for every keyboard,    *)
(* configuration and time limit.                                            *)
(***************************************************************************)
EXTENDS Engine, ProofBasics, FiniteSetTheorems, TLAPS

(* --------------------------------- Keymap ---------------------------------- *)

LEMMA FirstOfIn ==
  ASSUME NEW S \in SUBSET (Nat \ {0})
  PROVE  /\ FirstOf(S) = 0 => S = {}
         /\ FirstOf(S) # 0 => FirstOf(S) \in S
<1>1. CASE S = {}
  BY <1>1 DEF FirstOf
<1>2. CASE S # {}
  <2>1. \E i \in S : \A j \in S : i <= j
    BY <1>2, LeastElement
  <2> QED
    BY <1>2, <2>1 DEF FirstOf
<1> QED
  BY <1>1, <1>2

\* No two assignments of a keymap have the same modified key.
Distinct(keymap) ==
  \A i, j \in DOMAIN keymap :
    keymap[i].key = keymap[j].key /\ keymap[i].mods = keymap[j].mods => i = j

Keymaps(A) == {m \in Seq(A) : Distinct(m)}

LEMMA AddKeeps ==
  ASSUME NEW A, NEW keymap \in Keymaps(A), NEW a \in A
  PROVE  AddAssignment(keymap, a) \in Keymaps(A)
<1> DEFINE Same(i) == keymap[i].key = a.key /\ keymap[i].mods = a.mods
           m == AddAssignment(keymap, a)
<1>0. keymap \in Seq(A) /\ Len(keymap) \in Nat /\ DOMAIN keymap = 1 .. Len(keymap)
      /\ Distinct(keymap)
  BY DEF Keymaps
<1>1. CASE \E i \in DOMAIN keymap : Same(i)
  <2>1. m = [i \in 1 .. Len(keymap) |-> IF Same(i) THEN a ELSE keymap[i]]
    BY <1>0, <1>1 DEF AddAssignment
  <2>2. m \in Seq(A) /\ DOMAIN m = 1 .. Len(keymap)
    BY <1>0, <2>1
  <2>3. Distinct(m)
    <3> SUFFICES ASSUME NEW i \in 1 .. Len(keymap), NEW j \in 1 .. Len(keymap),
                        m[i].key = m[j].key, m[i].mods = m[j].mods
                 PROVE  i = j
      BY <2>2 DEF Distinct
    <3>1. keymap[i].key = keymap[j].key /\ keymap[i].mods = keymap[j].mods
      BY <2>1
    <3> QED
      BY <1>0, <3>1 DEF Distinct
  <2> QED
    BY <2>2, <2>3 DEF Keymaps
<1>2. CASE ~\E i \in DOMAIN keymap : Same(i)
  <2>1. m = <<a>> \o keymap
    BY <1>2 DEF AddAssignment
  <2>2. m \in Seq(A) /\ Len(m) = Len(keymap) + 1 /\ m[1] = a
        /\ \A i \in 2 .. Len(m) : m[i] = keymap[i - 1]
    BY <1>0, <2>1
  <2> HIDE DEF m
  <2>3. Distinct(m)
    <3> SUFFICES ASSUME NEW i \in 1 .. Len(m), NEW j \in 1 .. Len(m),
                        m[i].key = m[j].key, m[i].mods = m[j].mods
                 PROVE  i = j
      BY <2>2 DEF Distinct
    <3>1. CASE i = 1 /\ j # 1
      BY <1>0, <1>2, <2>2, <3>1
    <3>2. CASE i # 1 /\ j = 1
      BY <1>0, <1>2, <2>2, <3>2
    <3>3. CASE i # 1 /\ j # 1
      BY <1>0, <2>2, <3>3, SMTT(30) DEF Distinct
    <3> QED
      BY <3>1, <3>2, <3>3
  <2> QED
    BY <2>2, <2>3 DEF Keymaps, m
<1> QED
  BY <1>1, <1>2

\* parseMappings: every assignment of the loaded keymap is one of the file, and no
\* two have the same modified key.
LEMMA LoadKeeps ==
  ASSUME NEW A, NEW mappings \in Seq(A)
  PROVE  Load(mappings) \in Keymaps(A)
<1> DEFINE N == Len(mappings)
           step == [p \in Keymaps(A) \X (1 .. N) |-> AddAssignment(p[1], mappings[p[2]])]
           Equation(f) == f = [n \in 0 .. N |-> IF n = 0 THEN <<>> ELSE AddAssignment(f[n - 1], mappings[n])]
           up == CHOOSE f : Equation(f)
<1>0. N \in Nat /\ \A n \in 1 .. N : mappings[n] \in A
  OBVIOUS
<1>1. <<>> \in Keymaps(A)
  BY DEF Keymaps, Distinct
<1>2. step \in [Keymaps(A) \X (1 .. N) -> Keymaps(A)]
  BY <1>0, AddKeeps
<1>3. PICK f \in [0 .. N -> Keymaps(A)] : Recurs(f, N, <<>>, step)
  <2> HIDE DEF N, step
  <2> QED
    BY <1>0, <1>1, <1>2, RecursionExists
<1>4. Equation(f)
  <2>1. ASSUME NEW n \in 0 .. N
        PROVE  f[n] = IF n = 0 THEN <<>> ELSE AddAssignment(f[n - 1], mappings[n])
    <3>1. CASE n = 0
      BY <1>3, <3>1 DEF Recurs
    <3>2. CASE n # 0
      <4>1. n \in 1 .. N /\ n - 1 \in 0 .. N /\ f[n - 1] \in Keymaps(A)
        BY <3>2, <1>0
      <4>2. step[<<f[n - 1], n>>] = AddAssignment(f[n - 1], mappings[n])
        BY <4>1
      <4>3. f[n] = step[<<f[n - 1], n>>]
        BY <1>3, <3>2 DEF Recurs
      <4> QED
        BY <4>2, <4>3, <3>2
    <3> QED
      BY <3>1, <3>2
  <2> QED
    BY <2>1
<1>5. Equation(up)
  BY <1>4, Zenon
<1>6. up[N] \in Keymaps(A)
  <2> DEFINE T == {n \in Nat : n <= N => up[n] \in Keymaps(A)}
  <2>1. 0 \in T
    <3> HIDE DEF up
    <3> QED
    BY <1>0, <1>1, <1>5
  <2>2. ASSUME NEW n \in Nat, n \in T PROVE n + 1 \in T
    <3> HIDE DEF up
    <3> SUFFICES ASSUME n + 1 <= N PROVE up[n + 1] \in Keymaps(A)
      OBVIOUS
    <3>1. n + 1 \in 0 .. N /\ n + 1 # 0 /\ (n + 1) - 1 = n /\ n + 1 \in 1 .. N
      BY <1>0
    <3>2. up[n + 1] = AddAssignment(up[n], mappings[n + 1])
      BY <1>5, <3>1
    <3> QED
      BY <1>0, <2>2, <3>1, <3>2, AddKeeps
  <2>3. N \in T
    <3> HIDE DEF T, N
    <3> QED
      BY <1>0, <2>1, <2>2, NumberInduction
  <2> QED
    BY <2>3
<1>7. Load(mappings) = up[N]
  BY DEF Load
<1> QED
  BY <1>6, <1>7

LEMMA KeymapIs ==
  ASSUME NEW c \in Config
  PROVE  KeymapOf(c) \in Keymaps(Assignment(c))
BY ConfigurationAssumption, LoadKeeps DEF KeymapOf

LEMMA SearchFinds ==
  ASSUME NEW A, NEW keymap \in Seq(A), NEW k, NEW mods
  PROVE  LET i == SearchAssignment(keymap, k, mods) IN
         /\ i = 0 => OfKey(keymap, k) = {}
         /\ i # 0 => i \in DOMAIN keymap /\ keymap[i].key = k
<1>1. Exact(keymap, k, mods) \in SUBSET (Nat \ {0}) /\ OfKey(keymap, k) \in SUBSET (Nat \ {0})
  BY DEF Exact, OfKey
<1> QED
  BY <1>1, FirstOfIn DEF SearchAssignment, Exact, OfKey

LEMMA MatchFinds ==
  ASSUME NEW A, NEW keymap \in Seq(A), NEW k, NEW mods
  PROVE  LET i == FindMatch(keymap, k, mods) IN
         /\ i = 0 => \A j \in DOMAIN keymap : keymap[j].key = k => ~(keymap[j].mods \subseteq mods)
         /\ i # 0 => i \in DOMAIN keymap /\ keymap[i].key = k /\ keymap[i].mods \subseteq mods
<1> DEFINE S == {j \in DOMAIN keymap : keymap[j].key = k /\ keymap[j].mods \subseteq mods}
<1>1. S \in SUBSET (Nat \ {0})
  OBVIOUS
<1>2. FindMatch(keymap, k, mods) = FirstOf(S)
  BY DEF FindMatch
<1>3. /\ FirstOf(S) = 0 => S = {}
      /\ FirstOf(S) # 0 => FirstOf(S) \in S
  BY <1>1, FirstOfIn
<1> QED
  BY <1>2, <1>3

(* --------------------------------- Output ---------------------------------- *)

\* What each key event keeps, a key sequence keeps.
LEMMA SeqKeeps ==
  ASSUME NEW G, NEW K, NEW g0 \in G, NEW s \in Seq(K) \ {<<>>}, NEW press \in BOOLEAN,
         \A g \in G, k \in K, p \in BOOLEAN : GenerateKeyEvent(g, k, p) \in G
  PROVE  /\ GenerateKeySeqEvents(g0, s, press) \in G
         /\ Len(s) = 1 => GenerateKeySeqEvents(g0, s, press) = GenerateKeyEvent(g0, s[1], press)
<1> DEFINE N == Len(s) - 1
           step == [p \in G \X (1 .. N) |-> GenerateTap(p[1], s[p[2]])]
           Equation(f) == f = [n \in 0 .. N |-> IF n = 0 THEN g0 ELSE GenerateTap(f[n - 1], s[n])]
           taps == CHOOSE f : Equation(f)
<1>0. /\ Len(s) \in Nat /\ Len(s) # 0 /\ N \in Nat /\ s[Len(s)] \in K
      /\ \A n \in 1 .. N : s[n] \in K
  OBVIOUS
<1>1. \A g \in G, k \in K : GenerateTap(g, k) \in G
  BY DEF GenerateTap
<1>2. step \in [G \X (1 .. N) -> G]
  BY <1>0, <1>1
<1>3. PICK f \in [0 .. N -> G] : Recurs(f, N, g0, step)
  <2> HIDE DEF N, step
  <2> QED
    BY <1>0, <1>2, RecursionExists
<1>4. Equation(f)
  <2>1. ASSUME NEW n \in 0 .. N
        PROVE  f[n] = IF n = 0 THEN g0 ELSE GenerateTap(f[n - 1], s[n])
    <3>1. CASE n = 0
      BY <1>3, <3>1 DEF Recurs
    <3>2. CASE n # 0
      <4>1. n \in 1 .. N /\ n - 1 \in 0 .. N /\ f[n - 1] \in G
        BY <3>2, <1>0
      <4>2. step[<<f[n - 1], n>>] = GenerateTap(f[n - 1], s[n])
        BY <4>1
      <4>3. f[n] = step[<<f[n - 1], n>>]
        BY <1>3, <3>2 DEF Recurs
      <4> QED
        BY <4>2, <4>3, <3>2
    <3> QED
      BY <3>1, <3>2
  <2> QED
    BY <2>1
<1>5. Equation(taps)
  BY <1>4, Zenon
<1>6. taps[N] \in G /\ taps[0] = g0
  <2> DEFINE T == {n \in Nat : n <= N => taps[n] \in G}
  <2>1. 0 \in T /\ taps[0] = g0
    <3> HIDE DEF taps
    <3> QED
      BY <1>0, <1>5
  <2>2. ASSUME NEW n \in Nat, n \in T PROVE n + 1 \in T
    <3> HIDE DEF taps
    <3> SUFFICES ASSUME n + 1 <= N PROVE taps[n + 1] \in G
      OBVIOUS
    <3>1. n + 1 \in 0 .. N /\ n + 1 # 0 /\ (n + 1) - 1 = n /\ n + 1 \in 1 .. N
      BY <1>0
    <3>2. taps[n + 1] = GenerateTap(taps[n], s[n + 1])
      BY <1>5, <3>1
    <3> QED
      BY <1>0, <1>1, <2>2, <3>1, <3>2
  <2>3. N \in T
    <3> HIDE DEF T, N
    <3> QED
      BY <1>0, <2>1, <2>2, NumberInduction
  <2> QED
    BY <2>1, <2>3
<1>7. GenerateKeySeqEvents(g0, s, press)
        = GenerateKeyEvent(IF press THEN taps[N] ELSE g0, s[Len(s)], press)
  BY DEF GenerateKeySeqEvents
<1>8. Len(s) = 1 => (IF press THEN taps[N] ELSE g0) = g0
  <2> HIDE DEF taps
  <2> QED
    BY <1>6
<1> HIDE DEF taps, N
<1> QED
  BY <1>0, <1>6, <1>7, <1>8

Outputs == [out : SUBSET Key, count : Int, desk : SUBSET Key]

LEMMA EventOutput ==
  ASSUME NEW g \in Outputs, NEW k \in Key, NEW press \in BOOLEAN
  PROVE  GenerateKeyEvent(g, k, press) \in Outputs
BY DEF Outputs, GenerateKeyEvent, Inject

(* ------------------------------ One key event ------------------------------ *)

Translating(k, press) == ByKeymap(k, press) \/ \E lag \in 0 .. Lag : ByProcessor(k, press, lag)

LEMMA SettingIs ==
  ASSUME TypeOK, setting # NoSetting
  PROVE  /\ setting \in Config /\ Keyboard[setting] \subseteq Key
         /\ DOMAIN Trigger[setting] \subseteq Keyboard[setting]
         /\ \A t \in DOMAIN Trigger[setting] : Trigger[setting][t] \in Mod
                                              /\ TapOf(setting, t) \in Keyboard[setting] \cup {NoKey}
         /\ KeymapOf(setting) \in Seq(Assignment(setting))
<1>1. setting \in Config
  BY DEF TypeOK
<1>2. KeymapOf(setting) \in Seq(Assignment(setting))
  BY <1>1, KeymapIs DEF Keymaps
<1>3. \A t \in DOMAIN Trigger[setting] : Trigger[setting][t] \in Mod
        /\ TapAction[setting][Trigger[setting][t]] \in Keyboard[setting] \cup {NoKey}
  BY <1>1, ConfigurationAssumption
<1> QED
  BY <1>1, <1>2, <1>3, ConfigurationAssumption DEF TapOf

\* What the modifier handler decides about a scan code.
Action == {"PASS", "SUPPRESS", "ACTIVATE", "DEACTIVATE", "TAP"}

Standing(y) == IF y \in Woken THEN "ACTIVE" ELSE keyState[y]

LEMMA DecisionIs ==
  ASSUME TypeOK, setting # NoSetting, NEW y \in Key \cup {NoKey}, NEW press \in BOOLEAN,
         NEW lag \in 0 .. Lag
  PROVE  LET r == Decision(y, press, lag) IN
         /\ r.state \in NumberKeyState /\ r.action \in Action
         /\ y \notin DOMAIN Trigger[setting] =>
              r.state = "IDLE" /\ r.action = IF y = NoKey THEN "SUPPRESS" ELSE "PASS"
         /\ y \in DOMAIN Trigger[setting] =>
              \/ press /\ Standing(y) = "IDLE" /\ r = Result("WAITING", "SUPPRESS")
              \/ press /\ Standing(y) = "WAITING" /\ r \in {Result("WAITING", "SUPPRESS"), Result("ACTIVE", "ACTIVATE")}
              \/ /\ press /\ Standing(y) = "WAITING" /\ r = Result("IDLE", "PASS")
                 /\ HasExceededMaximum(Older(age[y], lag))
              \/ press /\ Standing(y) = "ACTIVE" /\ r = Result("ACTIVE", "SUPPRESS")
              \/ ~press /\ Standing(y) = "IDLE" /\ r = Result("IDLE", "PASS")
              \/ ~press /\ Standing(y) = "WAITING" /\ r \in {Result("IDLE", "TAP"), Result("IDLE", "SUPPRESS")}
              \/ ~press /\ Standing(y) = "ACTIVE" /\ r = Result("IDLE", "DEACTIVATE")
<1> DEFINE r == Decision(y, press, lag)
<1>1. CASE y \notin DOMAIN Trigger[setting]
  BY <1>1 DEF Decision, Result, NumberKeyState, Action
<1>2. CASE y \in DOMAIN Trigger[setting]
  <2>1. y \in Key /\ y # NoKey
    BY <1>2, SettingIs, ConfigurationAssumption
  <2>2. r = ProcessNumberKey(Standing(y), Older(age[y], lag), press, TapOf(setting, y) # NoKey)
    BY <1>2, <2>1 DEF Decision, Standing
  <2>3. Standing(y) \in NumberKeyState
    BY <2>1 DEF Standing, TypeOK, NumberKeyState
  <2>4. CASE press
    BY <1>2, <2>2, <2>3, <2>4 DEF ProcessNumberKey, ProcessPress, Result, NumberKeyState, Action
  <2>5. CASE ~press
    BY <1>2, <2>2, <2>3, <2>5 DEF ProcessNumberKey, ProcessRelease, Result, NumberKeyState, Action
  <2> QED
    BY <2>4, <2>5
<1> QED
  BY <1>1, <1>2

\* What each key event keeps, the translation of an event keeps.
LEMMA OutputKept ==
  ASSUME TypeOK, NEW G \in SUBSET Outputs, Output \in G,
         \A g \in G, x \in Keyboard[setting], p \in BOOLEAN : GenerateKeyEvent(g, x, p) \in G,
         NEW k \in Key, NEW press \in BOOLEAN, Translating(k, press)
  PROVE  Output' \in G
<1>1. setting # NoSetting
  BY DEF Translating, ByKeymap, ByProcessor
<1>2. ASSUME NEW g \in G, Emit(g) PROVE Output' = g
  <2>1. Output' = [out |-> out', count |-> outCount', desk |-> desk']
    BY DEF Output
  <2>2. g = [out |-> g.out, count |-> g.count, desk |-> g.desk]
    BY DEF Outputs
  <2> QED
    BY <1>2, <2>1, <2>2 DEF Emit
<1>3. CASE UNCHANGED outVars
  BY <1>3 DEF outVars, Output
<1>4. CASE ByKeymap(k, press)
  <2> DEFINE i == EarlyAssignment(k)
             a == KeymapOf(setting)[i]
  <2>1. i # 0 /\ Emit(GenerateKeySeqEvents(Output, a.to, press))
    BY <1>4 DEF ByKeymap
  <2>2. i \in DOMAIN KeymapOf(setting)
    BY <1>1, <2>1, SettingIs, SearchFinds DEF EarlyAssignment
  <2>3. a \in Assignment(setting)
    BY <1>1, <2>2, SettingIs
  <2>4. a.to \in Seq(Keyboard[setting]) \ {<<>>}
    BY <2>3 DEF Assignment
  <2>5. GenerateKeySeqEvents(Output, a.to, press) \in G
    BY <2>4, SeqKeeps
  <2> QED
    BY <1>2, <2>1, <2>5
<1>5. ASSUME NEW lag \in 0 .. Lag, ByProcessor(k, press, lag) PROVE Output' \in G
  <2> DEFINE y == EvdevToYamy[k]
             r == Decision(y, press, lag)
  <2>0. y \in Key \cup {NoKey}
    BY ConfigurationAssumption
  <2>1. CASE r.action = "PASS"
    <3>1. PICK mods : PassOn(k, y, press, mods)
      BY <1>5, <2>1 DEF ByProcessor
    <3>2. \/ UNCHANGED outVars
          \/ \E x \in Keyboard[setting] : Emit(GenerateKeyEvent(Output, x, press))
      <4> DEFINE i    == FindMatch(KeymapOf(setting), y, mods)
                 code == IF i = 0 THEN y ELSE Head(KeymapOf(setting)[i].to)
      <4>1. IF code \in HasEvdev
            THEN Emit(GenerateKeyEvent(Output, IF code \in Keyboard[setting] THEN code ELSE k, press))
            ELSE UNCHANGED outVars
        BY <3>1 DEF PassOn
      <4>2. k \in Keyboard[setting]
        BY <1>5 DEF ByProcessor
      <4> HIDE DEF code
      <4> QED
        BY <4>1, <4>2
    <3> QED
      BY <1>2, <1>3, <3>2
  <2>2. CASE r.action = "TAP" /\ TapOf(setting, y) \in HasEvdev
    <3>1. Emit(GenerateTap(Output, TapOf(setting, y)))
      BY <1>5, <2>2 DEF ByProcessor
    <3>2. TapOf(setting, y) \in Keyboard[setting]
      <4>1. y \in DOMAIN Trigger[setting]
        BY <1>1, <2>0, <2>2, DecisionIs
      <4> QED
        BY <1>1, <2>2, <4>1, SettingIs, ConfigurationAssumption
    <3>3. GenerateTap(Output, TapOf(setting, y)) \in G
      BY <3>2 DEF GenerateTap
    <3> QED
      BY <1>2, <3>1, <3>3
  <2>3. CASE r.action # "PASS" /\ ~(r.action = "TAP" /\ TapOf(setting, y) \in HasEvdev)
    BY <1>3, <1>5, <2>3 DEF ByProcessor
  <2> QED
    BY <2>1, <2>2, <2>3
<1> QED
  BY <1>4, <1>5 DEF Translating

-----------------------------------------------------------------------------

LEMMA OlderType ==
  ASSUME NEW a \in Age, NEW d \in Nat
  PROVE  Older(a, d) \in Age
BY TimingAssumption DEF Older, Age

LEMMA KeymapType ==
  ASSUME TypeOK, NEW k \in Key, NEW press \in BOOLEAN, ByKeymap(k, press)
  PROVE  fired' \in SUBSET Mod
<1> DEFINE i == EarlyAssignment(k)
<1>1. setting # NoSetting /\ i # 0 /\ fired' = KeymapOf(setting)[i].mods
  BY DEF ByKeymap
<1>2. i \in DOMAIN KeymapOf(setting)
  BY <1>1, SettingIs, SearchFinds DEF EarlyAssignment
<1>3. KeymapOf(setting)[i] \in Assignment(setting)
  BY <1>1, <1>2, SettingIs
<1> QED
  BY <1>1, <1>3 DEF Assignment

LEMMA ProcessorType ==
  ASSUME TypeOK, NEW k \in Key, NEW press \in BOOLEAN, NEW lag \in 0 .. Lag,
         ByProcessor(k, press, lag)
  PROVE  /\ keyState' \in [Key -> NumberKeyState] /\ age' \in [Key -> Age]
         /\ active' \in SUBSET Mod /\ tapped' \in Key \cup {NoKey} /\ fired' \in SUBSET Mod
<1> DEFINE y == EvdevToYamy[k]
           r == Decision(y, press, lag)
<1>0. setting # NoSetting /\ y \in Key \cup {NoKey} /\ lag \in Nat
  BY ConfigurationAssumption DEF ByProcessor
<1>1. /\ r.state \in NumberKeyState /\ r.action \in Action
      /\ r.action \in {"ACTIVATE", "DEACTIVATE", "TAP"} => y \in DOMAIN Trigger[setting]
  BY <1>0, DecisionIs
<1> HIDE DEF r
<1>2. keyState' \in [Key -> NumberKeyState]
  BY <1>1 DEF ByProcessor, TypeOK, NumberKeyState, r
<1>3. age' \in [Key -> Age]
  <2>1. \A t \in Key : Older(age[t], lag) \in Age
    BY <1>0, OlderType DEF TypeOK
  <2>2. 0 \in Age
    BY TimingAssumption DEF Age
  <2> QED
    BY <2>1, <2>2 DEF ByProcessor
<1>4. active' \in SUBSET Mod
  <2>1. active' = ModsAfter(y, r.action)
    BY DEF ByProcessor, r
  <2>2. ModsOf(Woken) \subseteq Mod
    BY <1>0, SettingIs DEF ModsOf, Woken
  <2>3. active \subseteq Mod
    BY DEF TypeOK
  <2>4. r.action = "ACTIVATE" => Trigger[setting][y] \in Mod
    BY <1>0, <1>1, SettingIs
  <2> QED
    BY <2>1, <2>2, <2>3, <2>4 DEF ModsAfter
<1>5. tapped' \in Key \cup {NoKey}
  BY <1>0 DEF ByProcessor
<1>6. fired' \in SUBSET Mod
  <2>1. CASE fired' = {}
    BY <2>1
  <2>2. CASE \E mods : PassOn(k, y, press, mods)
    <3>1. PICK mods : PassOn(k, y, press, mods)
      BY <2>2
    <3> DEFINE i == FindMatch(KeymapOf(setting), y, mods)
    <3>2. fired' = IF i = 0 THEN {} ELSE KeymapOf(setting)[i].mods
      BY <3>1 DEF PassOn
    <3>3. i # 0 => i \in DOMAIN KeymapOf(setting)
      BY <1>0, SettingIs, MatchFinds
    <3>4. i # 0 => KeymapOf(setting)[i] \in Assignment(setting)
      BY <1>0, <3>3, SettingIs
    <3> QED
      BY <3>2, <3>4 DEF Assignment
  <2> QED
    BY <2>1, <2>2 DEF ByProcessor, r
<1> QED
  BY <1>2, <1>3, <1>4, <1>5, <1>6

LEMMA EventType ==
  ASSUME TypeOK, NEW k \in Key, NEW press \in BOOLEAN, KeyEvent(k, press)
  PROVE  TypeOK'
<1>1. /\ setting' = setting /\ enabled' = enabled
      /\ phys' \in SUBSET Key
  BY DEF KeyEvent, Device, TypeOK
<1>2. CASE Bypass(k, press)
  BY <1>1, <1>2 DEF Bypass, Inject, TypeOK, flagVars, modVars
<1>3. CASE UnknownKey(k)
  BY <1>1, <1>3 DEF UnknownKey, TypeOK, flagVars, modVars, outVars
<1>4. CASE Translating(k, press)
  <2>1. Output \in Outputs
    BY DEF Output, Outputs, TypeOK
  <2>2. Output' \in Outputs
    <3>1. setting # NoSetting
      BY <1>4 DEF Translating, ByKeymap, ByProcessor
    <3>2. \A g \in Outputs, x \in Keyboard[setting], p \in BOOLEAN : GenerateKeyEvent(g, x, p) \in Outputs
      BY <3>1, SettingIs, EventOutput
    <3> QED
      BY <1>4, <2>1, <3>2, OutputKept
  <2>3. out' \in SUBSET Key /\ outCount' \in Int /\ desk' \in SUBSET Key
    BY <2>2 DEF Output, Outputs
  <2>4. pressed' \in SUBSET Key /\ pressCount' \in Int
    <3>1. CountPress(k, press)
      BY <1>4 DEF Translating, ByKeymap, ByProcessor
    <3> QED
      BY <3>1 DEF CountPress, TypeOK
  <2>5. CASE ByKeymap(k, press)
    <3>1. fired' \in SUBSET Mod
      BY <2>5, KeymapType
    <3>2. tapped' = NoKey /\ UNCHANGED modVars
      BY <2>5 DEF ByKeymap
    <3> QED
      BY <1>1, <2>3, <2>4, <3>1, <3>2 DEF modVars, TypeOK
  <2>6. ASSUME NEW lag \in 0 .. Lag, ByProcessor(k, press, lag) PROVE TypeOK'
    BY <1>1, <2>3, <2>4, <2>6, ProcessorType DEF TypeOK
  <2> QED
    BY <1>4, <2>5, <2>6 DEF Translating
<1> QED
  BY <1>2, <1>3, <1>4 DEF KeyEvent, Translating

\* Every variable keeps its type, whatever is typed and whichever configuration
\* the loader accepted: the handler reaches no state outside IDLE, WAITING and
\* ACTIVE, and the modifiers and keys in use are those the configuration names.
THEOREM EngineTypeCorrect == Spec => []TypeOK
<1>1. Init => TypeOK
  BY ConfigurationAssumption, TimingAssumption DEF Init, TypeOK, NumberKeyState, Age
<1>2. TypeOK /\ [Next]_vars => TypeOK'
  <2> SUFFICES ASSUME TypeOK, [Next]_vars PROVE TypeOK'
    OBVIOUS
  <2> USE DEF flagVars, outVars, modVars
  <2>1. CASE \E k \in Key, press \in BOOLEAN : KeyEvent(k, press)
    BY <2>1, EventType
  <2>2. CASE Tick
    <3>1. \A k \in Key : Older(age[k], 1) \in Age
      BY OlderType DEF TypeOK
    <3>2. age' \in [Key -> Age]
      BY <2>2, <3>1 DEF Tick, TypeOK
    <3> QED
      BY <2>2, <3>2 DEF Tick, TypeOK
  <2>3. CASE \E c \in Config : SwitchConfiguration(c)
    <3>1. 0 \in Age
      BY TimingAssumption DEF Age
    <3> QED
      BY <2>3, <3>1 DEF SwitchConfiguration, TypeOK, NumberKeyState
  <2>4. CASE SetEnabled
    BY <2>4 DEF SetEnabled, TypeOK
  <2>5. CASE UNCHANGED vars
    BY <2>5 DEF vars, TypeOK
  <2> QED
    BY <2>1, <2>2, <2>3, <2>4, <2>5 DEF Next
<1> QED
  BY <1>1, <1>2, PTL DEF Spec

-----------------------------------------------------------------------------
(* The virtual modifiers, with one configuration that is never disabled, in   *)
(* which every modifier has a trigger of its own and the keys that act as     *)
(* triggers are named and not mapped.                                         *)

OneConfiguration(c) == Config = {c} /\ ~MayDisable

FreeTriggers(c) ==
  /\ \A t, u \in DOMAIN Trigger[c] : Trigger[c][t] = Trigger[c][u] => t = u
  /\ \A k \in Key : EvdevToYamy[k] \in DOMAIN Trigger[c] =>
       k \in Keyboard[c] /\ \A i \in DOMAIN Mappings[c] : Mappings[c][i].key # k

\* A trigger that is not IDLE is one of the configuration, and the user holds a
\* key that acts as it.
Followed ==
  /\ enabled
  /\ \A t \in Key : keyState[t] # "IDLE" =>
       /\ setting # NoSetting /\ t \in DOMAIN Trigger[setting]
       /\ \E k \in phys : EvdevToYamy[k] = t
  /\ ModifierTracksTrigger

ActiveIn(f) == {k \in Key : f[k] = "ACTIVE"}

LEMMA TracksIs ==
  ASSUME setting # NoSetting
  PROVE  ModifierTracksTrigger <=> active = {Trigger[setting][t] : t \in ActiveIn(keyState)}
BY DEF ModifierTracksTrigger, ActiveIn

\* The keys that act as a trigger are not taken by the early match.
LEMMA TriggerNotMapped ==
  ASSUME TypeOK, NEW c \in Config, FreeTriggers(c), setting = c, NEW k \in Key,
         EvdevToYamy[k] \in DOMAIN Trigger[c]
  PROVE  k \in Keyboard[setting] /\ EarlyAssignment(k) = 0
<1> DEFINE A == {a \in Assignment(c) : a.key # k}
<1>1. Mappings[c] \in Seq(A)
  <2>1. Mappings[c] \in Seq(Assignment(c)) /\ \A i \in DOMAIN Mappings[c] : Mappings[c][i].key # k
    BY ConfigurationAssumption DEF FreeTriggers
  <2> QED
    BY <2>1
<1>2. KeymapOf(c) \in Seq(A)
  <2> HIDE DEF A
  <2> QED
    BY <1>1, LoadKeeps DEF KeymapOf, Keymaps
<1>3. SearchAssignment(KeymapOf(c), k, active) = 0
  <2> DEFINE i == SearchAssignment(KeymapOf(c), k, active)
  <2>1. i # 0 => i \in DOMAIN KeymapOf(c) /\ KeymapOf(c)[i].key = k
    <3> HIDE DEF A
    <3> QED
      BY <1>2, SearchFinds
  <2> HIDE DEF i
  <2>2. i # 0 => KeymapOf(c)[i] \in A
    BY <1>2, <2>1
  <2>3. i = 0
    BY <2>1, <2>2
  <2> QED
    BY <2>3 DEF i
<1> QED
  BY <1>3 DEF EarlyAssignment, FreeTriggers

\* What an event does to the triggers: those that have waited long enough become
\* active, the event's own scan code follows the decision.
LEMMA NextStates ==
  ASSUME TypeOK, NEW k \in Key, NEW press \in BOOLEAN, NEW lag \in 0 .. Lag,
         ByProcessor(k, press, lag)
  PROVE  LET y == EvdevToYamy[k] IN
         keyState' = [t \in Key |-> IF t = y THEN Decision(y, press, lag).state ELSE Standing(t)]
BY DEF ByProcessor, Standing

LEMMA ProcessorTracks ==
  ASSUME TypeOK, Followed, NEW c \in Config, FreeTriggers(c), setting = c, setting' = setting,
         NEW k \in Key, NEW press \in BOOLEAN, NEW lag \in 0 .. Lag, ByProcessor(k, press, lag)
  PROVE  ModifierTracksTrigger'
<1> DEFINE y == EvdevToYamy[k]
           r == Decision(y, press, lag)
           T == Trigger[c]
<1>0. /\ setting # NoSetting /\ y \in Key \cup {NoKey} /\ DOMAIN T \subseteq Key /\ NoKey \notin Key
      /\ \A t, u \in DOMAIN T : T[t] = T[u] => t = u
  BY ConfigurationAssumption DEF FreeTriggers
<1>1. /\ y \notin DOMAIN T => r.state = "IDLE" /\ r.action \in {"PASS", "SUPPRESS"}
      /\ y \in DOMAIN T =>
           \/ r.action = "ACTIVATE" /\ r.state = "ACTIVE"
           \/ r.action = "DEACTIVATE" /\ r.state = "IDLE" /\ Standing(y) = "ACTIVE"
           \/ /\ r.action \notin {"ACTIVATE", "DEACTIVATE"}
              /\ r.state = "ACTIVE" <=> Standing(y) = "ACTIVE"
  BY <1>0, DecisionIs DEF Result
<1>2. active' = ModsAfter(y, r.action)
  BY DEF ByProcessor
<1>3. \A t \in Key : keyState'[t] = IF t = y THEN r.state ELSE Standing(t)
  BY NextStates
<1> HIDE DEF r
<1>4. \A t \in Key : Standing(t) # "IDLE" => t \in DOMAIN T
  BY <1>0 DEF Followed, Standing, Woken
<1> DEFINE S == {t \in Key : Standing(t) = "ACTIVE"}
<1>5. active \cup ModsOf(Woken) = {T[t] : t \in S}
  <2>1. active = {T[t] : t \in ActiveIn(keyState)}
    BY <1>0, TracksIs DEF Followed
  <2>2. Woken \subseteq Key
    BY <1>0 DEF Woken
  <2>3. S = ActiveIn(keyState) \cup Woken
    BY <2>2 DEF ActiveIn, Standing
  <2>4. ModsOf(Woken) = {T[t] : t \in Woken}
    BY DEF ModsOf
  <2> HIDE DEF S, T
  <2> QED
    BY <2>1, <2>3, <2>4
<1>6. S \subseteq DOMAIN T
  BY <1>4
<1>7. active' = {T[t] : t \in ActiveIn(keyState')}
  <2> HIDE DEF T
  <2>1. CASE r.action = "ACTIVATE"
    <3>1. y \in DOMAIN T /\ r.state = "ACTIVE"
      BY <1>1, <2>1
    <3>2. active' = {T[t] : t \in S} \cup {T[y]}
      BY <1>2, <1>5, <2>1 DEF ModsAfter, T
    <3>3. ActiveIn(keyState') = S \cup {y}
      BY <1>0, <1>3, <3>1 DEF ActiveIn
    <3> HIDE DEF S
    <3> QED
      BY <3>2, <3>3
  <2>2. CASE r.action = "DEACTIVATE"
    <3>1. y \in DOMAIN T /\ r.state = "IDLE" /\ Standing(y) = "ACTIVE"
      BY <1>1, <2>2
    <3>2. active' = {T[t] : t \in S} \ {T[y]}
      BY <1>2, <1>5, <2>2 DEF ModsAfter, T
    <3>3. ActiveIn(keyState') = S \ {y}
      BY <1>0, <1>3, <3>1 DEF ActiveIn
    <3> HIDE DEF S
    <3> QED
      BY <1>0, <1>6, <3>1, <3>2, <3>3
  <2>3. CASE r.action \notin {"ACTIVATE", "DEACTIVATE"}
    <3>1. active' = {T[t] : t \in S}
      BY <1>2, <1>5, <2>3 DEF ModsAfter
    <3>2. ActiveIn(keyState') = S
      BY <1>0, <1>1, <1>3, <1>4, <2>3 DEF ActiveIn
    <3> HIDE DEF S
    <3> QED
      BY <3>1, <3>2
  <2> QED
    BY <2>1, <2>2, <2>3
<1> QED
  BY <1>0, <1>7 DEF ModifierTracksTrigger, ActiveIn

LEMMA FollowedEvent ==
  ASSUME TypeOK, Followed, NEW c \in Config, OneConfiguration(c), FreeTriggers(c),
         NEW k \in Key, NEW press \in BOOLEAN, KeyEvent(k, press)
  PROVE  Followed'
<1>0. /\ setting' = setting /\ enabled' = enabled /\ enabled
      /\ phys' = IF press THEN phys \cup {k} ELSE phys \ {k}
      /\ setting = c \/ setting = NoSetting
  BY DEF KeyEvent, Device, Followed, OneConfiguration, TypeOK
<1> DEFINE y == EvdevToYamy[k]
<1>1. CASE UNCHANGED modVars /\ (press \/ setting = NoSetting \/ y \notin DOMAIN Trigger[setting])
  <2>1. UNCHANGED <<keyState, active>>
    BY <1>1 DEF modVars
  <2>2. ASSUME NEW t \in Key, keyState[t] # "IDLE"
        PROVE  /\ setting # NoSetting /\ t \in DOMAIN Trigger[setting]
               /\ \E x \in phys' : EvdevToYamy[x] = t
    BY <1>0, <1>1, <2>2 DEF Followed
  <2> QED
    BY <1>0, <2>1, <2>2 DEF Followed, ModifierTracksTrigger
<1>2. CASE Bypass(k, press)
  BY <1>0, <1>1, <1>2 DEF Bypass
<1>3. CASE UnknownKey(k)
  <2>1. setting = c /\ y \notin DOMAIN Trigger[c]
    BY <1>0, <1>3 DEF UnknownKey, FreeTriggers
  <2> QED
    BY <1>1, <1>3, <2>1 DEF UnknownKey
<1>4. CASE ByKeymap(k, press)
  <2>1. setting = c /\ EarlyAssignment(k) # 0
    BY <1>0, <1>4 DEF ByKeymap
  <2>2. y \notin DOMAIN Trigger[c]
    BY <2>1, TriggerNotMapped
  <2> QED
    BY <1>1, <1>4, <2>1, <2>2 DEF ByKeymap
<1>5. ASSUME NEW lag \in 0 .. Lag, ByProcessor(k, press, lag) PROVE Followed'
  <2>1. setting = c /\ setting # NoSetting /\ y \in Key \cup {NoKey}
    BY <1>0, <1>5, ConfigurationAssumption DEF ByProcessor
  <2>2. ModifierTracksTrigger'
    BY <1>0, <1>5, <2>1, ProcessorTracks
  <2>3. ASSUME NEW t \in Key, keyState'[t] # "IDLE"
        PROVE  t \in DOMAIN Trigger[setting] /\ \E x \in phys' : EvdevToYamy[x] = t
    <3>1. CASE t = y
      <4>1. keyState'[t] = Decision(y, press, lag).state
        BY <1>5, <3>1, NextStates
      <4>2. y \in DOMAIN Trigger[setting] /\ press
        BY <2>1, <2>3, <4>1, DecisionIs DEF Result
      <4> QED
        BY <1>0, <3>1, <4>2
    <3>2. CASE t # y
      <4>1. keyState[t] # "IDLE"
        BY <1>5, <2>3, <3>2, NextStates DEF Standing, Woken, Activates
      <4>2. PICK x \in phys : EvdevToYamy[x] = t
        BY <4>1 DEF Followed
      <4>3. x \in phys'
        BY <1>0, <3>2, <4>2
      <4> QED
        BY <4>1, <4>2, <4>3 DEF Followed
    <3> QED
      BY <3>1, <3>2
  <2> QED
    BY <1>0, <2>1, <2>2, <2>3 DEF Followed
<1> QED
  BY <1>2, <1>3, <1>4, <1>5 DEF KeyEvent

LEMMA FollowedStep ==
  ASSUME TypeOK, Followed, NEW c \in Config, OneConfiguration(c), FreeTriggers(c), [Next]_vars
  PROVE  Followed'
<1>1. CASE \E k \in Key, press \in BOOLEAN : KeyEvent(k, press)
  BY <1>1, FollowedEvent
<1>2. CASE Tick
  BY <1>2 DEF Tick, Followed, ModifierTracksTrigger
<1>3. CASE \E d \in Config : SwitchConfiguration(d)
  <2>1. setting = NoSetting /\ setting' = c /\ enabled' = enabled /\ active' = active
        /\ keyState' = [k \in Key |-> "IDLE"]
    BY <1>3 DEF SwitchConfiguration, OneConfiguration, TypeOK
  <2>2. active = {}
    BY <2>1 DEF Followed, ModifierTracksTrigger
  <2> QED
    BY <2>1, <2>2 DEF Followed, ModifierTracksTrigger
<1>4. CASE SetEnabled
  BY <1>4 DEF SetEnabled, OneConfiguration
<1>5. CASE UNCHANGED vars
  BY <1>5 DEF vars, modVars, Followed, ModifierTracksTrigger
<1> QED
  BY <1>1, <1>2, <1>3, <1>4, <1>5 DEF Next

LEMMA TriggersFollowed ==
  ASSUME NEW c \in Config, OneConfiguration(c), FreeTriggers(c)
  PROVE  Spec => [](TypeOK /\ Followed)
<1>1. Init => Followed
  BY ConfigurationAssumption DEF Init, Followed, ModifierTracksTrigger
<1>2. TypeOK /\ Followed /\ [Next]_vars => Followed'
  BY FollowedStep
<1> QED
  BY <1>1, <1>2, EngineTypeCorrect, PTL DEF Spec

\* The virtual modifiers are the held triggers, whatever the mappings, the tap
\* actions, the time limits and the delay of the handler: the bits are set exactly
\* while a trigger is in MODIFIER_ACTIVE, and only while the user holds a key that
\* acts as it.
THEOREM ModifiersAreHeld ==
  ASSUME NEW c \in Config, OneConfiguration(c), FreeTriggers(c)
  PROVE  Spec => []ModifiersFollow
<1>1. TypeOK /\ Followed => ModifiersFollow
  <2> SUFFICES ASSUME TypeOK, Followed PROVE NoStuckModifier
    BY DEF ModifiersFollow, Followed
  <2> SUFFICES ASSUME NEW m \in active
               PROVE  setting # NoSetting /\ \E k \in phys :
                        EvdevToYamy[k] \in DOMAIN Trigger[setting] /\ Trigger[setting][EvdevToYamy[k]] = m
    BY DEF NoStuckModifier
  <2>1. PICK t \in Key : keyState[t] = "ACTIVE" /\ m = Trigger[setting][t]
    BY DEF Followed, ModifierTracksTrigger
  <2> QED
    BY <2>1 DEF Followed
<1> QED
  BY <1>1, TriggersFollowed, PTL

-----------------------------------------------------------------------------
(* The engine implements HoldTap: each step of the handler is, for the         *)
(* triggers, some undecided presses turning into holds and at most one trigger *)
(* going down or coming up.                                                    *)

PhaseOf(s) == CASE s = "IDLE" -> "up" [] s = "WAITING" -> "undecided" [] s = "ACTIVE" -> "hold"

LEMMA PhasesAre ==
  ASSUME NEW c, Config = {c}, NEW f
  PROVE  TheConfig = c /\ Phases(f) = [t \in DOMAIN Trigger[c] |-> PhaseOf(f[t])]
BY DEF TheConfig, Phases, PhaseOf

\* ModifierTracksTrigger in the words of HoldTap.
LEMMA HoldsAre ==
  ASSUME NEW c \in Config, Config = {c}, NEW s \in {c, NoSetting}, NEW f \in [Key -> NumberKeyState],
         \A t \in Key : f[t] # "IDLE" => s # NoSetting /\ t \in DOMAIN Trigger[s]
  PROVE  {Trigger[s][t] : t \in {k \in Key : f[k] = "ACTIVE" /\ s # NoSetting}}
           = {Trigger[c][t] : t \in {u \in DOMAIN Trigger[c] : Phases(f)[u] = "hold"}}
<1>0. /\ \A t \in DOMAIN Trigger[c] : t \in Key
      /\ \A t \in DOMAIN Trigger[c] : Phases(f)[t] = PhaseOf(f[t])
  BY ConfigurationAssumption, PhasesAre
<1>1. ASSUME NEW t \in Key
      PROVE  f[t] = "ACTIVE" /\ s # NoSetting
               <=> t \in DOMAIN Trigger[c] /\ PhaseOf(f[t]) = "hold"
  BY <1>0 DEF NumberKeyState, PhaseOf
<1> DEFINE L == {k \in Key : f[k] = "ACTIVE" /\ s # NoSetting}
           R == {u \in DOMAIN Trigger[c] : Phases(f)[u] = "hold"}
<1>2. L = R
  BY <1>0, <1>1
<1>3. L = {} \/ s = c
  OBVIOUS
<1> HIDE DEF L, R
<1>4. {Trigger[s][t] : t \in L} = {Trigger[c][t] : t \in R}
  BY <1>2, <1>3
<1> QED
  BY <1>4 DEF L, R

LEMMA HoldsNext ==
  ASSUME TypeOK', Followed', NEW c \in Config, OneConfiguration(c)
  PROVE  active' = {Trigger[c][t] : t \in {u \in DOMAIN Trigger[c] : Phases(keyState')[u] = "hold"}}
<1>1. /\ Config = {c} /\ setting' \in {c, NoSetting} /\ keyState' \in [Key -> NumberKeyState]
      /\ \A t \in Key : keyState'[t] # "IDLE" => setting' # NoSetting /\ t \in DOMAIN Trigger[setting']
      /\ active' = {Trigger[setting'][t] : t \in {k \in Key : keyState'[k] = "ACTIVE" /\ setting' # NoSetting}}
  BY DEF TypeOK, OneConfiguration, Followed, ModifierTracksTrigger
<1> QED
  BY <1>1, HoldsAre

LEMMA HoldTapProcessor ==
  ASSUME TypeOK, Followed, TypeOK', Followed', NEW c \in Config, OneConfiguration(c),
         NEW k \in Key, NEW press \in BOOLEAN, NEW lag \in 0 .. Lag, ByProcessor(k, press, lag)
  PROVE  Promise!Next
<1> DEFINE T == DOMAIN Trigger[c]
           y == EvdevToYamy[k]
           r == Decision(y, press, lag)
           phase == Phases(keyState)
           held  == [t \in T |-> PhaseOf(Standing(t))]
<1>0. /\ setting = c /\ setting # NoSetting /\ TheConfig = c /\ y \in Key \cup {NoKey} /\ T \subseteq Key
      /\ phase = [t \in T |-> PhaseOf(keyState[t])]
      /\ Phases(keyState') = [t \in T |-> PhaseOf(keyState'[t])]
  <2>1. Config = {c} /\ setting = c /\ setting # NoSetting
    BY DEF ByProcessor, OneConfiguration, TypeOK
  <2>2. TheConfig = c /\ phase = [t \in T |-> PhaseOf(keyState[t])]
    BY <2>1, PhasesAre
  <2>3. Phases(keyState') = [t \in T |-> PhaseOf(keyState'[t])]
    BY <2>1, PhasesAre
  <2> QED
    BY <2>1, <2>2, <2>3, ConfigurationAssumption
<1>1. Phases(keyState') = [t \in T |-> IF t = y THEN PhaseOf(r.state) ELSE held[t]]
  BY <1>0, NextStates
<1>2. Woken \in SUBSET {t \in T : phase[t] = "undecided"}
  BY <1>0 DEF Woken, Activates, PhaseOf
<1>3. \A S : Promise!Hold(S) = [t \in T |-> IF t \in S THEN "hold" ELSE phase[t]]
  BY <1>0 DEF Promise!Hold
<1>4. Promise!Hold(Woken) = held
  BY <1>0, <1>3 DEF Standing, PhaseOf
<1>5. active' = {Trigger[c][t] : t \in {u \in T : Phases(keyState')[u] = "hold"}}
  BY HoldsNext
<1>6. tapped' = IF r.action = "TAP" /\ TapOf(setting, y) \in HasEvdev THEN y ELSE NoKey
  BY DEF ByProcessor
<1>7. \E S \in SUBSET {t \in T : phase[t] = "undecided"} :
        \/ Phases(keyState') = Promise!Hold(S) /\ tapped' = NoKey
        \/ \E t \in T : Promise!Press(Promise!Hold(S), t) \/ Promise!Release(Promise!Hold(S), t)
  <2>1. CASE y \notin T
    <3>1. r.action # "TAP"
      BY <1>0, <2>1, DecisionIs
    <3>2. Phases(keyState') = held /\ tapped' = NoKey
      BY <1>1, <1>6, <2>1, <3>1
    <3> QED
      BY <1>2, <1>4, <3>2
  <2>2. CASE y \in T
    <3>1. /\ Standing(y) \in NumberKeyState
          /\ \/ press /\ Standing(y) = "IDLE" /\ r = Result("WAITING", "SUPPRESS")
             \/ press /\ Standing(y) = "WAITING" /\ r \in {Result("WAITING", "SUPPRESS"), Result("ACTIVE", "ACTIVATE")}
             \/ press /\ Standing(y) = "WAITING" /\ r = Result("IDLE", "PASS")
             \/ press /\ Standing(y) = "ACTIVE" /\ r = Result("ACTIVE", "SUPPRESS")
             \/ ~press /\ Standing(y) = "IDLE" /\ r = Result("IDLE", "PASS")
             \/ ~press /\ Standing(y) = "WAITING" /\ r \in {Result("IDLE", "TAP"), Result("IDLE", "SUPPRESS")}
             \/ ~press /\ Standing(y) = "ACTIVE" /\ r = Result("IDLE", "DEACTIVATE")
      BY <1>0, <2>2, DecisionIs DEF Standing, TypeOK, NumberKeyState
    <3> HIDE DEF r, phase, T, y
    <3>2. CASE r.state = Standing(y) /\ r.action # "TAP"
      <4>1. Phases(keyState') = held /\ tapped' = NoKey
        BY <1>1, <1>6, <3>2
      <4> QED
        BY <1>2, <1>4, <4>1
    <3>3. CASE Standing(y) = "IDLE" /\ r = Result("WAITING", "SUPPRESS")
      <4>1. tapped' = NoKey /\ held[y] = "up" /\ PhaseOf(r.state) = "undecided"
        BY <1>6, <2>2, <3>3 DEF Result, PhaseOf
      <4>2. Phases(keyState') = [held EXCEPT ![y] = "undecided"]
        BY <1>1, <4>1
      <4>3. Promise!Press(held, y)
        BY <4>1, <4>2 DEF Promise!Press
      <4> QED
        BY <1>2, <1>4, <2>2, <4>3
    <3>4. CASE Standing(y) = "WAITING" /\ r = Result("ACTIVE", "ACTIVATE")
      <4> DEFINE S == Woken \cup {y}
      <4>1. y \notin Woken /\ keyState[y] = "WAITING"
        BY <3>4 DEF Standing
      <4>2. S \in SUBSET {t \in T : phase[t] = "undecided"}
        BY <1>0, <1>2, <2>2, <4>1 DEF PhaseOf
      <4>3. Phases(keyState') = Promise!Hold(S) /\ tapped' = NoKey
        <5>1. r.state = "ACTIVE" /\ r.action = "ACTIVATE" /\ PhaseOf("ACTIVE") = "hold"
          BY <3>4 DEF Result, PhaseOf
        <5>2. Promise!Hold(S) = [t \in T |-> IF t = y THEN "hold" ELSE Promise!Hold(Woken)[t]]
          BY <1>3
        <5> QED
          BY <1>1, <1>4, <1>6, <5>1, <5>2
      <4> QED
        BY <4>2, <4>3
    <3>5. CASE Standing(y) # "IDLE" /\ r.state = "IDLE" /\ (r.action = "TAP" => Standing(y) = "WAITING")
      <4>1. /\ held[y] # "up" /\ PhaseOf(r.state) = "up"
            /\ held[y] = "undecided" <=> Standing(y) = "WAITING"
        BY <2>2, <3>1, <3>5 DEF PhaseOf, NumberKeyState
      <4>2. Phases(keyState') = [held EXCEPT ![y] = "up"]
        BY <1>1, <4>1
      <4>3. tapped' \in IF held[y] = "undecided" THEN {y, NoKey} ELSE {NoKey}
        BY <1>6, <3>5, <4>1
      <4>4. Promise!Release(held, y)
        BY <4>1, <4>2, <4>3 DEF Promise!Release
      <4> QED
        BY <1>2, <1>4, <2>2, <4>4
    <3> QED
      BY <3>1, <3>2, <3>3, <3>4, <3>5 DEF Result
  <2> QED
    BY <2>1, <2>2
<1> QED
  BY <1>0, <1>5, <1>7 DEF Promise!Next

LEMMA HoldTapStep ==
  ASSUME TypeOK, Followed, TypeOK', Followed', NEW c \in Config, OneConfiguration(c), [Next]_vars
  PROVE  [Promise!Next]_(Promise!promiseVars)
<1>0. TheConfig = c
  BY PhasesAre DEF OneConfiguration
<1>1. CASE keyState' = keyState /\ tapped' = NoKey
  <2> DEFINE T == DOMAIN Trigger[c]
             S == {}
  <2>1. Phases(keyState') = Phases(keyState)
    BY <1>1
  <2>2. active' = {Trigger[c][t] : t \in {u \in T : Phases(keyState')[u] = "hold"}}
    BY HoldsNext
  <2>3. Phases(keyState') = Promise!Hold({})
    <3>1. Promise!Hold({}) = [t \in T |-> Phases(keyState)[t]]
      BY <1>0 DEF Promise!Hold
    <3> QED
      BY <1>0, <2>1, <3>1 DEF Phases
  <2> QED
    BY <1>0, <1>1, <2>2, <2>3 DEF Promise!Next
<1>2. CASE keyState' = keyState /\ active' = active /\ tapped' = tapped
  BY <1>2 DEF Promise!promiseVars, Phases
<1>3. ASSUME NEW k \in Key, NEW press \in BOOLEAN, KeyEvent(k, press)
      PROVE  [Promise!Next]_(Promise!promiseVars)
  <2>1. CASE Bypass(k, press) \/ UnknownKey(k) \/ ByKeymap(k, press)
    BY <1>1, <2>1 DEF Bypass, UnknownKey, ByKeymap, modVars
  <2>2. CASE \E lag \in 0 .. Lag : ByProcessor(k, press, lag)
    BY <2>2, HoldTapProcessor
  <2> QED
    BY <1>3, <2>1, <2>2 DEF KeyEvent
<1>4. CASE Tick
  BY <1>2, <1>4 DEF Tick
<1>5. CASE \E d \in Config : SwitchConfiguration(d)
  <2>1. setting = NoSetting /\ keyState' = [k \in Key |-> "IDLE"] /\ tapped' = NoKey
    BY <1>5 DEF SwitchConfiguration, OneConfiguration, TypeOK
  <2>2. keyState' = keyState
    BY <2>1 DEF Followed, TypeOK
  <2> QED
    BY <1>1, <2>1, <2>2
<1>6. CASE SetEnabled
  BY <1>6 DEF SetEnabled, OneConfiguration
<1>7. CASE UNCHANGED vars
  BY <1>2, <1>7 DEF vars, modVars
<1> QED
  BY <1>3, <1>4, <1>5, <1>6, <1>7 DEF Next

\* With one configuration the engine keeps the promise of HoldTap for every
\* keyboard and timing: a press of a trigger ends as a hold or as a tap, never as
\* both, and the modifiers are those of the holds.
THEOREM HoldTapImplemented ==
  ASSUME NEW c \in Config, OneConfiguration(c), FreeTriggers(c)
  PROVE  Spec => ImplementsHoldTap
<1>1. Init => Promise!Init
  <2> SUFFICES ASSUME Init PROVE Promise!Init
    OBVIOUS
  <2>1. TheConfig = c /\ \A t \in DOMAIN Trigger[c] : keyState[t] = "IDLE"
    BY ConfigurationAssumption, PhasesAre DEF Init, OneConfiguration
  <2> QED
    BY <2>1 DEF Init, Promise!Init, Phases
<1>2. TypeOK /\ Followed /\ TypeOK' /\ Followed' /\ [Next]_vars => [Promise!Next]_(Promise!promiseVars)
  BY HoldTapStep
<1> QED
  BY <1>1, <1>2, TriggersFollowed, PTL DEF Spec, ImplementsHoldTap, Promise!Spec

-----------------------------------------------------------------------------
(* The counters: with configurations that name the same keys, they are the     *)
(* numbers of the flags that are set, through switches and disabling.          *)

SameKeys == \A c, d \in Config : Keyboard[c] = Keyboard[d]

Exacted == {g \in Outputs : /\ IsFiniteSet(g.out) /\ g.count = Cardinality(g.out)
                            /\ ~MayDisable => g.out \cap HasEvdev \subseteq g.desk}

Counted ==
  /\ IsFiniteSet(pressed) /\ pressCount = Cardinality(pressed)
  /\ Output \in Exacted
  /\ enabled \/ MayDisable
  /\ IF setting = NoSetting THEN pressed = {} /\ out = {}
                            ELSE pressed \cup out \subseteq Keyboard[setting]

LEMMA EventExact ==
  ASSUME NEW g \in Exacted, NEW k \in Key, NEW press \in BOOLEAN
  PROVE  GenerateKeyEvent(g, k, press) \in Exacted
<1> DEFINE h == GenerateKeyEvent(g, k, press)
<1>1. g \in Outputs /\ IsFiniteSet(g.out) /\ g.count = Cardinality(g.out) /\ h \in Outputs
      /\ (~MayDisable => g.out \cap HasEvdev \subseteq g.desk)
  BY EventOutput DEF Exacted
<1>2. IsFiniteSet(h.out) /\ h.count = Cardinality(h.out)
  <2>1. /\ IsFiniteSet(g.out \cup {k}) /\ IsFiniteSet(g.out \ {k})
        /\ Cardinality(g.out \cup {k}) = IF k \in g.out THEN g.count ELSE g.count + 1
        /\ Cardinality(g.out \ {k}) = IF k \in g.out THEN g.count - 1 ELSE g.count
    <3> DEFINE o == g.out
               n == g.count
    <3>1. IsFiniteSet(o) /\ n = Cardinality(o)
      BY <1>1
    <3> HIDE DEF o, n
    <3>2. /\ IsFiniteSet(o \cup {k}) /\ IsFiniteSet(o \ {k})
          /\ Cardinality(o \cup {k}) = IF k \in o THEN n ELSE n + 1
          /\ Cardinality(o \ {k}) = IF k \in o THEN n - 1 ELSE n
      BY <3>1, FS_AddElement, FS_RemoveElement
    <3> QED
      BY <3>2 DEF o, n
  <2>2. CASE press
    BY <2>1, <2>2 DEF GenerateKeyEvent
  <2>3. CASE ~press /\ k \in g.out
    BY <2>1, <2>3 DEF GenerateKeyEvent
  <2>4. CASE ~press /\ k \notin g.out
    BY <1>1, <2>4 DEF GenerateKeyEvent
  <2> QED
    BY <2>2, <2>3, <2>4
<1>3. ~MayDisable => h.out \cap HasEvdev \subseteq h.desk
  BY <1>1 DEF GenerateKeyEvent, Inject
<1> QED
  BY <1>1, <1>2, <1>3 DEF Exacted

LEMMA CountExact ==
  ASSUME IsFiniteSet(pressed), pressCount = Cardinality(pressed),
         NEW k, NEW press \in BOOLEAN, CountPress(k, press)
  PROVE  IsFiniteSet(pressed') /\ pressCount' = Cardinality(pressed')
<1>1. /\ IsFiniteSet(pressed \cup {k}) /\ IsFiniteSet(pressed \ {k})
      /\ Cardinality(pressed \cup {k}) = IF k \in pressed THEN pressCount ELSE pressCount + 1
      /\ Cardinality(pressed \ {k}) = IF k \in pressed THEN pressCount - 1 ELSE pressCount
  BY FS_AddElement, FS_RemoveElement
<1> QED
  BY <1>1 DEF CountPress

LEMMA CountedEvent ==
  ASSUME TypeOK, Counted, NEW k \in Key, NEW press \in BOOLEAN, KeyEvent(k, press)
  PROVE  Counted'
<1>0. setting' = setting /\ enabled' = enabled
  BY DEF KeyEvent
<1>1. CASE Bypass(k, press)
  <2>1. MayDisable \/ out = {}
    BY <1>1 DEF Bypass, Counted
  <2>2. pressed' = pressed /\ pressCount' = pressCount /\ out' = out /\ outCount' = outCount
        /\ desk' \in SUBSET Key
    BY <1>1 DEF Bypass, Inject, flagVars, TypeOK
  <2>3. Output' \in Exacted
    BY <2>1, <2>2 DEF Counted, Output, Exacted, Outputs
  <2> QED
    BY <1>0, <2>2, <2>3 DEF Counted
<1>2. CASE UnknownKey(k)
  BY <1>0, <1>2 DEF UnknownKey, flagVars, outVars, Counted, Output
<1>3. CASE Translating(k, press)
  <2>1. setting # NoSetting /\ k \in Keyboard[setting] /\ CountPress(k, press)
    BY <1>3 DEF Translating, ByKeymap, ByProcessor
  <2> DEFINE G == {g \in Exacted : g.out \subseteq Keyboard[setting]}
  <2>2. G \in SUBSET Outputs /\ Output \in G
    BY <2>1 DEF Exacted, Counted, Output
  <2>3. \A g \in G, x \in Keyboard[setting], p \in BOOLEAN : GenerateKeyEvent(g, x, p) \in G
    <3> SUFFICES ASSUME NEW g \in G, NEW x \in Keyboard[setting], NEW p \in BOOLEAN
                 PROVE  GenerateKeyEvent(g, x, p) \in G
      OBVIOUS
    <3>1. GenerateKeyEvent(g, x, p) \in Exacted
      BY <2>1, SettingIs, EventExact
    <3>2. GenerateKeyEvent(g, x, p).out \subseteq Keyboard[setting]
      BY DEF GenerateKeyEvent
    <3> QED
      BY <3>1, <3>2
  <2>4. Output' \in G
    <3> HIDE DEF G
    <3> QED
      BY <1>3, <2>2, <2>3, OutputKept
  <2>5. IsFiniteSet(pressed') /\ pressCount' = Cardinality(pressed')
    BY <2>1, CountExact DEF Counted
  <2>6. pressed' \subseteq Keyboard[setting]
    BY <2>1 DEF CountPress, Counted
  <2>7. out' \subseteq Keyboard[setting]
    BY <2>4 DEF Output
  <2> QED
    BY <1>0, <2>1, <2>4, <2>5, <2>6, <2>7 DEF Counted
<1> QED
  BY <1>1, <1>2, <1>3 DEF KeyEvent, Translating

LEMMA CountedStep ==
  ASSUME SameKeys, TypeOK, Counted, [Next]_vars
  PROVE  Counted'
<1> USE DEF flagVars, outVars, modVars
<1>1. CASE \E k \in Key, press \in BOOLEAN : KeyEvent(k, press)
  BY <1>1, CountedEvent
<1>2. CASE Tick
  BY <1>2 DEF Tick, Counted, Output
<1>3. ASSUME NEW c \in Config, SwitchConfiguration(c) PROVE Counted'
  <2>1. setting' = c /\ c # NoSetting /\ pressed \cup out \subseteq Keyboard[c]
    BY <1>3, ConfigurationAssumption DEF SwitchConfiguration, SameKeys, TypeOK, Counted
  <2>2. pressed' = pressed /\ out' = out
    BY <1>3, <2>1 DEF SwitchConfiguration
  <2> QED
    BY <1>3, <2>1, <2>2 DEF SwitchConfiguration, Counted, Output
<1>4. CASE SetEnabled
  BY <1>4 DEF SetEnabled, Counted, Output
<1>5. CASE UNCHANGED vars
  BY <1>5 DEF vars, Counted, Output
<1> QED
  BY <1>1, <1>2, <1>3, <1>4, <1>5 DEF Next

LEMMA CountersExact ==
  ASSUME SameKeys
  PROVE  Spec => [](Counted /\ Accounting)
<1>1. Init => Counted
  <2> SUFFICES ASSUME Init PROVE Counted
    OBVIOUS
  <2>1. IsFiniteSet({}) /\ Cardinality({}) = 0
    BY FS_EmptySet
  <2>2. Output \in Exacted
    BY <2>1 DEF Init, Output, Exacted, Outputs
  <2> QED
    BY <2>1, <2>2 DEF Init, Counted
<1>2. TypeOK /\ Counted /\ [Next]_vars => Counted'
  BY CountedStep
<1>3. Counted => Accounting
  BY DEF Counted, Accounting, Exacted, Output
<1> QED
  BY <1>1, <1>2, <1>3, EngineTypeCorrect, PTL DEF Spec

-----------------------------------------------------------------------------
(* What a key does, through switches and disabling.  The configurations have   *)
(* one virtual modifier with at most one trigger: with two, the early match    *)
(* takes keys before the sweep, and its second attempt ignores the modifiers.  *)

OneModifier ==
  /\ \A m, n \in Mod : m = n
  /\ \A c \in Config : \A t, u \in DOMAIN Trigger[c] : t = u

\* The second translation leaves the keys of the configurations alone.
KeysTranslate == \A c \in Config : \A k \in Keyboard[c] \cap HasEvdev : EvdevToYamy[k] = k

\* Only triggers of the configuration in force are not IDLE, and the latest event
\* went through an assignment whose modifiers are still active.
LayerKept ==
  /\ \A t \in Key : keyState[t] # "IDLE" => setting # NoSetting /\ t \in DOMAIN Trigger[setting]
  /\ fired \subseteq active

LEMMA KeymapFires ==
  ASSUME TypeOK, OneModifier, NEW k \in Key, NEW press \in BOOLEAN, ByKeymap(k, press)
  PROVE  fired' \subseteq active
<1>1. fired' \in SUBSET Mod
  BY KeymapType
<1>2. active # {}
  BY DEF ByKeymap, EarlyAssignment
<1> QED
  BY <1>1, <1>2 DEF TypeOK, OneModifier

LEMMA ProcessorFires ==
  ASSUME TypeOK, NEW k \in Key, NEW press \in BOOLEAN, NEW lag \in 0 .. Lag,
         ByProcessor(k, press, lag)
  PROVE  fired' \subseteq active'
<1>1. setting # NoSetting
  BY DEF ByProcessor
<1>2. CASE fired' = {}
  BY <1>2
<1>3. CASE PassOn(k, EvdevToYamy[k], press, active')
  <2> DEFINE i == FindMatch(KeymapOf(setting), EvdevToYamy[k], active')
  <2>1. fired' = IF i = 0 THEN {} ELSE KeymapOf(setting)[i].mods
    BY <1>3 DEF PassOn
  <2>2. i # 0 => KeymapOf(setting)[i].mods \subseteq active'
    BY <1>1, SettingIs, MatchFinds
  <2> QED
    BY <2>1, <2>2
<1> QED
  BY <1>2, <1>3 DEF ByProcessor

LEMMA LayerStep ==
  ASSUME TypeOK, OneModifier, LayerKept, [Next]_vars
  PROVE  LayerKept'
<1>1. ASSUME NEW k \in Key, NEW press \in BOOLEAN, KeyEvent(k, press) PROVE LayerKept'
  <2>0. setting' = setting
    BY <1>1 DEF KeyEvent
  <2>1. CASE Bypass(k, press) \/ UnknownKey(k)
    BY <2>0, <2>1 DEF Bypass, UnknownKey, modVars, LayerKept
  <2>2. CASE ByKeymap(k, press)
    <3>1. UNCHANGED <<keyState, active>>
      BY <2>2 DEF ByKeymap, modVars
    <3> QED
      BY <2>0, <2>2, <3>1, KeymapFires DEF LayerKept
  <2>3. ASSUME NEW lag \in 0 .. Lag, ByProcessor(k, press, lag) PROVE LayerKept'
    <3>1. fired' \subseteq active'
      BY <2>3, ProcessorFires
    <3>2. setting # NoSetting /\ EvdevToYamy[k] \in Key \cup {NoKey}
      BY <2>3, ConfigurationAssumption DEF ByProcessor
    <3>3. ASSUME NEW t \in Key, keyState'[t] # "IDLE" PROVE t \in DOMAIN Trigger[setting]
      <4>1. CASE t = EvdevToYamy[k]
        <5>1. keyState'[t] = Decision(t, press, lag).state
          BY <2>3, <4>1, NextStates
        <5> QED
          BY <3>2, <3>3, <4>1, <5>1, DecisionIs
      <4>2. CASE t # EvdevToYamy[k]
        <5>1. keyState'[t] = Standing(t)
          BY <2>3, <4>2, NextStates
        <5> QED
          BY <3>3, <5>1 DEF Standing, Woken, LayerKept
      <4> QED
        BY <4>1, <4>2
    <3> QED
      BY <2>0, <3>1, <3>2, <3>3 DEF LayerKept
  <2> QED
    BY <1>1, <2>1, <2>2, <2>3 DEF KeyEvent
<1>2. CASE Tick
  BY <1>2 DEF Tick, LayerKept
<1>3. CASE \E c \in Config : SwitchConfiguration(c)
  BY <1>3 DEF SwitchConfiguration, LayerKept
<1>4. CASE SetEnabled
  BY <1>4 DEF SetEnabled, modVars, LayerKept
<1>5. CASE UNCHANGED vars
  BY <1>5 DEF vars, modVars, LayerKept
<1> QED
  BY <1>1, <1>2, <1>3, <1>4, <1>5 DEF Next

LEMMA Layers ==
  ASSUME OneModifier
  PROVE  Spec => [](TypeOK /\ LayerKept)
<1>1. Init => LayerKept
  BY DEF Init, LayerKept
<1>2. TypeOK /\ LayerKept /\ [Next]_vars => LayerKept'
  BY LayerStep
<1> QED
  BY <1>1, <1>2, EngineTypeCorrect, PTL DEF Spec

\* A key that goes down is the key of the event, and it is pressed.
LEMMA WentDown ==
  ASSUME TypeOK, [Next]_vars, NEW k \in phys' \ phys
  PROVE  k \in Key /\ \E press \in BOOLEAN : press /\ KeyEvent(k, press)
<1>1. CASE \E x \in Key, press \in BOOLEAN : KeyEvent(x, press)
  <2>1. PICK x \in Key, press \in BOOLEAN : KeyEvent(x, press)
    BY <1>1
  <2>2. phys' = IF press THEN phys \cup {x} ELSE phys \ {x}
    BY <2>1 DEF KeyEvent, Device
  <2>3. x = k /\ press
    BY <2>2
  <2> QED
    BY <2>1, <2>3
<1>2. CASE phys' = phys
  BY <1>2
<1> QED
  BY <1>1, <1>2 DEF Next, Tick, SwitchConfiguration, SetEnabled, vars

LEMMA FiresUnderModifiers ==
  ASSUME TypeOK, OneModifier, LayerKept, [Next]_vars
  PROVE  fired' \subseteq active \cup active'
<1>1. ASSUME NEW k \in Key, NEW press \in BOOLEAN, KeyEvent(k, press)
      PROVE  fired' \subseteq active \cup active'
  <2>1. CASE Bypass(k, press) \/ UnknownKey(k)
    BY <2>1 DEF Bypass, UnknownKey
  <2>2. CASE ByKeymap(k, press)
    BY <2>2, KeymapFires
  <2>3. CASE \E lag \in 0 .. Lag : ByProcessor(k, press, lag)
    BY <2>3, ProcessorFires
  <2> QED
    BY <1>1, <2>1, <2>2, <2>3 DEF KeyEvent
<1>2. CASE Tick \/ UNCHANGED vars
  BY <1>2 DEF Tick, LayerKept, vars
<1>3. CASE (\E c \in Config : SwitchConfiguration(c)) \/ SetEnabled
  BY <1>3 DEF SwitchConfiguration, SetEnabled
<1> QED
  BY <1>1, <1>2, <1>3 DEF Next

LEMMA UnmappedPasses ==
  ASSUME TypeOK, KeysTranslate, [Next]_vars, NEW k \in phys' \ phys, Unmapped(k)
  PROVE  k \in desk'
<1>0. /\ setting # NoSetting /\ enabled /\ k \in Keyboard[setting] /\ k \in HasEvdev
      /\ OfKey(KeymapOf(setting), k) = {} /\ k \notin DOMAIN Trigger[setting]
  BY DEF Unmapped
<1>1. k \in Key /\ k # NoKey /\ EvdevToYamy[k] = k
  BY <1>0, WentDown, SettingIs, ConfigurationAssumption DEF KeysTranslate
<1>p. PICK press \in BOOLEAN : press /\ KeyEvent(k, press)
  BY WentDown
<1>2. EarlyAssignment(k) = 0
  <2> DEFINE i == SearchAssignment(KeymapOf(setting), k, active)
  <2>1. i # 0 => i \in DOMAIN KeymapOf(setting) /\ KeymapOf(setting)[i].key = k
    BY <1>0, SettingIs, SearchFinds
  <2> HIDE DEF i
  <2>2. i = 0
    BY <1>0, <2>1 DEF OfKey
  <2> QED
    BY <2>2 DEF EarlyAssignment, i
<1>3. PICK lag \in 0 .. Lag : ByProcessor(k, press, lag)
  BY <1>0, <1>p, <1>2 DEF KeyEvent, Bypass, UnknownKey, ByKeymap
<1>4. Decision(k, press, lag) = Result("IDLE", "PASS")
  BY <1>0, <1>1 DEF Decision
<1>5. PICK mods : PassOn(k, k, press, mods)
  BY <1>1, <1>3, <1>4 DEF ByProcessor, Result
<1>6. FindMatch(KeymapOf(setting), k, mods) = 0
  <2> DEFINE i == FindMatch(KeymapOf(setting), k, mods)
  <2>1. i # 0 => i \in DOMAIN KeymapOf(setting) /\ KeymapOf(setting)[i].key = k
    BY <1>0, SettingIs, MatchFinds
  <2> HIDE DEF i
  <2>2. i = 0
    BY <1>0, <2>1 DEF OfKey
  <2> QED
    BY <2>2 DEF i
<1>7. Emit(GenerateKeyEvent(Output, k, press))
  BY <1>0, <1>5, <1>6 DEF PassOn
<1> QED
  BY <1>0, <1>7, <1>p DEF Emit, GenerateKeyEvent, Inject, Output

LEMMA SweptBefore ==
  ASSUME TypeOK, OneModifier, LayerKept, [Next]_vars, NEW k \in phys' \ phys,
         setting # NoSetting, enabled, k \in Keyboard[setting], ModifierTracksTrigger,
         NEW t \in DOMAIN Trigger[setting], keyState[t] = "WAITING", HasExceededThreshold(age[t])
  PROVE  keyState'[t] = "ACTIVE"
<1>p. PICK press \in BOOLEAN : press /\ KeyEvent(k, press)
  BY WentDown
<1>1. k \in Key /\ t \in Key /\ t \in Woken /\ Standing(t) = "ACTIVE"
  BY WentDown, SettingIs DEF Woken, Activates, Standing
<1>2. active = {}
  <2> SUFFICES ASSUME NEW m \in active PROVE FALSE
    OBVIOUS
  <2>1. PICK u \in Key : keyState[u] = "ACTIVE"
    BY DEF ModifierTracksTrigger
  <2>2. u = t
    BY <2>1, SettingIs DEF LayerKept, OneModifier
  <2> QED
    BY <2>1, <2>2
<1>3. PICK lag \in 0 .. Lag : ByProcessor(k, press, lag)
  BY <1>p, <1>2 DEF KeyEvent, Bypass, UnknownKey, ByKeymap, EarlyAssignment
<1>4. CASE t = EvdevToYamy[k]
  <2>1. keyState'[t] = Decision(t, press, lag).state
    BY <1>1, <1>3, <1>4, NextStates
  <2>2. Decision(t, press, lag) = Result("ACTIVE", "SUPPRESS")
    BY <1>1, <1>p, DecisionIs
  <2> QED
    BY <2>1, <2>2 DEF Result
<1>5. CASE t # EvdevToYamy[k]
  BY <1>1, <1>3, <1>5, NextStates
<1> QED
  BY <1>4, <1>5

\* Through any sequence of key events, switches and disabling: assignments apply
\* under their modifier only, unmapped keys pass through, a trigger that has been
\* held long enough counts before the next key, and the counters stay exact.
THEOREM TranslationIsMeant ==
  ASSUME SameKeys, OneModifier, KeysTranslate
  PROVE  Spec => TranslationMeant
<1>1. Spec => RequiredModsActive
  <2>1. TypeOK /\ LayerKept /\ [Next]_vars => fired' \subseteq active \cup active'
    BY FiresUnderModifiers
  <2> QED
    BY <2>1, Layers, PTL DEF Spec, RequiredModsActive
<1>2. Spec => PassThrough
  <2>1. TypeOK /\ LayerKept /\ [Next]_vars => \A k \in phys' \ phys : Unmapped(k) => k \in desk'
    BY UnmappedPasses
  <2> QED
    BY <2>1, Layers, PTL DEF Spec, PassThrough
<1>3. Spec => HeldBeforeNextKey
  <2>1. TypeOK /\ LayerKept /\ [Next]_vars =>
          \A k \in phys' \ phys :
            setting # NoSetting /\ enabled /\ k \in Keyboard[setting] /\ ModifierTracksTrigger =>
              \A t \in DOMAIN Trigger[setting] :
                keyState[t] = "WAITING" /\ HasExceededThreshold(age[t]) => keyState'[t] = "ACTIVE"
    BY SweptBefore
  <2> QED
    BY <2>1, Layers, PTL DEF Spec, HeldBeforeNextKey
<1>4. Spec => []Accounting
  BY CountersExact, PTL
<1> QED
  BY <1>1, <1>2, <1>3, <1>4 DEF TranslationMeant

-----------------------------------------------------------------------------
(* No stuck keys.  A key can stay down on the desktop when its release is      *)
(* translated otherwise than its press; that does not happen with a            *)
(* configuration that is in force from the start, maps keys to single keys     *)
(* whatever the modifiers, and keys that the second translation and the        *)
(* injector know, provided that no event is processed so slowly that a press   *)
(* of a trigger passes from below the threshold to above the maximum.          *)

PlainMappings(c) ==
  /\ Restored = c /\ HoldThreshold + Lag <= MaximumHold + 1
  /\ \A i \in DOMAIN Mappings[c] :
       LET a == Mappings[c][i] IN
       a.mods = {} /\ Len(a.to) = 1 /\ a.to[1] \in HasEvdev /\ EvdevToYamy[a.key] = a.key

Plain(c) == {a \in Assignment(c) : a.mods = {} /\ Len(a.to) = 1 /\ a.to[1] \in HasEvdev
                                    /\ EvdevToYamy[a.key] = a.key}

LEMMA PlainKeymap ==
  ASSUME NEW c \in Config, PlainMappings(c)
  PROVE  KeymapOf(c) \in Keymaps(Plain(c))
<1>1. Mappings[c] \in Seq(Plain(c))
  <2>1. Mappings[c] \in Seq(Assignment(c))
    BY ConfigurationAssumption
  <2>2. \A i \in DOMAIN Mappings[c] : Mappings[c][i] \in Plain(c)
    BY <2>1 DEF PlainMappings, Plain
  <2> QED
    BY <2>1, <2>2
<1> QED
  BY <1>1, LoadKeeps DEF KeymapOf

\* What the event of key k presses or releases: one key or none.
Substitute(c, y) ==
  LET i == FindMatch(KeymapOf(c), y, {})
  IN  IF i = 0 THEN y ELSE KeymapOf(c)[i].to[1]

Emitted(c, k) ==
  LET code == Substitute(c, EvdevToYamy[k])
  IN  IF \/ k \notin Keyboard[c] \/ code \notin HasEvdev
         \/ EvdevToYamy[k] \in DOMAIN Trigger[c] \cup {NoKey}
      THEN {}
      ELSE {IF code \in Keyboard[c] THEN code ELSE k}

\* All that the engine holds down is down through a key that the user holds, and the
\* desktop sees what of it can be injected.
Backed(c) ==
  /\ setting = c /\ enabled
  /\ desk = out \cap HasEvdev
  /\ \A d \in out : \E k \in phys : d \in Emitted(c, k)

\* The modifiers make no difference to the match.
LEMMA PlainMatch ==
  ASSUME NEW c \in Config, PlainMappings(c), NEW y, NEW mods
  PROVE  FindMatch(KeymapOf(c), y, mods) = FindMatch(KeymapOf(c), y, {})
<1> DEFINE m == KeymapOf(c)
<1>1. m \in Seq(Plain(c))
  BY PlainKeymap DEF Keymaps
<1>2. \A i \in DOMAIN m : m[i].mods = {}
  BY <1>1 DEF Plain
<1> HIDE DEF m
<1>3. {i \in DOMAIN m : m[i].key = y /\ m[i].mods \subseteq mods}
        = {i \in DOMAIN m : m[i].key = y /\ m[i].mods \subseteq {}}
  BY <1>2
<1> QED
  BY <1>3 DEF FindMatch, m

LEMMA PlainSubstitute ==
  ASSUME NEW c \in Config, PlainMappings(c), NEW y, NEW i \in DOMAIN KeymapOf(c),
         KeymapOf(c)[i].key = y
  PROVE  /\ Substitute(c, y) = KeymapOf(c)[i].to[1]
         /\ Head(KeymapOf(c)[i].to) = KeymapOf(c)[i].to[1]
         /\ Len(KeymapOf(c)[i].to) = 1 /\ KeymapOf(c)[i].to \in Seq(Keyboard[c]) \ {<<>>}
         /\ KeymapOf(c)[i].to[1] \in HasEvdev \cap Keyboard[c] /\ EvdevToYamy[y] = y
<1> DEFINE m == KeymapOf(c)
           j == FindMatch(m, y, {})
<1>1. m \in Seq(Plain(c)) /\ Distinct(m)
  BY PlainKeymap DEF Keymaps
<1>2. \A n \in DOMAIN m : m[n] \in Plain(c)
  BY <1>1
<1>3. m[i] \in Plain(c) /\ m[i].key = y
  BY <1>2
<1>4. j = i
  <2>1. /\ j = 0 => \A n \in DOMAIN m : m[n].key = y => ~(m[n].mods \subseteq {})
        /\ j # 0 => j \in DOMAIN m /\ m[j].key = y
    BY <1>1, MatchFinds
  <2> HIDE DEF j
  <2>2. j # 0
    BY <1>3, <2>1 DEF Plain
  <2>3. m[j] \in Plain(c) /\ m[j].key = y /\ j \in DOMAIN m
    BY <1>2, <2>1, <2>2
  <2> QED
    BY <1>1, <1>3, <2>3 DEF Distinct, Plain
<1>5. i # 0
  BY <1>1
<1>6. Substitute(c, y) = m[i].to[1]
  BY <1>4, <1>5 DEF Substitute
<1> HIDE DEF m
<1>7. m[i].to \in Seq(Keyboard[c]) /\ m[i].to # <<>> /\ Len(m[i].to) = 1
      /\ m[i].to[1] \in HasEvdev /\ EvdevToYamy[y] = y
  BY <1>3 DEF Plain, Assignment
<1>8. m[i].to[1] \in Keyboard[c] /\ Head(m[i].to) = m[i].to[1]
  BY <1>7
<1> QED
  BY <1>6, <1>7, <1>8 DEF m

\* An event of k puts down what k emits, takes it up, or leaves the desktop alone
\* but for a key that a tap took up.
LEMMA BackedEvent ==
  ASSUME TypeOK, NEW c \in Config, OneConfiguration(c), FreeTriggers(c), PlainMappings(c), Backed(c),
         NEW k \in Key, NEW press \in BOOLEAN, KeyEvent(k, press)
  PROVE  Backed(c)'
<1>0. /\ setting' = setting /\ enabled' = enabled /\ setting = c /\ setting # NoSetting
      /\ phys' = IF press THEN phys \cup {k} ELSE phys \ {k}
      /\ desk = out \cap HasEvdev
  BY ConfigurationAssumption DEF KeyEvent, Device, Backed
<1> DEFINE y == EvdevToYamy[k]
<1>7. y \in Key \cup {NoKey}
  BY ConfigurationAssumption
<1>1. ASSUME desk' = out' \cap HasEvdev, out' \subseteq out, ~press => out' \cap Emitted(c, k) = {}
      PROVE  Backed(c)'
  BY <1>0, <1>1 DEF Backed
<1>2. ASSUME NEW x \in Emitted(c, k), Emitted(c, k) = {x}, Emit(GenerateKeyEvent(Output, x, press))
      PROVE  Backed(c)'
  <2>1. CASE press
    <3>1. out' = out \cup {x} /\ desk' = out' \cap HasEvdev
      BY <1>0, <1>2, <2>1 DEF Emit, GenerateKeyEvent, Inject, Output
    <3> QED
      BY <1>0, <1>2, <2>1, <3>1 DEF Backed
  <2>2. CASE ~press
    <3>1. out' = out \ {x} /\ desk' = out' \cap HasEvdev
      BY <1>0, <1>2, <2>2 DEF Emit, GenerateKeyEvent, Inject, Output
    <3> QED
      BY <1>1, <1>2, <3>1
  <2> QED
    BY <2>1, <2>2
<1>3. CASE Bypass(k, press)
  BY <1>0, <1>3 DEF Bypass, Backed
<1>4. CASE UNCHANGED outVars /\ Emitted(c, k) = {}
  BY <1>0, <1>1, <1>4 DEF outVars
<1>5. CASE UnknownKey(k)
  BY <1>0, <1>4, <1>5 DEF UnknownKey, Emitted
<1>6. CASE ByKeymap(k, press)
  <2> DEFINE i == EarlyAssignment(k)
             x == KeymapOf(c)[i].to[1]
  <2>1. i # 0 /\ k \in Keyboard[c] /\ Emit(GenerateKeySeqEvents(Output, KeymapOf(c)[i].to, press))
    BY <1>0, <1>6 DEF ByKeymap
  <2>2. i \in DOMAIN KeymapOf(c) /\ KeymapOf(c)[i].key = k
    BY <1>0, <2>1, SettingIs, SearchFinds DEF EarlyAssignment
  <2>3. y \notin DOMAIN Trigger[c]
    BY <1>0, <2>1, TriggerNotMapped
  <2>4. /\ Substitute(c, k) = x /\ x \in HasEvdev \cap Keyboard[c] /\ y = k /\ k # NoKey
        /\ KeymapOf(c)[i].to \in Seq(Keyboard[c]) \ {<<>>} /\ Len(KeymapOf(c)[i].to) = 1
    BY <2>2, PlainSubstitute, ConfigurationAssumption
  <2>5. Emitted(c, k) = {x}
    BY <2>1, <2>3, <2>4 DEF Emitted
  <2>6. GenerateKeySeqEvents(Output, KeymapOf(c)[i].to, press) = GenerateKeyEvent(Output, x, press)
    <3>1. Output \in Outputs
      BY DEF Output, Outputs, TypeOK
    <3>2. \A g \in Outputs, z \in Keyboard[c], p \in BOOLEAN : GenerateKeyEvent(g, z, p) \in Outputs
      BY <1>0, SettingIs, EventOutput
    <3> QED
      BY <2>4, <3>1, <3>2, SeqKeeps
  <2> HIDE DEF x
  <2> QED
    BY <1>2, <2>1, <2>5, <2>6
<1>8. ASSUME NEW lag \in 0 .. Lag, ByProcessor(k, press, lag) PROVE Backed(c)'
  <2> DEFINE r == Decision(y, press, lag)
  <2>0. k \in Keyboard[c]
    BY <1>0, <1>8 DEF ByProcessor
  <2>1. CASE r.action # "PASS" /\ ~(r.action = "TAP" /\ TapOf(setting, y) \in HasEvdev) /\ Emitted(c, k) = {}
    BY <1>4, <1>8, <2>1 DEF ByProcessor
  <2>2. CASE y \notin DOMAIN Trigger[c]
    <3>1. r.action = IF y = NoKey THEN "SUPPRESS" ELSE "PASS"
      BY <1>0, <1>7, <2>2, DecisionIs
    <3>2. CASE y = NoKey
      BY <2>1, <3>1, <3>2 DEF Emitted
    <3>3. CASE y # NoKey
      <4>1. PICK mods : PassOn(k, y, press, mods)
        BY <1>8, <3>1, <3>3 DEF ByProcessor
      <4> DEFINE i    == FindMatch(KeymapOf(c), y, mods)
                 code == IF i = 0 THEN y ELSE Head(KeymapOf(c)[i].to)
                 x    == IF code \in Keyboard[c] THEN code ELSE k
      <4>2. IF code \in HasEvdev THEN Emit(GenerateKeyEvent(Output, x, press)) ELSE UNCHANGED outVars
        BY <1>0, <4>1 DEF PassOn
      <4>3. code = Substitute(c, y)
        <5>1. i = FindMatch(KeymapOf(c), y, {})
          BY PlainMatch
        <5>2. i # 0 => i \in DOMAIN KeymapOf(c) /\ KeymapOf(c)[i].key = y
          BY <1>0, SettingIs, MatchFinds
        <5>3. i # 0 => Head(KeymapOf(c)[i].to) = Substitute(c, y)
          BY <5>2, PlainSubstitute
        <5>4. i = 0 => Substitute(c, y) = y
          BY <5>1 DEF Substitute
        <5> HIDE DEF i
        <5> QED
          BY <5>3, <5>4
      <4> HIDE DEF code
      <4>4. CASE code \in HasEvdev
        <5>1. Emitted(c, k) = {x}
          BY <2>0, <2>2, <3>3, <4>3, <4>4 DEF Emitted
        <5> HIDE DEF x
        <5> QED
          BY <1>2, <4>2, <4>4, <5>1
      <4>5. CASE code \notin HasEvdev
        BY <1>4, <4>2, <4>3, <4>5 DEF Emitted
      <4> QED
        BY <4>4, <4>5
    <3> QED
      BY <3>2, <3>3
  <2>3. CASE y \in DOMAIN Trigger[c]
    <3>0. Emitted(c, k) = {}
      BY <2>3 DEF Emitted
    <3>1. CASE press
      <4>1. y \in Key /\ age[y] \in Nat /\ lag \in Nat /\ lag <= Lag
        BY <1>0, <2>3, SettingIs, TimingAssumption, ConfigurationAssumption DEF TypeOK, Age
      <4>2. Standing(y) = "WAITING" => ~HasExceededMaximum(Older(age[y], lag))
        <5> SUFFICES ASSUME Standing(y) = "WAITING"
                     PROVE  ~HasExceededMaximum(Older(age[y], lag))
          OBVIOUS
        <5>1. ~HasExceededThreshold(age[y])
          BY <1>0, <2>3 DEF Standing, Woken, Activates
        <5> QED
          BY <4>1, <5>1, TimingAssumption, ConfigurationAssumption
             DEF HasExceededThreshold, HasExceededMaximum, Older, PlainMappings
      <4>3. r.action \in {"SUPPRESS", "ACTIVATE"}
        <5>1. \/ r \in {Result("WAITING", "SUPPRESS"), Result("ACTIVE", "ACTIVATE"), Result("ACTIVE", "SUPPRESS")}
              \/ Standing(y) = "WAITING" /\ HasExceededMaximum(Older(age[y], lag))
          <6>1. y \in DOMAIN Trigger[setting] /\ setting # NoSetting
            BY <1>0, <2>3
          <6> HIDE DEF y
          <6>2. \/ Standing(y) = "IDLE" /\ r = Result("WAITING", "SUPPRESS")
                \/ Standing(y) = "WAITING" /\ r \in {Result("WAITING", "SUPPRESS"), Result("ACTIVE", "ACTIVATE")}
                \/ Standing(y) = "WAITING" /\ HasExceededMaximum(Older(age[y], lag))
                \/ Standing(y) = "ACTIVE" /\ r = Result("ACTIVE", "SUPPRESS")
            BY <1>7, <3>1, <6>1, DecisionIs
          <6> HIDE DEF r
          <6> QED
            BY <6>2
        <5> HIDE DEF r, y
        <5> QED
          BY <4>2, <5>1 DEF Result
      <4> QED
        BY <2>1, <3>0, <4>3
    <3>2. CASE ~press /\ r.action = "PASS"
      <4>1. PICK mods : PassOn(k, y, press, mods)
        BY <1>8, <3>2 DEF ByProcessor
      <4>2. UNCHANGED outVars \/ \E x : Emit(GenerateKeyEvent(Output, x, press))
        BY <4>1 DEF PassOn
      <4>3. ASSUME NEW x, Emit(GenerateKeyEvent(Output, x, press)) PROVE Backed(c)'
        <5>1. out' = out \ {x} /\ desk' = out' \cap HasEvdev
          BY <1>0, <3>2, <4>3 DEF Emit, GenerateKeyEvent, Inject, Output
        <5> QED
          BY <1>1, <3>0, <5>1
      <4> QED
        BY <1>4, <3>0, <4>2, <4>3
    <3>3. CASE r.action = "TAP" /\ TapOf(setting, y) \in HasEvdev
      <4> DEFINE x == TapOf(setting, y)
      <4>1. Emit(GenerateTap(Output, x))
        BY <1>8, <3>3 DEF ByProcessor
      <4>2. out' = out \ {x} /\ desk' = out' \cap HasEvdev
        BY <1>0, <4>1 DEF Emit, GenerateTap, GenerateKeyEvent, Inject, Output
      <4> QED
        BY <1>1, <3>0, <4>2
    <3> QED
      BY <2>1, <3>0, <3>1, <3>2, <3>3
  <2> QED
    BY <2>2, <2>3
<1> QED
  BY <1>3, <1>5, <1>6, <1>8 DEF KeyEvent

LEMMA BackedStep ==
  ASSUME TypeOK, NEW c \in Config, OneConfiguration(c), FreeTriggers(c), PlainMappings(c), Backed(c),
         [Next]_vars
  PROVE  Backed(c)'
<1>1. CASE \E k \in Key, press \in BOOLEAN : KeyEvent(k, press)
  BY <1>1, BackedEvent
<1>2. CASE Tick
  BY <1>2 DEF Tick, outVars, Backed
<1>3. CASE (\E d \in Config : SwitchConfiguration(d)) \/ SetEnabled
  BY <1>3 DEF SwitchConfiguration, SetEnabled, OneConfiguration, Backed
<1>4. CASE UNCHANGED vars
  BY <1>4 DEF vars, outVars, Backed
<1> QED
  BY <1>1, <1>2, <1>3, <1>4 DEF Next

\* No key stays down: with plain mappings, whatever the keyboard and the order of
\* the events, when the user holds no key the desktop sees none, and the counters
\* and flags agree with it.
THEOREM KeysComeUp ==
  ASSUME NEW c \in Config, OneConfiguration(c), FreeTriggers(c), PlainMappings(c)
  PROVE  Spec => []KeysBalanced
<1>1. Init => Backed(c)
  BY DEF Init, Backed, PlainMappings
<1>2. TypeOK /\ Backed(c) /\ [Next]_vars => Backed(c)'
  BY BackedStep
<1>3. Backed(c) => NoStuckKeys
  BY DEF Backed, NoStuckKeys
<1>4. Spec => []Accounting
  <2>1. SameKeys
    BY DEF SameKeys, OneConfiguration
  <2> QED
    BY <2>1, CountersExact, PTL
<1>5. Spec => []NoStuckKeys
  BY <1>1, <1>2, <1>3, EngineTypeCorrect, PTL DEF Spec
<1>6. Accounting /\ NoStuckKeys => KeysBalanced
  BY DEF KeysBalanced
<1> QED
  BY <1>4, <1>5, <1>6, PTL
=============================================================================
