--------------------------- MODULE ConfigSwitchProofs ---------------------------
(***************************************************************************)
(* Proofs about hot reload: with any number of files, settings and callers  *)
(* the handler works on a live Setting; with one caller at a time no        *)
(* Setting is deleted twice or lost, and the path names the setting.        *)
(***************************************************************************)
EXTENDS ConfigSwitch, TLAPS

LEMMA InitType == Init => TypeOK
BY SwitchAssumption DEF Init, TypeOK, Setting, Blank

LEMMA RestartType ==
  ASSUME TypeOK, NEW clean \in BOOLEAN, Restart(clean)
  PROVE  TypeOK'
<1> DEFINE saved == IF clean THEN adapterPath ELSE session
           load  == saved # NoPath /\ Parses(saved)
<1>1. saved \in Path \cup {NoPath} /\ (load => saved \in Path)
  BY DEF TypeOK
<1>2. load => version[saved] \in 0 .. MaxEdits
  BY <1>1 DEF TypeOK
<1>3. content' \in [Setting -> [path : Path \cup {NoPath}, version : 0 .. MaxEdits]]
  BY <1>1, <1>2, SwitchAssumption DEF Restart, Blank
<1> QED
  BY <1>1, <1>3, SwitchAssumption DEF Restart, TypeOK

LEMMA SwitchType ==
  ASSUME TypeOK, NEW c \in Caller, Switch(c)
  PROVE  TypeOK'
<1> USE SwitchAssumption DEF TypeOK, heapVars, engineVars, listVars, callVars, Succeeded
<1>1. CASE \E p \in Path, reload \in BOOLEAN : SwitchSame(c, p, reload)
  BY <1>1 DEF SwitchSame, Found, Request
<1>2. CASE \E p \in Path, reload \in BOOLEAN : SwitchFails(c, p, reload)
  BY <1>2 DEF SwitchFails, Found, Request
<1>3. CASE \E p \in Path, reload \in BOOLEAN : SwitchParses(c, p, reload)
  <2>1. PICK p \in Path, reload \in BOOLEAN : SwitchParses(c, p, reload)
    BY <1>3
  <2>2. made + 1 \in Setting /\ [path |-> p, version |-> version[p]]
                                  \in [path : Path \cup {NoPath}, version : 0 .. MaxEdits]
    BY <2>1 DEF SwitchParses, Setting
  <2> QED
    BY <2>1, <2>2 DEF SwitchParses, Request
<1>4. CASE ReadOld(c)
  BY <1>4 DEF ReadOld
<1>5. CASE Apply(c)
  BY <1>5 DEF Apply
<1>6. CASE Delete(c)
  <2>1. freed' \subseteq 1 .. made
    <3>1. freed \subseteq 1 .. made /\ freed' = freed \cup ({old[c]} \ {0})
      BY <1>6 DEF Delete
    <3>2. old[c] \in 0 .. made /\ made \in Nat
      OBVIOUS
    <3>3. {old[c]} \ {0} \subseteq 1 .. made
      BY ONLY <3>2, SMT
    <3> QED
      BY ONLY <3>1, <3>3, Zenon
  <2> QED
    BY <1>6, <2>1 DEF Delete
<1>7. CASE SetPath(c)
  BY <1>7 DEF SetPath
<1>8. CASE SetActive(c)
  BY <1>8 DEF SetActive, SetActiveConfig
<1>9. CASE SaveSession(c)
  BY <1>9 DEF SaveSession
<1>10. CASE Answer(c)
  BY <1>10 DEF Answer, SetActiveConfig
<1> QED
  BY <1>1, <1>2, <1>3, <1>4, <1>5, <1>6, <1>7, <1>8, <1>9, <1>10 DEF Switch

\* Every variable keeps its type: pointers point to objects that were made.
THEOREM SwitchTypeCorrect == Spec => []TypeOK
<1>1. TypeOK /\ [Next]_vars => TypeOK'
  <2> SUFFICES ASSUME TypeOK, [Next]_vars PROVE TypeOK'
    OBVIOUS
  <2> USE DEF heapVars, engineVars, listVars, callVars
  <2>1. CASE \E c \in Caller : Switch(c)
    BY <2>1, SwitchType
  <2>2. CASE Handler
    BY <2>2 DEF TypeOK, Handler, HandlerCheck, HandlerEnter, HandlerLeave
  <2>3. CASE \E p \in Path : Edit(p) \/ Unlist(p)
    <3>1. CASE \E p \in Path : Edit(p)
      BY <3>1, SwitchAssumption DEF TypeOK, Edit
    <3>2. CASE \E p \in Path : Unlist(p)
      BY <3>2 DEF TypeOK, Unlist
    <3> QED
      BY <2>3, <3>1, <3>2
  <2>4. CASE \E clean \in BOOLEAN : Restart(clean)
    BY <2>4, RestartType
  <2>5. CASE UNCHANGED vars
    BY <2>5 DEF TypeOK, vars
  <2> QED
    BY <2>1, <2>2, <2>3, <2>4, <2>5 DEF Next
<1> QED
  BY InitType, <1>1, PTL DEF Spec

-----------------------------------------------------------------------------
(* A Setting that is parsed but not yet installed is known to its maker only, *)
(* so whatever order the callers run in, the installed one is not deleted.    *)

Fresh(c) == pc[c] \in {"parsed", "apply"}

Owned ==
  /\ current \notin freed
  /\ \A c \in Caller : Fresh(c) =>
       /\ new[c] \notin freed /\ new[c] # current /\ new[c] # 0
       /\ \A d \in Caller : pc[d] \in {"apply", "delete"} => old[d] # new[c]
       /\ \A d \in Caller : d # c /\ Fresh(d) => new[d] # new[c]
  /\ \A c \in Caller : pc[c] = "delete" => old[c] # current

LEMMA InitOwned == Init => Owned
BY DEF Init, Owned, Fresh

LEMMA OwnedStep ==
  ASSUME TypeOK, Owned, [Next]_vars
  PROVE  Owned'
<1> USE DEF heapVars, engineVars, listVars, callVars
<1>1. ASSUME NEW c \in Caller, Switch(c) PROVE Owned'
  <2> USE <1>1
  <2>1. CASE \E p \in Path, reload \in BOOLEAN : SwitchSame(c, p, reload)
    BY <2>1 DEF SwitchSame, Owned, Fresh, Succeeded, TypeOK
  <2>2. CASE \E p \in Path, reload \in BOOLEAN : SwitchFails(c, p, reload)
    BY <2>2 DEF SwitchFails, Owned, Fresh
  <2>3. CASE \E p \in Path, reload \in BOOLEAN : SwitchParses(c, p, reload)
    <3>1. PICK p \in Path, reload \in BOOLEAN : SwitchParses(c, p, reload)
      BY <2>3
    <3>2. /\ made + 1 \notin freed /\ made + 1 # current /\ made + 1 # 0
          /\ \A d \in Caller : old[d] # made + 1 /\ new[d] # made + 1
      BY SwitchAssumption DEF TypeOK
    <3>3. /\ pc' = [pc EXCEPT ![c] = "parsed"] /\ new' = [new EXCEPT ![c] = made + 1]
          /\ old' = old /\ current' = current /\ freed' = freed
      BY <3>1 DEF SwitchParses
    <3> QED
      BY ONLY <3>2, <3>3, TypeOK, Owned, c \in Caller DEF Owned, Fresh, TypeOK
  <2>4. CASE ReadOld(c)
    BY <2>4 DEF ReadOld, Owned, Fresh, TypeOK
  <2>5. CASE Apply(c)
    BY <2>5 DEF Apply, Owned, Fresh, TypeOK
  <2>6. CASE Delete(c)
    BY <2>6 DEF Delete, Owned, Fresh, TypeOK
  <2>7. CASE SetPath(c)
    BY <2>7 DEF SetPath, Owned, Fresh, TypeOK
  <2>8. CASE SetActive(c)
    BY <2>8 DEF SetActive, SetActiveConfig, Owned, Fresh, Succeeded, TypeOK
  <2>9. CASE SaveSession(c)
    BY <2>9 DEF SaveSession, Owned, Fresh, TypeOK
  <2>10. CASE Answer(c)
    BY <2>10 DEF Answer, SetActiveConfig, Owned, Fresh, TypeOK
  <2> QED
    BY <2>1, <2>2, <2>3, <2>4, <2>5, <2>6, <2>7, <2>8, <2>9, <2>10 DEF Switch
<1>2. CASE Handler
  BY <1>2 DEF Handler, HandlerCheck, HandlerEnter, HandlerLeave, Owned, Fresh
<1>3. CASE \E p \in Path : Edit(p) \/ Unlist(p)
  BY <1>3 DEF Edit, Unlist, Owned, Fresh
<1>4. CASE \E clean \in BOOLEAN : Restart(clean)
  BY <1>4 DEF Restart, Owned, Fresh
<1>5. CASE UNCHANGED vars
  BY <1>5 DEF vars, Owned, Fresh
<1> QED
  BY <1>1, <1>2, <1>3, <1>4, <1>5 DEF Next

\* With keymaps in every file, m_currentKeymap moves with m_setting.
LEMMA KeymapStep ==
  ASSUME Unmapped = {}, TypeOK, keymap = current, [Next]_vars
  PROVE  (keymap = current)'
<1> USE DEF heapVars, engineVars, listVars, callVars
<1>1. ASSUME NEW c \in Caller, Switch(c) PROVE (keymap = current)'
  BY <1>1 DEF Switch, SwitchSame, SwitchFails, SwitchParses, ReadOld, Apply, Delete,
              SetPath, SetActive, SetActiveConfig, SaveSession, Answer
<1>2. CASE Handler
  BY <1>2 DEF Handler, HandlerCheck, HandlerEnter, HandlerLeave
<1>3. CASE \E p \in Path : Edit(p) \/ Unlist(p)
  BY <1>3 DEF Edit, Unlist
<1>4. CASE \E clean \in BOOLEAN : Restart(clean)
  BY <1>4 DEF Restart
<1>5. CASE UNCHANGED vars
  BY <1>5 DEF vars
<1> QED
  BY <1>1, <1>2, <1>3, <1>4, <1>5 DEF Next

\* Hot reload is safe for the handler, however many threads switch the
\* configuration and whatever they switch to, provided that every file has a
\* "mappings" section: m_setting and m_currentKeymap are live inside m_cs.
THEOREM HotReloadSafe ==
  ASSUME Unmapped = {}
  PROVE  Spec => []NoUseAfterFree
<1>1. Init => Owned /\ keymap = current
  BY InitOwned DEF Init
<1>2. TypeOK /\ Owned /\ keymap = current /\ [Next]_vars => (Owned /\ keymap = current)'
  BY OwnedStep, KeymapStep
<1>3. Owned /\ keymap = current => NoUseAfterFree
  BY DEF Owned, NoUseAfterFree
<1> QED
  BY <1>1, <1>2, <1>3, SwitchTypeCorrect, PTL DEF Spec

-----------------------------------------------------------------------------
(* One caller at a time: the objects that are alive are the installed one and *)
(* the one its command still has in hand.                                     *)

Held(c, s) == (Fresh(c) /\ s = new[c]) \/ (pc[c] = "delete" /\ s = old[c])

Ledger ==
  /\ \A s \in 1 .. made : s \notin freed <=> s = current \/ \E c \in Caller : Held(c, s)
  /\ \A c \in Caller :
       /\ pc[c] = "apply" => old[c] = current
       /\ pc[c] = "delete" => old[c] \notin freed
       /\ Fresh(c) => content[new[c]].path = target[c]
       /\ pc[c] \in {"delete", "path"} => current # 0 /\ content[current].path = target[c]

Named ==
  (\A c \in Caller : pc[c] \notin {"delete", "path"}) =>
    path = IF current = 0 THEN NoPath ELSE content[current].path

LEMMA LedgerStep ==
  ASSUME TypeOK, Owned, Ledger, Named, [Next]_vars,
         \A c, d \in Caller : c = d
  PROVE  Ledger' /\ Named'
<1> USE DEF heapVars, engineVars, listVars, callVars
<1>1. ASSUME NEW c \in Caller, Switch(c) PROVE Ledger' /\ Named'
  <2> USE <1>1
  <2>0. Caller = {c}
    OBVIOUS
  <2>1. CASE \E p \in Path, reload \in BOOLEAN : SwitchSame(c, p, reload)
    BY <2>0, <2>1 DEF SwitchSame, Found, Request, Ledger, Named, Held, Fresh, Succeeded, TypeOK
  <2>2. CASE \E p \in Path, reload \in BOOLEAN : SwitchFails(c, p, reload)
    BY <2>0, <2>2 DEF SwitchFails, Found, Request, Ledger, Named, Held, Fresh, TypeOK
  <2>3. CASE \E p \in Path, reload \in BOOLEAN : SwitchParses(c, p, reload)
    <3>1. PICK p \in Path, reload \in BOOLEAN : SwitchParses(c, p, reload)
      BY <2>3
    <3>2. made \in Nat /\ made + 1 \in Setting /\ made + 1 \notin freed /\ current # made + 1
      BY <3>1, SwitchAssumption DEF SwitchParses, TypeOK, Setting
    <3>3. /\ pc[c] = "idle" /\ pc'[c] = "parsed" /\ new'[c] = made + 1 /\ target'[c] = p
          /\ made' = made + 1 /\ freed' = freed /\ current' = current /\ path' = path
      BY <3>1 DEF SwitchParses, Request, TypeOK
    <3>4. /\ content'[made + 1].path = p
          /\ current # 0 => content'[current] = content[current]
      BY <3>1, <3>2 DEF SwitchParses, TypeOK
    <3>5. ASSUME NEW s \in 1 .. made'
          PROVE  s \notin freed' <=> s = current' \/ (\E e \in Caller : Held(e, s))'
      <4>1. CASE s = made + 1
        BY <2>0, <3>2, <3>3, <4>1 DEF Held, Fresh
      <4>2. CASE s \in 1 .. made
        BY <2>0, <3>2, <3>3, <4>2 DEF Held, Fresh, Ledger
      <4> QED
        BY <3>2, <3>3, <3>5, <4>1, <4>2
    <3>6. Ledger'
      BY <2>0, <3>2, <3>3, <3>4, <3>5 DEF Ledger, Fresh
    <3>7. Named'
      BY <2>0, <3>3, <3>4 DEF Named
    <3> QED
      BY <3>6, <3>7
  <2>4. CASE ReadOld(c)
    BY <2>0, <2>4 DEF ReadOld, Ledger, Named, Held, Fresh, TypeOK
  <2>5. CASE Apply(c)
    BY <2>0, <2>5 DEF Apply, Owned, Ledger, Named, Held, Fresh, TypeOK
  <2>6. CASE Delete(c)
    BY <2>0, <2>6 DEF Delete, Owned, Ledger, Named, Held, Fresh, TypeOK
  <2>7. CASE SetPath(c)
    BY <2>0, <2>7 DEF SetPath, Ledger, Named, Held, Fresh, TypeOK
  <2>8. CASE SetActive(c)
    BY <2>0, <2>8 DEF SetActive, SetActiveConfig, Ledger, Named, Held, Fresh, Succeeded, TypeOK
  <2>9. CASE SaveSession(c)
    BY <2>0, <2>9 DEF SaveSession, Ledger, Named, Held, Fresh, TypeOK
  <2>10. CASE Answer(c)
    BY <2>0, <2>10 DEF Answer, SetActiveConfig, Ledger, Named, Held, Fresh, TypeOK
  <2> QED
    BY <2>1, <2>2, <2>3, <2>4, <2>5, <2>6, <2>7, <2>8, <2>9, <2>10 DEF Switch
<1>2. CASE Handler
  BY <1>2 DEF Handler, HandlerCheck, HandlerEnter, HandlerLeave, Ledger, Named, Held, Fresh
<1>3. CASE \E p \in Path : Edit(p) \/ Unlist(p)
  BY <1>3 DEF Edit, Unlist, Ledger, Named, Held, Fresh
<1>4. CASE \E clean \in BOOLEAN : Restart(clean)
  BY <1>4, SwitchAssumption DEF Restart, Ledger, Named, Held, Fresh, Setting
<1>5. CASE UNCHANGED vars
  BY <1>5 DEF vars, Ledger, Named, Held, Fresh
<1> QED
  BY <1>1, <1>2, <1>3, <1>4, <1>5 DEF Next

LEMMA OneCallerInvariant ==
  ASSUME \A c, d \in Caller : c = d
  PROVE  Spec => [](TypeOK /\ Owned /\ Ledger /\ Named)
<1>1. Init => Owned /\ Ledger /\ Named
  <2>1. Init => Ledger /\ Named
    BY DEF Init, Ledger, Named, Held, Fresh
  <2> QED
    BY <2>1, InitOwned
<1>2. TypeOK /\ Owned /\ Ledger /\ Named /\ [Next]_vars => (Owned /\ Ledger /\ Named)'
  BY OwnedStep, LedgerStep
<1> QED
  BY <1>1, <1>2, SwitchTypeCorrect, PTL DEF Spec

\* With one caller at a time, hot reload neither deletes a Setting twice nor loses
\* one, and between commands m_currentConfigPath names the file in force.
THEOREM OneCallerSafe ==
  ASSUME \A c, d \in Caller : c = d
  PROVE  Spec => []SettingsAccounted
<1>1. TypeOK /\ Ledger /\ Named => SettingsAccounted
  <2> SUFFICES ASSUME TypeOK, Ledger, Named
               PROVE  NoDoubleFree /\ NoLeak /\ PathNamesSetting
    BY DEF SettingsAccounted
  <2>1. NoDoubleFree
    BY DEF NoDoubleFree, Ledger
  <2>2. PathNamesSetting
    BY DEF PathNamesSetting, Named, AllIdle
  <2>3. NoLeak
    <3> SUFFICES ASSUME AllIdle
                 PROVE  (1 .. made) \ freed = {current} \ {0}
      BY DEF NoLeak
    <3>1. \A s \in 1 .. made : s \notin freed <=> s = current
      BY DEF Ledger, Held, Fresh, AllIdle
    <3>2. current = 0 \/ current \in 1 .. made
      BY SwitchAssumption DEF TypeOK
    <3>3. 0 \notin 1 .. made
      BY SwitchAssumption DEF TypeOK
    <3> QED
      BY ONLY <3>1, <3>2, <3>3
  <2> QED
    BY <2>1, <2>2, <2>3 DEF SettingsAccounted
<1> QED
  BY <1>1, OneCallerInvariant, PTL

-----------------------------------------------------------------------------
(* The control server alone: the adapter and the session file name the        *)
(* configuration in force from the moment a command has saved it until the    *)
(* next one is installed.                                                     *)

Saving(c) == pc[c] \in {"active", "adapter"}

Remembered ==
  \A c \in Caller :
    /\ pc[c] # "idle" => target[c] \in Path
    /\ pc[c] \in {"active", "adapter", "register"} => path = target[c]
    /\ ~Saving(c) /\ path # NoPath => session = path /\ adapterPath = path

LEMMA RememberedStep ==
  ASSUME Caller = {"server"}, TypeOK, Remembered, [Next]_vars
  PROVE  Remembered'
<1> USE DEF heapVars, engineVars, listVars, callVars
<1>1. ASSUME NEW c \in Caller, Switch(c) PROVE Remembered'
  <2> USE <1>1 DEF Remembered, Saving, Succeeded, TypeOK
  <2>0. c = "server" /\ Caller = {c}
    OBVIOUS
  <2>1. CASE \E p \in Path, reload \in BOOLEAN : SwitchSame(c, p, reload)
    BY <2>0, <2>1 DEF SwitchSame, Found, Request
  <2>2. CASE \E p \in Path, reload \in BOOLEAN : SwitchFails(c, p, reload)
    BY <2>0, <2>2 DEF SwitchFails, Found, Request
  <2>3. CASE \E p \in Path, reload \in BOOLEAN : SwitchParses(c, p, reload)
    BY <2>0, <2>3 DEF SwitchParses, Request
  <2>4. CASE ReadOld(c) \/ Apply(c) \/ Delete(c)
    BY <2>0, <2>4 DEF ReadOld, Apply, Delete
  <2>5. CASE SetPath(c)
    BY <2>0, <2>5 DEF SetPath
  <2>6. CASE SetActive(c) \/ SaveSession(c) \/ Answer(c)
    BY <2>0, <2>6 DEF SetActive, SetActiveConfig, SaveSession, Answer
  <2> QED
    BY <2>1, <2>2, <2>3, <2>4, <2>5, <2>6 DEF Switch
<1>2. CASE Handler
  BY <1>2 DEF Handler, HandlerCheck, HandlerEnter, HandlerLeave, Remembered, Saving
<1>3. CASE \E p \in Path : Edit(p) \/ Unlist(p)
  BY <1>3 DEF Edit, Unlist, Remembered, Saving
<1>4. CASE \E clean \in BOOLEAN : Restart(clean)
  BY <1>4 DEF Restart, Remembered, Saving
<1>5. CASE UNCHANGED vars
  BY <1>5 DEF vars, Remembered, Saving
<1> QED
  BY <1>1, <1>2, <1>3, <1>4, <1>5 DEF Next

LEMMA ServerInvariant ==
  ASSUME Caller = {"server"}
  PROVE  Spec => [](TypeOK /\ Named /\ Remembered)
<1>1. \A c, d \in Caller : c = d
  OBVIOUS
<1>2. Init => Remembered
  BY DEF Init, Remembered, Saving
<1>3. TypeOK /\ Remembered /\ [Next]_vars => Remembered'
  BY RememberedStep
<1>4. Spec => [](TypeOK /\ Owned /\ Ledger /\ Named)
  BY <1>1, OneCallerInvariant
<1> QED
  BY <1>2, <1>3, <1>4, PTL DEF Spec

\* While only the control server switches, the program comes back with the
\* configuration it had: an exit saves the path in force and the next start loads
\* it if it parses, and between commands the session file already names it, so
\* that a crash loses nothing.
THEOREM ServerKeepsConfig ==
  ASSUME Caller = {"server"}
  PROVE  Spec => ConfigKept
<1>1. TypeOK /\ Remembered => CrashKeepsConfig
  BY DEF Remembered, Saving, CrashKeepsConfig, AllIdle
<1>2. TypeOK /\ Remembered /\ Restart(TRUE) /\ path # NoPath => path' = path \/ ~Parses(path)
  BY DEF Remembered, Saving, Restart, AllIdle
<1>3. Spec => SessionKeepsConfig
  BY <1>2, ServerInvariant, PTL DEF SessionKeepsConfig
<1>4. Spec => []CrashKeepsConfig
  BY <1>1, ServerInvariant, PTL
<1> QED
  BY <1>3, <1>4 DEF ConfigKept

\* While only the control server switches, its commands do what they say: when
\* "success" is answered m_setting was parsed from the file that the command
\* named, and the adapter's path, to which a reload without a name goes, is the
\* one in force.
THEOREM ServerCommandsMeant ==
  ASSUME Caller = {"server"}
  PROVE  Spec => CommandsMeant
<1>1. TypeOK /\ Remembered => ReloadStays
  BY DEF Remembered, Saving, ReloadStays, Reloaded, AllIdle
<1>2. TypeOK /\ Named /\ Remembered =>
        \A c \in Caller : Answer(c) => current # 0 /\ content[current].path = target[c]
  BY SwitchAssumption DEF Named, Remembered, Answer, SetActiveConfig
<1>3. Spec => AnsweredInForce
  BY <1>2, ServerInvariant, PTL DEF AnsweredInForce
<1>4. Spec => []ReloadStays
  BY <1>1, ServerInvariant, PTL
<1> QED
  BY <1>3, <1>4 DEF CommandsMeant
=============================================================================
