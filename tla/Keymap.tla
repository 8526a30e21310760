--------------------------------- MODULE Keymap ---------------------------------
(***************************************************************************)
(* Keymaps as the JSON loader builds them, and the two ways in which the    *)
(* engine looks an assignment up.  An assignment                            *)
(*                                                                         *)
(*   [key |-> k, mods |-> M, to |-> s]                                      *)
(*                                                                         *)
(* sends key k, under the virtual modifiers M (M00 .. MFF), to the key      *)
(* sequence s.  A keymap is the sequence of its assignments in list order.  *)
(*                                                                         *)
(* Standard modifiers in an assignment (Shift, Ctrl, Alt, Win) are left     *)
(* out: the loader registers no modifier keys, so they are never pressed.   *)
(***************************************************************************)
EXTENDS Naturals, Sequences, FiniteSets

\* Keymap::addAssignment: replace the key sequence of an equal modified key, or
\* put the new assignment in front.
AddAssignment(keymap, a) ==
  IF \E i \in DOMAIN keymap : keymap[i].key = a.key /\ keymap[i].mods = a.mods
  THEN [i \in DOMAIN keymap |->
          IF keymap[i].key = a.key /\ keymap[i].mods = a.mods THEN a ELSE keymap[i]]
  ELSE <<a>> \o keymap

\* JsonConfigLoader::parseMappings: the mappings of the file are added in turn.
Load(mappings) ==
  LET upTo[n \in 0 .. Len(mappings)] ==
        IF n = 0 THEN <<>> ELSE AddAssignment(upTo[n - 1], mappings[n])
  IN  upTo[Len(mappings)]

\* The first of a set of list positions; 0 if there is none.
FirstOf(S) == IF S = {} THEN 0 ELSE CHOOSE i \in S : \A j \in S : i <= j

Exact(keymap, k, mods) == {i \in DOMAIN keymap : keymap[i].key = k /\ keymap[i].mods = mods}
OfKey(keymap, k)       == {i \in DOMAIN keymap : keymap[i].key = k}

\* Keymap::searchAssignment: an assignment with exactly these virtual modifiers,
\* else one whose standard modifiers match "no modifiers at all"; the second
\* attempt looks at the key alone, whatever virtual modifiers it asks for.
SearchAssignment(keymap, k, mods) ==
  LET exact == FirstOf(Exact(keymap, k, mods))
  IN  IF exact # 0 THEN exact ELSE FirstOf(OfKey(keymap, k))

\* compileKeyAssignment and RuleLookupTable::findMatch: the first rule whose
\* required modifiers are all active.  A rule has no modifiers it requires off.
FindMatch(keymap, k, mods) ==
  FirstOf({i \in DOMAIN keymap : keymap[i].key = k /\ keymap[i].mods \subseteq mods})
=============================================================================
