-------------------------------- MODULE JsonLoader --------------------------------
(***************************************************************************)
(* JsonConfigLoader::load, section after section into a Setting, and        *)
(* ConfigValidator, which looks at the same document beforehand.            *)
(*                                                                         *)
(* A document is a record.  Names of keys are numbers, in the order in      *)
(* which the JSON library goes through them; Fold gives the name without    *)
(* regard to case.  Modifier prefixes of mappings are in module Keymap.     *)
(***************************************************************************)
EXTENDS Naturals, Sequences, FiniteSets

CONSTANTS
  KeyName,     \* names of keys, numbers
  Fold,        \* the name in lower case, for each
  BadScan,     \* a scan code that does not parse
  NoKey,       \* no tap action
  HashSize,    \* HASHED_KEYS_SIZE, 128 in the code
  Document     \* the documents that are loaded

ASSUME LoaderAssumption ==
  /\ KeyName \subseteq Nat /\ HashSize \in Nat \ {0} /\ NoKey \notin KeyName
  /\ \A d \in Document :
       /\ d.version \in {"absent", "2.0", "other"} /\ d.syntax \in BOOLEAN /\ d.keyboard \in BOOLEAN
       /\ DOMAIN d.keys \subseteq KeyName /\ DOMAIN d.mods \subseteq Nat

VARIABLES
  doc,      \* the document
  section,  \* the section that is parsed next, "loaded" or "failed"
  keyboard, \* Keyboard::m_hashedKeys: the keys, the last one first
  lookup,   \* m_keyLookup: for each name the key that was found under it
  triggers, \* m_virtualModTriggers: scan code to modifier
  taps,     \* m_modTapActions: modifier to scan code
  keymap    \* the global keymap: from key to keys

loaderVars == <<doc, section, keyboard, lookup, triggers, taps, keymap>>

LoaderInit ==
  /\ doc \in Document /\ section = "file"
  /\ keyboard = <<>> /\ lookup = <<>> /\ triggers = <<>> /\ taps = <<>> /\ keymap = <<>>

Bucket(k)     == k.scan % HashSize
Extend(f, x, y) == [z \in DOMAIN f \cup {x} |-> IF z = x THEN y ELSE f[z]]

\* Keyboard::searchKeyByNonAliasName: the first match, bucket after bucket.
SearchName(kb, n) ==
  LET match == {i \in DOMAIN kb : Fold[kb[i].name] = Fold[n]}
  IN kb[CHOOSE i \in match : \A j \in match :
          Bucket(kb[i]) < Bucket(kb[j]) \/ (Bucket(kb[i]) = Bucket(kb[j]) /\ i <= j)]

\* Mutant: the first key of the bucket is taken.
SearchScanBucket(kb, s) ==
  LET match == {i \in DOMAIN kb : Bucket(kb[i]) = s % HashSize}
  IN kb[CHOOSE i \in match : \A j \in match : i <= j]

\* Keyboard::searchKey, by scan code: the first match in its bucket.
SearchScan(kb, s) ==
  LET match == {i \in DOMAIN kb : kb[i].scan = s}
  IN kb[CHOOSE i \in match : \A j \in match : i <= j]

\* loadJsonFile and validateSchema.
ReadFile ==
  /\ section = "file"
  /\ section' = IF doc.syntax /\ doc.version = "2.0" /\ doc.keyboard THEN "keyboard" ELSE "failed"
  /\ UNCHANGED <<doc, keyboard, lookup, triggers, taps, keymap>>

\* parseKeyboard and parseKeyDefinition, for the first name that is not yet defined.
ParseKeyDefinition ==
  /\ section = "keyboard"
  /\ LET rest == {n \in DOMAIN doc.keys : \A i \in DOMAIN keyboard : keyboard[i].name # n}
         n    == CHOOSE m \in rest : \A k \in rest : m <= k
     IN IF rest = {} THEN section' = "modifiers" /\ UNCHANGED <<keyboard, lookup>>
        ELSE IF doc.keys[n] = BadScan THEN section' = "failed" /\ UNCHANGED <<keyboard, lookup>>
        ELSE /\ keyboard' = <<[name |-> n, scan |-> doc.keys[n]]>> \o keyboard
             /\ lookup' = Extend(lookup, n, SearchName(keyboard', n))
             /\ UNCHANGED section
  /\ UNCHANGED <<doc, triggers, taps, keymap>>

\* parseVirtualModifiers and parseVirtualModifier, in the order of the names M00 .. MFF.
ParseVirtualModifiers ==
  /\ section = "modifiers"
  /\ LET known(k) == k \in DOMAIN lookup
         ok  == \A m \in DOMAIN doc.mods : known(doc.mods[m].trigger) /\ (doc.mods[m].tap # NoKey => known(doc.mods[m].tap))
         of(s) == {m \in DOMAIN doc.mods : lookup[doc.mods[m].trigger].scan = s}
     IN /\ section' = IF ok THEN "mappings" ELSE "failed"
        /\ triggers' = IF ok THEN [s \in {lookup[doc.mods[m].trigger].scan : m \in DOMAIN doc.mods} |->
                                     CHOOSE m \in of(s) : \A k \in of(s) : k <= m]
                       ELSE triggers
        /\ taps' = IF ok THEN [m \in {k \in DOMAIN doc.mods : doc.mods[k].tap # NoKey} |-> lookup[doc.mods[m].tap].scan]
                   ELSE taps
  /\ UNCHANGED <<doc, keyboard, lookup, keymap>>

\* parseMappings, parseSingleMapping and parseToField, for the next mapping.
ParseSingleMapping ==
  /\ section = "mappings"
  /\ LET i == Len(keymap) + 1
     IN IF i > Len(doc.maps) THEN section' = "loaded" /\ UNCHANGED keymap
        ELSE IF doc.maps[i].from \in DOMAIN lookup /\ doc.maps[i].to # <<>>
                /\ \A j \in DOMAIN doc.maps[i].to : doc.maps[i].to[j] \in DOMAIN lookup
        THEN keymap' = Append(keymap, doc.maps[i]) /\ UNCHANGED section
        ELSE section' = "failed" /\ UNCHANGED keymap
  /\ UNCHANGED <<doc, keyboard, lookup, triggers, taps>>

LoaderNext == ReadFile \/ ParseKeyDefinition \/ ParseVirtualModifiers \/ ParseSingleMapping

LoaderSpec == LoaderInit /\ [][LoaderNext]_loaderVars

\* ConfigValidator::validateString on a .json file: only what does not parse is an error.
ValidatorErrors(d)   == IF d.syntax THEN {} ELSE {"E003"}
ValidatorWarnings(d) ==
  IF ~d.syntax THEN {}
  ELSE {w \in {"W001", "W002", "W003"} :
          \/ w = "W001" /\ ~d.keyboard
          \/ w = "W002" /\ d.maps = <<>> /\ DOMAIN d.mods = {}
          \/ w = "W003" /\ d.version = "absent"}

(* -------------------------------- Properties ------------------------------- *)

\* What the keyboard sends is what the document says: the key that is found for the
\* scan code of a name is the key that mappings with this name were attached to.
PhysicalKey ==
  section = "loaded" =>
    \A n \in DOMAIN doc.keys : SearchScan(keyboard, doc.keys[n]) = lookup[n]

\* Every modifier of a loaded document has a key that turns it on.
ModifierReachable ==
  section = "loaded" => \A m \in DOMAIN doc.mods : \E s \in DOMAIN triggers : triggers[s] = m

\* A document that the validator finds no error in can be loaded, as far as its
\* version and its sections go.
ValidLoads == section = "failed" => ValidatorErrors(doc) # {} \/ ~doc.keyboard \/ doc.version = "other"

\* The keys and modifiers of a loaded document are those that it names.
KeysResolved == PhysicalKey /\ ModifierReachable
=============================================================================
