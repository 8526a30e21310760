------------------------------ MODULE ConfigMetadata ------------------------------
(***************************************************************************)
(* ConfigMetadata: name, description and tags of a configuration, kept in a *)
(* JSON file of its own.  The parser looks for quotes by hand (as           *)
(* SessionManager's does), so texts are sequences of the characters that it *)
(* treats in a special way, and of "x" for all others.                      *)
(***************************************************************************)
EXTENDS Naturals, Sequences, FiniteSets

CONSTANTS
  Described,   \* paths of configurations
  MetaFile,    \* pathToMetadataFilename of each
  Text,        \* the texts that users enter, sequences of Char
  Days         \* bound: how far the clock goes

Char == {"x", "quote", "backslash", "bracket"}

ASSUME MetadataAssumption ==
  /\ \A t \in Text : t \in Seq(Char) /\ DOMAIN MetaFile = Described
  /\ Days \in Nat

VARIABLES
  info,   \* m_info of the object in use, and the path it is for
  json,   \* the metadata files: the text fields as they are written, and the dates
  saved,  \* history: what was saved last for each path
  today   \* the clock

metadataVars == <<info, json, saved, today>>

NoInfo == [name |-> <<>>, tags |-> <<>>, created |-> 0, modified |-> 0]
Missing == [name |-> <<>>, tags |-> <<>>, created |-> 0, modified |-> 0, form |-> "missing"]

MetadataInit ==
  /\ info = [path |-> "none", meta |-> NoInfo] /\ today = 1
  /\ json = [f \in {MetaFile[c] : c \in Described} |-> Missing]
  /\ saved = [c \in Described |-> NoInfo]

\* escapeJson: a backslash before a quote and before a backslash.
Escaped[t \in Seq(Char)] ==
  IF t = <<>> THEN <<>>
  ELSE (IF Head(t) \in {"quote", "backslash"} THEN <<"backslash", Head(t)>> ELSE <<Head(t)>>) \o Escaped[Tail(t)]

\* unescapeJson.
Unescaped[t \in Seq(Char)] ==
  IF t = <<>> THEN <<>>
  ELSE IF Head(t) = "backslash" /\ Len(t) > 1 /\ t[2] \in {"quote", "backslash"}
       THEN <<t[2]>> \o Unescaped[SubSeq(t, 3, Len(t))]
  ELSE <<Head(t)>> \o Unescaped[Tail(t)]

\* extractString, extractStringArray: the quote that ends a text is the first one
\* without a backslash before it.
EndQuote(s) ==
  LET ends == {i \in DOMAIN s : s[i] = "quote" /\ (i = 1 \/ s[i - 1] # "backslash")}
  IN IF ends = {} THEN 0 ELSE CHOOSE i \in ends : \A j \in ends : i <= j

\* extractString on what toJson wrote: the text, a quote, and then the next line.
ReadText(t) ==
  LET s   == Escaped[t] \o <<"quote", "x", "quote">>
  IN IF EndQuote(s) = 0 THEN <<>> ELSE Unescaped[SubSeq(s, 1, EndQuote(s) - 1)]

\* extractStringArray: the array ends at the first bracket, in a tag or not.
ReadTags(ts) ==
  LET cut == {i \in DOMAIN ts : \E j \in DOMAIN ts[i] : ts[i][j] = "bracket"}
      n   == IF cut = {} THEN Len(ts) ELSE (CHOOSE i \in cut : \A k \in cut : i <= k) - 1
  IN [i \in 1..n |-> ReadText(ts[i])]

\* load: a missing file gives the defaults, and the dates of today.
Load(c) ==
  /\ LET f == json[MetaFile[c]]
     IN info' = [path |-> c, meta |->
          IF f.form = "missing" THEN [name |-> <<"x">>, tags |-> <<>>, created |-> today, modified |-> today]
          ELSE [name |-> ReadText(f.name), tags |-> ReadTags(f.tags), created |-> f.created, modified |-> f.modified]]
  /\ UNCHANGED <<json, saved, today>>

\* save and toJson: dates that are not set yet are set.
Save ==
  /\ info.path \in Described
  /\ LET created == IF info.meta.created = 0 THEN today ELSE info.meta.created
         meta == [info.meta EXCEPT !.created = created, !.modified = IF @ = 0 THEN created ELSE @]
     IN /\ info' = [info EXCEPT !.meta = meta]
        /\ json' = [json EXCEPT ![MetaFile[info.path]] =
                      [name |-> meta.name, tags |-> meta.tags, created |-> meta.created,
                       modified |-> meta.modified, form |-> "written"]]
        /\ saved' = [saved EXCEPT ![info.path] = meta]
  /\ UNCHANGED today

\* A new object: createFromTemplate sets the name before anything is saved.
Fresh(c, t) ==
  /\ info' = [path |-> c, meta |-> [NoInfo EXCEPT !.name = t, !.modified = today]]
  /\ UNCHANGED <<json, saved, today>>

\* setName, setDescription, setAuthor.
SetName(t) ==
  /\ info.path \in Described
  /\ info' = [info EXCEPT !.meta.name = t, !.meta.modified = today]
  /\ UNCHANGED <<json, saved, today>>

\* addTag.
AddTag(t) ==
  /\ info.path \in Described /\ Len(info.meta.tags) < 1
  /\ \A i \in DOMAIN info.meta.tags : info.meta.tags[i] # t
  /\ info' = [info EXCEPT !.meta.tags = Append(@, t), !.meta.modified = today]
  /\ UNCHANGED <<json, saved, today>>

\* removeTag and clearTags.
ClearTags ==
  /\ info.meta.tags # <<>>
  /\ info' = [info EXCEPT !.meta.tags = <<>>, !.meta.modified = today]
  /\ UNCHANGED <<json, saved, today>>

\* remove.
RemoveMetadata(c) ==
  /\ json[MetaFile[c]].form = "written"
  /\ json' = [json EXCEPT ![MetaFile[c]] = Missing] /\ saved' = [saved EXCEPT ![c] = NoInfo]
  /\ UNCHANGED <<info, today>>

NextDay == today < Days /\ today' = today + 1 /\ UNCHANGED <<info, json, saved>>

MetadataNext ==
  \/ \E c \in Described : Load(c) \/ RemoveMetadata(c)
  \/ \E c \in Described, t \in Text : Fresh(c, t)
  \/ \E t \in Text : SetName(t) \/ AddTag(t)
  \/ Save \/ ClearTags \/ NextDay

MetadataSpec == MetadataInit /\ [][MetadataNext]_metadataVars

(* -------------------------------- Properties ------------------------------- *)

\* What is loaded for a configuration is what was saved for it, whatever characters
\* its texts have.
MetadataRoundTrip ==
  [][\A c \in Described : Load(c) /\ saved[c] # NoInfo => info'.meta = saved[c]]_metadataVars

\* A configuration was created no later than it was modified.
DatesOrdered == \A c \in Described : saved[c].created <= saved[c].modified
=============================================================================
