------------------------------ MODULE SettingList ------------------------------
(***************************************************************************)
(* The list of .mayu settings of yamy for Windows: the registry values     *)
(* .mayu0, .mayu1, ... and .mayuIndex, the dialog that edits them, the      *)
(* submenu of the tray, and &LoadSetting on the handler thread.             *)
(*                                                                         *)
(* A text is the sequence of its parts between semicolons, so joining texts *)
(* with ";" is concatenation, and a value may be split otherwise than it    *)
(* was joined.                                                              *)
(***************************************************************************)
EXTENDS Integers, Sequences, SequencesExt

CONSTANTS
  Row,             \* what the user enters: [name, filename, symbols], texts
  kMaxEntries,     \* MAX_MAYU_REGISTRY_ENTRIES
  MaxListSteps,    \* bound: what user and keys do
  MaxKills         \* bound: how often the program is killed

ASSUME SettingListAssumption == kMaxEntries \in Nat \ {0} /\ MaxListSteps \in Nat /\ MaxKills \in Nat

VARIABLES
  reg,        \* .mayu0, .mayu1, ... : a text, or <<>> where there is no value
  regIndex,   \* .mayuIndex
  list,       \* the dialog: is it open, its rows, the selected one or 0, and where IDOK is
  scan,       \* &LoadSetting: the name it looks for and where it is, or the index it is about to write
  message,    \* is EngineNotify_loadSetting posted?
  current_,   \* the entry load() has read, <<>> if there was none
  saved_,     \* history: rows and selection of the last IDOK, once it is through
  quiet,      \* history: did the window thread save, or &LoadSetting search, without the other meanwhile?
  listSteps, kills

regVars == <<reg, regIndex>>
listVars == <<regVars, list, scan, message, current_, saved_, quiet, listSteps, kills>>

Last_ == kMaxEntries + 1
Blank_ == [name |-> <<"">>, filename |-> <<"">>, symbols |-> <<"">>]
NoList == [open |-> FALSE, rows |-> <<>>, sel |-> 0, at |-> "idle", i |-> 0]
NoScan == [at |-> "idle", name |-> <<>>, i |-> 0]
NotSaved == [rows |-> <<Blank_, Blank_>>, sel |-> 0]

Join(d) == d.name \o d.filename \o d.symbols
\* The regular expression ^([^;]*);([^;]*);(.*)$.
Splits(v) == Len(v) >= 3
Split(v) == [name |-> <<v[1]>>, filename |-> <<v[2]>>, symbols |-> SubSeq(v, 3, Len(v))]

\* How many values are there, from .mayu0 on?
Count_(r) == CHOOSE n \in 0..Last_ + 1 : (n = Last_ + 1 \/ r[n] = <<>>) /\ \A i \in 0..n - 1 : r[i] # <<>>

(* ------------------------------- convertRegistry ------------------------------- *)

\* What a first start, or one after an older version, makes of the registry; "dir" and "layout" add entries.
Converted(old, layout) ==
  LET first == IF old THEN <<"", "old", "">> ELSE <<"home", "", "">>
      more  == [i \in 1..kMaxEntries - 1 |-> <<"layout", "dot", "-D">>]
  IN [values |-> [i \in 0..Last_ |-> IF i = 0 THEN first ELSE IF layout /\ i \in DOMAIN more THEN more[i] ELSE <<>>],
      index |-> IF layout /\ ~old THEN 1 ELSE 0]

ListInit ==
  /\ \E old, layout \in BOOLEAN : reg = Converted(old, layout).values /\ regIndex = Converted(old, layout).index
  /\ list = NoList /\ scan = NoScan /\ message = FALSE /\ current_ = <<>> /\ saved_ = NotSaved
  /\ quiet = TRUE /\ listSteps = 0 /\ kills = 0

(* --------------------------------- The dialog --------------------------------- *)

InsertItem(rows, i, d) == IF i > Len(rows) THEN Append(rows, d) ELSE InsertAt(rows, i + 1, d)
DeleteItem(rows, i) == IF i < Len(rows) THEN RemoveAt(rows, i + 1) ELSE rows

\* wmInitDialog: every entry is put before the placeholder, which is then deleted; an entry that does not split
\* leaves the placeholder where it is.
Shown(r) ==
  LET n == IF Count_(r) > kMaxEntries THEN kMaxEntries ELSE Count_(r)
      Put(rows, i) == IF Splits(r[i]) THEN InsertItem(rows, i, Split(r[i])) ELSE rows
  IN DeleteItem(FoldLeft(Put, <<Blank_>>, [i \in 1..n |-> i - 1]), n)

Acts_ == listSteps < MaxListSteps /\ listSteps' = listSteps + 1 /\ UNCHANGED kills
Editing == list.open /\ list.at = "idle"
Rest == UNCHANGED <<regVars, scan, message, current_, saved_, quiet>>

OpenSetting ==
  /\ Acts_ /\ ~list.open /\ Rest
  /\ LET rows == Shown(reg)
     IN list' = [NoList EXCEPT !.open = TRUE, !.rows = rows, !.sel = IF regIndex < Len(rows) THEN regIndex + 1 ELSE 0]

SelectItem(i) == Acts_ /\ Editing /\ Rest /\ list' = [list EXCEPT !.sel = i]

\* IDC_BUTTON_up and IDC_BUTTON_down exchange the texts of two rows and move the selection.
MoveItem(by) ==
  /\ Acts_ /\ Editing /\ Rest /\ list.sel # 0 /\ list.sel + by \in DOMAIN list.rows
  /\ list' = [list EXCEPT !.rows[list.sel] = list.rows[list.sel + by], !.rows[list.sel + by] = list.rows[list.sel],
                          !.sel = list.sel + by]

\* IDC_BUTTON_add and IDC_BUTTON_edit, with what DlgEditSetting gives back; only an added row needs a name.
\* Bound: one row more than wmInitDialog reads.
AddItem(d) ==
  /\ Acts_ /\ Editing /\ Rest /\ d.name # <<"">> /\ Len(list.rows) < Last_
  /\ list' = [list EXCEPT !.rows = InsertItem(list.rows, 0, d), !.sel = 1]
EditItem(d) == Acts_ /\ Editing /\ Rest /\ list.sel # 0 /\ list' = [list EXCEPT !.rows[list.sel] = d]

DeleteSelected ==
  /\ Acts_ /\ Editing /\ Rest /\ list.sel # 0
  /\ list' = [list EXCEPT !.rows = DeleteItem(list.rows, list.sel - 1),
                          !.sel = IF list.sel < Len(list.rows) THEN list.sel ELSE list.sel - 1]

CancelSetting == Acts_ /\ Editing /\ Rest /\ list' = NoList

\* IDOK: the rows, then the values behind them until one cannot be removed, then the index, and a load().
Ok == Acts_ /\ Editing /\ list' = [list EXCEPT !.at = "write", !.i = 0] /\ saved_' = NotSaved
      /\ UNCHANGED <<regVars, scan, message, current_>> /\ quiet' = (scan = NoScan /\ ~message)
WriteRow ==
  /\ list.at = "write"
  /\ IF list.i < Len(list.rows)
     THEN reg' = [reg EXCEPT ![list.i] = Join(list.rows[list.i + 1])] /\ list' = [list EXCEPT !.i = @ + 1]
     ELSE reg' = reg /\ list' = [list EXCEPT !.at = "remove"]
  /\ UNCHANGED <<regIndex, scan, message, current_, saved_, quiet, listSteps, kills>>
\* Mutant: the values behind the rows stay.
RemoveValueSkipped ==
  /\ list.at = "remove" /\ list' = [list EXCEPT !.at = "index"]
  /\ UNCHANGED <<regVars, scan, message, current_, saved_, quiet, listSteps, kills>>
RemoveValue ==
  /\ list.at = "remove"
  /\ IF list.i <= Last_ /\ reg[list.i] # <<>>
     THEN reg' = [reg EXCEPT ![list.i] = <<>>] /\ list' = [list EXCEPT !.i = @ + 1]
     ELSE reg' = reg /\ list' = [list EXCEPT !.at = "index"]
  /\ UNCHANGED <<regIndex, scan, message, current_, saved_, quiet, listSteps, kills>>
Read(r, i) == IF i \in DOMAIN r /\ Splits(r[i]) THEN r[i] ELSE <<>>
WriteIndex ==
  LET k == IF list.sel = 0 THEN 0 ELSE list.sel - 1 IN
  /\ list.at = "index" /\ regIndex' = k /\ current_' = Read(reg, k)
  /\ saved_' = [rows |-> list.rows, sel |-> list.sel] /\ list' = NoList
  /\ UNCHANGED <<reg, scan, message, quiet, listSteps, kills>>

(* --------------------------- Tray menu and &LoadSetting --------------------------- *)

\* The submenu names every value that has a name, with its number; the dialog may be open.
Named(i) == i < Count_(reg) /\ Len(reg[i]) >= 2 /\ reg[i][1] # ""
Choose(i) ==
  /\ Acts_ /\ list.at = "idle" /\ Named(i) /\ regIndex' = i /\ current_' = Read(reg, i)
  /\ saved_' = NotSaved /\ quiet' = (scan = NoScan /\ ~message) /\ UNCHANGED <<reg, list, scan, message>>

\* &LoadSetting with a name: one value after another, the index of the first that has it, and a message; without
\* one only the message.
LoadByName(n) ==
  /\ Acts_ /\ scan = NoScan /\ ~message
  /\ scan' = [at |-> IF n = <<"">> THEN "posted" ELSE "scan", name |-> n, i |-> 0] /\ message' = (n = <<"">>)
  /\ quiet' = (list.at = "idle") /\ saved_' = NotSaved /\ UNCHANGED <<regVars, list, current_>>
ScanValue ==
  LET v == reg[scan.i] IN
  /\ scan.at = "scan"
  /\ scan' = IF scan.i = kMaxEntries \/ v = <<>> THEN NoScan
             ELSE IF Splits(v) /\ Split(v).name = scan.name THEN [scan EXCEPT !.at = "found"]
             ELSE [scan EXCEPT !.i = @ + 1]
  /\ UNCHANGED <<regVars, list, message, current_, saved_, quiet, listSteps, kills>>
PostLoad ==
  /\ scan.at = "found" /\ regIndex' = scan.i /\ message' = TRUE /\ scan' = [scan EXCEPT !.at = "posted"]
  /\ UNCHANGED <<reg, list, current_, saved_, quiet, listSteps, kills>>

\* The window thread gets to the message between two commands of the dialog.
ServeLoad ==
  /\ message /\ list.at = "idle" /\ message' = FALSE /\ current_' = Read(reg, regIndex) /\ scan' = [scan EXCEPT !.at = "served"]
  /\ UNCHANGED <<regVars, list, saved_, quiet, listSteps, kills>>
Forget == scan.at = "served" /\ scan' = NoScan /\ UNCHANGED <<regVars, list, message, current_, saved_, quiet, listSteps, kills>>

\* The session or a crash ends the program; the next one loads what the registry says.
Killed ==
  /\ kills < MaxKills /\ kills' = kills + 1 /\ list' = NoList /\ scan' = NoScan /\ message' = FALSE
  /\ current_' = Read(reg, regIndex) /\ saved_' = NotSaved /\ UNCHANGED <<regVars, quiet, listSteps>>

ListNext ==
  \/ OpenSetting \/ DeleteSelected \/ CancelSetting \/ Ok \/ WriteRow \/ RemoveValue \/ WriteIndex
  \/ \E by \in {-1, 1} : MoveItem(by)
  \/ \E i \in DOMAIN list.rows : SelectItem(i)
  \/ \E d \in Row : AddItem(d) \/ EditItem(d)
  \/ \E i \in 0..Last_ : Choose(i)
  \/ \E d \in Row : LoadByName(d.name)
  \/ ScanValue \/ PostLoad \/ ServeLoad \/ Forget \/ Killed

ListSpec == ListInit /\ [][ListNext]_listVars

(* --------------------------------- Properties --------------------------------- *)

ListTypeOK ==
  /\ regIndex \in 0..Last_ /\ list.sel \in 0..Len(list.rows) /\ Len(list.rows) <= Last_
  /\ list.at \in {"idle", "write", "remove", "index"} /\ scan.at \in {"idle", "scan", "found", "posted", "served"}

\* After OK the dialog, opened again, shows the rows it was closed with and no others, up to the number it reads,
\* whatever was there before: a longer list, or the remains of an OK that was killed halfway.  Not for rows with a
\* semicolon in name or file, which nothing keeps the user from entering: they are split otherwise.
Unambiguous(rows) == \A i \in DOMAIN rows : Len(rows[i].name) = 1 /\ Len(rows[i].filename) = 1
ListStored ==
  saved_ # NotSaved /\ Unambiguous(saved_.rows) =>
    Shown(reg) = SubSeq(saved_.rows, 1, IF Len(saved_.rows) < kMaxEntries THEN Len(saved_.rows) ELSE kMaxEntries)

\* Refuted: the same for any row, and for any number of rows.
ListAlwaysStored == saved_ # NotSaved => Shown(reg) = saved_.rows

\* After OK the setting that was selected is loaded, as long as &LoadSetting does not write meanwhile.
SelectedLoaded ==
  (saved_ # NotSaved /\ saved_.sel # 0 /\ quiet /\ scan = NoScan) => current_ = Join(saved_.rows[saved_.sel])

\* The selection stays with its entry when it is moved.
MoveMeant == [][\A by \in {-1, 1} : MoveItem(by) => list'.rows[list'.sel] = list.rows[list.sel]]_listVars

\* The menu loads the setting whose name was clicked, though entries without a name have none in the menu.
MenuMeant == [][\A i \in 0..Last_ : Choose(i) /\ Splits(reg[i]) => current_' = reg[i]]_listVars

\* &LoadSetting loads a setting of that name, as long as nothing else is chosen or saved meanwhile.
NameMeant == (scan.at = "served" /\ quiet /\ scan.name # <<"">>) => (current_ # <<>> /\ <<current_[1]>> = scan.name)

\* Refuted: the same when the dialog saves, or the menu is used, between the scan and the write of the index.
NameAlways == (scan.at = "served" /\ scan.name # <<"">>) => (current_ # <<>> /\ <<current_[1]>> = scan.name)
=============================================================================
