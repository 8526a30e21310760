------------------------------- MODULE Investigate -------------------------------
(***************************************************************************)
(* DialogInvestigateQt with its CrosshairWidget, and the part of the engine it *)
(* talks to: handleIpcMessage for the investigate commands and the journey     *)
(* callback of the event processor.                                          *)
(*                                                                         *)
(* The dialog's process, the engine's IPC thread and the engine's keyboard     *)
(* thread run by themselves; the socket between the processes keeps order.     *)
(***************************************************************************)
EXTENDS Naturals, Sequences

CONSTANTS
  Win,         \* windows
  Nameless,    \* windows that have neither a title nor a class
  MaxPicks,    \* bound: what the user does
  MaxKeys,     \* bound: key events
  MaxMishaps   \* bound: reloads, ends of a process

ASSUME InvestigateAssumption ==
  Nameless \subseteq Win /\ "" \notin Win /\ MaxPicks \in Nat /\ MaxKeys \in Nat /\ MaxMishaps \in Nat

VARIABLES
  dlg,         \* the dialog
  overlay,     \* the crosshair is active: it has grabbed mouse and keyboard
  requests, replies, \* the socket
  engine,      \* is the engine there, does its event processor have the callback
  inCall,      \* the keyboard thread has seen the callback and is about to call it
  fault,       \* it called one that is gone
  lost,        \* history variable: a mishap since the dialog last asked for events
  counts       \* picks, keys and mishaps so far

dialogSide == <<dlg, overlay>>
inspectVars == <<dlg, overlay, requests, replies, engine, inCall, fault, lost, counts>>

NoDialog == [open |-> FALSE, shown |-> FALSE, conn |-> "no", sel |-> "", label |-> "", pending |-> FALSE]
Linked == dlg.conn = "yes"
Counted(what, max) == counts[what] < max /\ counts' = [counts EXCEPT ![what] = @ + 1]

InvestigateInit ==
  /\ dlg = NoDialog /\ overlay = FALSE /\ requests = <<>> /\ replies = <<>>
  /\ engine = [up |-> TRUE, mode |-> FALSE] /\ inCall = FALSE /\ fault = FALSE
  /\ lost = FALSE /\ counts = [picks |-> 0, keys |-> 0, mishaps |-> 0]

(* ------------------------------------ The dialog ------------------------------------ *)

\* showEvent and hideEvent tell the engine if the channel is connected.
ShowEvent(q) == IF ~dlg.shown /\ Linked THEN Append(q, "enable") ELSE q
HideEvent(q) == IF dlg.shown /\ Linked THEN Append(q, "disable") ELSE q

\* showInvestigateDialog: the constructor connects; the answer may be late, or never come.
\* Each dialog has a socket of its own: it is opened when the engine has read what the last one sent.
OpenDialog ==
  /\ ~dlg.open /\ requests = <<>> /\ Counted("picks", MaxPicks)
  /\ \E c \in IF engine.up THEN {"yes", "late"} ELSE {"no"} :
       /\ dlg' = [NoDialog EXCEPT !.open = TRUE, !.shown = TRUE, !.conn = c]
       /\ requests' = IF c = "yes" THEN Append(requests, "enable") ELSE requests
       /\ lost' = (c # "yes")
  /\ UNCHANGED <<overlay, replies, engine, inCall, fault>>

\* showInvestigateDialog again, from the menu.
RaiseDialog ==
  /\ dlg.open /\ ~dlg.shown /\ requests' = ShowEvent(requests) /\ dlg' = [dlg EXCEPT !.shown = TRUE]
  /\ lost' = (lost /\ ~Linked) /\ UNCHANGED <<overlay, replies, engine, inCall, fault, counts>>

\* updateKeymapStatus.
UpdateKeymapStatus(d, q, w) ==
  IF d.conn # "yes" THEN /\ dlg' = [d EXCEPT !.label = "connecting", !.pending = w \notin Nameless] /\ requests' = q
  ELSE dlg' = d /\ requests' = Append(q, w)

\* onIpcConnected.
Connected ==
  /\ dlg.open /\ dlg.conn = "late"
  /\ LET d == [dlg EXCEPT !.conn = "yes", !.pending = FALSE] IN
     IF dlg.sel # "" /\ dlg.pending THEN UpdateKeymapStatus(d, requests, dlg.sel) ELSE dlg' = d /\ requests' = requests
  /\ UNCHANGED <<overlay, replies, engine, inCall, fault, lost, counts>>

\* onSelectWindow hides the dialog and activates the crosshair.
SelectWindow ==
  /\ dlg.open /\ dlg.shown /\ ~overlay /\ Counted("picks", MaxPicks)
  /\ requests' = HideEvent(requests) /\ dlg' = [dlg EXCEPT !.shown = FALSE] /\ overlay' = TRUE
  /\ UNCHANGED <<replies, engine, inCall, fault, lost>>

\* A click with the crosshair: deactivate, onWindowSelected, clearPanels, updateWindowInfo.
PickWindow(w) ==
  /\ overlay /\ overlay' = FALSE
  /\ UpdateKeymapStatus([dlg EXCEPT !.shown = TRUE, !.sel = w, !.label = ""], ShowEvent(requests), w)
  /\ lost' = (lost /\ ~(~dlg.shown /\ Linked))
  /\ UNCHANGED <<replies, engine, inCall, fault, counts>>

\* Escape or the right button: onSelectionCancelled.
CancelPick ==
  /\ overlay /\ overlay' = FALSE
  /\ requests' = ShowEvent(requests) /\ dlg' = [dlg EXCEPT !.shown = TRUE]
  /\ lost' = (lost /\ ~(~dlg.shown /\ Linked))
  /\ UNCHANGED <<replies, engine, inCall, fault, counts>>

\* Closed and deleted: hideEvent, the destructor.
CloseDialog ==
  /\ dlg.open /\ dlg.shown /\ requests' = HideEvent(requests) /\ dlg' = NoDialog
  /\ overlay' = FALSE /\ replies' = <<>> /\ UNCHANGED <<engine, inCall, fault, lost, counts>>

\* onIpcMessageReceived: a keymap fills the panel, a key event goes to the live log.
Receives ==
  /\ dlg.open /\ replies # <<>> /\ replies' = Tail(replies)
  /\ dlg' = [dlg EXCEPT !.label = IF Head(replies) \in Win THEN Head(replies) ELSE @]
  /\ UNCHANGED <<overlay, requests, engine, inCall, fault, lost, counts>>

(* ------------------------------------ The engine ------------------------------------ *)

\* handleIpcMessage.
Command(m) ==
  /\ engine' = [engine EXCEPT !.mode = IF m = "enable" THEN TRUE ELSE IF m = "disable" THEN FALSE ELSE @]
  /\ replies' = IF m \in Win /\ dlg.open /\ Linked THEN Append(replies, m) ELSE replies
HandleCommand ==
  /\ engine.up /\ requests # <<>> /\ requests' = Tail(requests) /\ Command(Head(requests))
  /\ UNCHANGED <<dialogSide, inCall, fault, lost, counts>>

\* processEvent tests m_journeyCallback, then calls it.
KeySeen ==
  /\ engine.up /\ engine.mode /\ ~inCall /\ Counted("keys", MaxKeys) /\ inCall' = TRUE
  /\ UNCHANGED <<dialogSide, requests, replies, engine, fault, lost>>
KeyTold ==
  /\ inCall /\ inCall' = FALSE /\ fault' = (fault \/ ~engine.mode)
  /\ replies' = IF engine.mode /\ dlg.open /\ Linked THEN Append(replies, "key") ELSE replies
  /\ UNCHANGED <<dialogSide, requests, engine, lost, counts>>

\* buildSubstitutionTable: the new event processor has no callback.
ReloadDrops ==
  /\ engine.up /\ engine.mode /\ ~inCall /\ Counted("mishaps", MaxMishaps)
  /\ engine' = [engine EXCEPT !.mode = FALSE] /\ lost' = TRUE
  /\ UNCHANGED <<dialogSide, requests, replies, inCall, fault>>

\* The engine's process ends and is started again; the dialog does not connect again.
EngineGone ==
  /\ engine.up /\ Counted("mishaps", MaxMishaps) /\ engine' = [up |-> FALSE, mode |-> FALSE] /\ inCall' = FALSE
  /\ dlg' = [dlg EXCEPT !.conn = "no"] /\ requests' = <<>> /\ replies' = <<>> /\ lost' = TRUE
  /\ UNCHANGED <<overlay, fault>>
EngineBack ==
  /\ ~engine.up /\ engine' = [engine EXCEPT !.up = TRUE]
  /\ UNCHANGED <<dialogSide, requests, replies, inCall, fault, lost, counts>>

\* The dialog's process is killed: nothing tells the engine.
GuiKilled ==
  /\ dlg.open /\ Counted("mishaps", MaxMishaps) /\ dlg' = NoDialog /\ overlay' = FALSE /\ replies' = <<>> /\ lost' = TRUE
  /\ UNCHANGED <<requests, engine, inCall, fault>>

InvestigateNext ==
  \/ OpenDialog \/ RaiseDialog \/ Connected \/ SelectWindow \/ CancelPick \/ CloseDialog \/ Receives
  \/ HandleCommand \/ KeySeen \/ KeyTold \/ ReloadDrops \/ EngineGone \/ EngineBack \/ GuiKilled
  \/ \E w \in Win : PickWindow(w)

InvestigateSpec == InvestigateInit /\ [][InvestigateNext]_inspectVars

(* ------------------------------------ Properties ------------------------------------ *)

InvestigateTypeOK ==
  /\ dlg.conn \in {"no", "late", "yes"} /\ dlg.sel \in Win \cup {""} /\ dlg.label \in Win \cup {"", "connecting"}
  /\ overlay \in BOOLEAN /\ fault \in BOOLEAN /\ (dlg.shown => dlg.open)

\* Once the commands are through, the engine reports key events exactly while the dialog is shown, unless a mishap
\* came since the dialog last asked (showEvent, hideEvent, the crosshair that hides the dialog).
ModeFollows == (requests = <<>> /\ engine.up /\ ~lost) => (engine.mode <=> (dlg.shown /\ Linked))

\* Once everything is through, the keymap shown is that of the selected window, also when it was selected
\* before the connection was there.
KeymapOfSelected ==
  (requests = <<>> /\ replies = <<>> /\ engine.up /\ dlg.open /\ Linked /\ dlg.sel # "") => dlg.label = dlg.sel

\* Mouse and keyboard are grabbed only while there is a dialog whose crosshair gives them back.
GrabReleasable == overlay => dlg.open

\* Refuted: the callback is tested and called without a lock (engine_event_processor.cpp).
JourneySafe == ~fault

\* Refuted: a reload, a late connection or the engine's restart leaves the dialog without events.
ModeAlways == (requests = <<>> /\ engine.up /\ dlg.shown /\ Linked) => engine.mode

\* Refuted: a dialog that is killed leaves the engine reporting.
ModeEnds == (requests = <<>> /\ ~dlg.open) => ~engine.mode
=============================================================================
