--------------------------- MODULE NotificationHistory ---------------------------
(***************************************************************************)
(* NotificationHistory and NotificationHistoryDialog.  Entries are added by  *)
(* TrayIconQt::handleEngineMessage on the GUI thread; the dialog hears of    *)
(* them through queued signals, so its list lags behind.                    *)
(***************************************************************************)
EXTENDS Naturals, Sequences

CONSTANTS
  Notice,        \* what a message says
  Sizes,         \* arguments of setMaxSize
  kSizeLimit,    \* 1000 in the code
  MaxNotices     \* bound: how many messages are kept in the ghost or lie before the dialog

ASSUME HistoryAssumption == Sizes \subseteq Nat /\ kSizeLimit \in Nat \ {0} /\ MaxNotices \in Nat

VARIABLES
  past,      \* m_entries
  pastMax,   \* m_maxSize
  viewer,    \* the dialog: is it open, its list, its queued signals
  received   \* history variable: what was added since the history was cleared

historyVars == <<past, pastMax, viewer, received>>

LastOf(s, n) == IF Len(s) > n THEN SubSeq(s, Len(s) - n + 1, Len(s)) ELSE s
Closed == [open |-> FALSE, list |-> <<>>, signals |-> <<>>]
Signal(v, s) == IF v.open THEN [v EXCEPT !.signals = Append(@, s)] ELSE v

Room == Len(received) < MaxNotices /\ Len(viewer.list) + Len(viewer.signals) < MaxNotices

HistoryInit ==
  /\ past = <<>> /\ pastMax \in {IF n < 1 THEN 1 ELSE IF n > kSizeLimit THEN kSizeLimit ELSE n : n \in Sizes}
  /\ viewer = Closed /\ received = <<>>

\* addNotification: append and trim under the lock, emit after it.
AddNotification(m) ==
  /\ Room /\ past' = LastOf(Append(past, m), pastMax)
  /\ received' = Append(received, m) /\ viewer' = Signal(viewer, <<"added", m>>) /\ UNCHANGED pastMax

\* setMaxSize: clamp, then trim.
SetMaxSize(n) ==
  /\ pastMax' = IF n < 1 THEN 1 ELSE IF n > kSizeLimit THEN kSizeLimit ELSE n
  /\ past' = LastOf(past, pastMax') /\ received' = past' /\ UNCHANGED viewer

\* The dialog's constructor: populateList, then the queued connections.
OpenViewer ==
  /\ ~viewer.open /\ viewer' = [open |-> TRUE, list |-> past, signals |-> <<>>]
  /\ UNCHANGED <<past, pastMax, received>>

\* onClear: clear the entries, emit historyCleared (queued).
ClearHistory ==
  /\ viewer.open /\ Room
  /\ past' = <<>> /\ received' = <<>> /\ viewer' = Signal(viewer, <<"cleared">>) /\ UNCHANGED pastMax

\* onNotificationAdded, onHistoryCleared.
ViewerSignal ==
  /\ viewer.signals # <<>>
  /\ viewer' = [viewer EXCEPT !.signals = Tail(@),
                              !.list = IF Head(viewer.signals)[1] = "added" THEN Append(@, Head(viewer.signals)[2])
                                       ELSE <<>>]
  /\ UNCHANGED <<past, pastMax, received>>

CloseViewer == viewer.open /\ viewer' = Closed /\ UNCHANGED <<past, pastMax, received>>

HistoryNext ==
  \/ \E m \in Notice : AddNotification(m)
  \/ \E n \in Sizes : SetMaxSize(n)
  \/ OpenViewer \/ ClearHistory \/ ViewerSignal \/ CloseViewer

HistorySpec == HistoryInit /\ [][HistoryNext]_historyVars

HistoryTypeOK == past \in Seq(Notice) /\ pastMax \in 1..kSizeLimit /\ viewer.list \in Seq(Notice)

\* The history holds the last m_maxSize messages since it was cleared, in order, whatever the size was
\* set to in between (addNotification, clear, setMaxSize).
HistoryFaithful == past = LastOf(received, pastMax)

\* The open dialog, once its queued signals are handled, ends with the history: nothing is missed
\* between populateList and connect, and what was cleared does not come back.
ViewerShows ==
  (viewer.open /\ viewer.signals = <<>>) =>
     /\ Len(past) <= Len(viewer.list) /\ LastOf(viewer.list, Len(past)) = past
     /\ past = <<>> => viewer.list = <<>>

\* Refuted: the dialog's list is never trimmed, so that it outgrows the "last %1" its label announces.
ViewerBounded == Len(viewer.list) <= kSizeLimit
=============================================================================
