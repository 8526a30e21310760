------------------------------- MODULE CrashReports -------------------------------
(***************************************************************************)
(* CrashHandler: the one-shot signal handler that writes a report and lets the *)
(* signal kill the process, the crash_<second>.txt files, and the dialog that   *)
(* shows, reports and deletes them after a restart.                            *)
(*                                                                         *)
(* Any thread may crash at any time, also while another one, or itself, is      *)
(* writing a report.  The parts of a report are written one by one.            *)
(***************************************************************************)
EXTENDS Naturals, Sequences, FiniteSets

CONSTANTS
  CThread,     \* threads of the process
  Sig,         \* signals that are handled
  MaxCrashes   \* bound: crashes

ASSUME CrashAssumption == MaxCrashes \in Nat /\ IsFiniteSet(CThread) /\ IsFiniteSet(Sig)

VARIABLES
  up,          \* is there a process
  handler,     \* signal -> is it handled by signalHandler (or by default)
  at,          \* thread -> the part it writes next, 0 when it is not in the handler
  mine,        \* thread -> number of its crash, and the second its file is named by
  reports,     \* second -> the parts in the file, each with the crash it is from; <<>> for no file
  now,         \* the clock, in seconds
  crashes,     \* crashes so far
  life,        \* history variable: crashes in the current or last process
  listing,     \* CrashReportDialog: is it open, the reports it has listed, the one it shows
  viewer,      \* CrashReportViewerDialog: the report it shows, 0 when there is none
  dontShow     \* the setting "don't show again"

crashVars == <<up, handler, at, mine, reports, now, crashes, life, listing, viewer, dontShow>>
processVars == <<up, handler, at, mine>>

Parts == 3 \* what is known at once, the backtrace, the footer
NoListing == [open |-> FALSE, listed |-> {}, current |-> 0]

CrashInit ==
  /\ up = TRUE /\ handler = [s \in Sig |-> TRUE] /\ at = [t \in CThread |-> 0]
  /\ mine = [t \in CThread |-> [n |-> 0, second |-> 1]] /\ reports = [k \in 1..MaxCrashes + 1 |-> <<>>]
  /\ now = 1 /\ crashes = 0 /\ life = {} /\ listing = NoListing /\ viewer = 0 /\ dontShow = FALSE

(* ------------------------------------ The handler ------------------------------------ *)

Dies == up' = FALSE /\ at' = [t \in CThread |-> 0] /\ UNCHANGED <<handler, mine>>

\* A thread gets a signal: SA_RESETHAND gives it back to the default action, which is what a second one meets.
Signal(t, s) ==
  /\ up /\ crashes < MaxCrashes /\ crashes' = crashes + 1 /\ life' = life \cup {crashes + 1}
  /\ IF handler[s] THEN /\ handler' = [handler EXCEPT ![s] = FALSE] /\ at' = [at EXCEPT ![t] = 1] /\ UNCHANGED up
                        /\ mine' = [mine EXCEPT ![t] = [n |-> crashes + 1, second |-> now]]
     ELSE Dies
  /\ UNCHANGED <<reports, now, listing, viewer, dontShow>>

\* writeCrashReport: the file of this second, emptied (O_TRUNC), then part after part, to no avail if it is deleted.
WriteReport(t) ==
  LET k == mine[t].second  line == [n |-> mine[t].n, part |-> at[t]] IN
  /\ up /\ at[t] \in 1..Parts /\ at' = [at EXCEPT ![t] = @ + 1]
  /\ reports' = [reports EXCEPT ![k] = IF at[t] = 1 THEN <<line>> ELSE IF @ = <<>> THEN @ ELSE Append(@, line)]
  /\ UNCHANGED <<up, handler, mine, now, crashes, life, listing, viewer, dontShow>>

\* The rest of signalHandler: the default action again, raise.
RaiseEarly(t) ==
  /\ up /\ at[t] >= Parts /\ Dies /\ UNCHANGED <<reports, now, crashes, life, listing, viewer, dontShow>>
Raise(t) ==
  /\ up /\ at[t] = Parts + 1 /\ Dies /\ UNCHANGED <<reports, now, crashes, life, listing, viewer, dontShow>>

\* The next process, in the same second or later: install.
Install ==
  /\ ~up /\ now <= MaxCrashes /\ up' = TRUE /\ handler' = [s \in Sig |-> TRUE] /\ life' = {}
  /\ now' \in {now, now + 1}
  /\ UNCHANGED <<at, mine, reports, crashes, listing, viewer, dontShow>>

(* ------------------------------------ The dialog ------------------------------------ *)

\* getCrashReports, in the order of the directory.
CrashReportsNow == {k \in DOMAIN reports : reports[k] # <<>>}
Removed(r, ks) == [k \in DOMAIN r |-> IF k \in ks THEN <<>> ELSE r[k]]

\* shouldShowCrashDialog and the constructor.
ShowReports ==
  /\ ~listing.open /\ ~dontShow /\ CrashReportsNow # {}
  /\ \E k \in CrashReportsNow : listing' = [open |-> TRUE, listed |-> CrashReportsNow, current |-> k]
  /\ UNCHANGED <<processVars, reports, now, crashes, life, viewer, dontShow>>

\* onReportBug: the report shown is deleted if the user says so.
ReportBug(yes, never) ==
  /\ listing.open /\ listing' = NoListing /\ dontShow' = (dontShow \/ never)
  /\ reports' = IF yes THEN Removed(reports, {listing.current}) ELSE reports
  /\ UNCHANGED <<processVars, now, crashes, life, viewer>>

\* onDismiss: deleteAllCrashReports lists the files again.
DismissReports(yes, never) ==
  /\ listing.open /\ listing' = NoListing /\ dontShow' = (dontShow \/ never)
  /\ reports' = IF yes THEN Removed(reports, CrashReportsNow) ELSE reports
  /\ UNCHANGED <<processVars, now, crashes, life, viewer>>

\* onViewReport, and the viewer its caller opens on the report that was shown.
ViewReport(never) ==
  /\ listing.open /\ viewer = 0 /\ viewer' = listing.current /\ listing' = NoListing /\ dontShow' = (dontShow \/ never)
  /\ UNCHANGED <<processVars, reports, now, crashes, life>>

\* onDeleteReport and onReportBug of the viewer close it once the file is deleted, onClose at once.
ViewerDeletes ==
  /\ viewer # 0 /\ viewer' = 0 /\ reports' = Removed(reports, {viewer})
  /\ UNCHANGED <<processVars, now, crashes, life, listing, dontShow>>
ViewerCloses ==
  /\ viewer # 0 /\ viewer' = 0 /\ UNCHANGED <<processVars, reports, now, crashes, life, listing, dontShow>>

CrashNext ==
  \/ \E t \in CThread, s \in Sig : Signal(t, s)
  \/ \E t \in CThread : WriteReport(t) \/ Raise(t)
  \/ Install \/ ShowReports \/ ViewerDeletes \/ ViewerCloses
  \/ \E never \in BOOLEAN : ViewReport(never)
  \/ \E yes, never \in BOOLEAN : ReportBug(yes, never) \/ DismissReports(yes, never)

CrashFairness == \A t \in CThread : WF_crashVars(WriteReport(t)) /\ WF_crashVars(Raise(t))

CrashSpec == CrashInit /\ [][CrashNext]_crashVars /\ CrashFairness

(* ------------------------------------ Properties ------------------------------------ *)

CrashTypeOK ==
  /\ up \in BOOLEAN /\ handler \in [Sig -> BOOLEAN] /\ at \in [CThread -> 0..Parts + 1] /\ now \in DOMAIN reports
  /\ listing.listed \subseteq DOMAIN reports /\ viewer \in 0..MaxCrashes + 1 /\ dontShow \in BOOLEAN

Whole(r) == Len(r) = Parts /\ \A i \in 1..Parts : r[i] = [n |-> r[1].n, part |-> i]

\* A process that died of one crash leaves the whole report, until it is deleted; only crashes that overlap, in
\* two threads or in the handler, leave parts of several or half a report.
ReportWhole == (~up /\ Cardinality(life) = 1 /\ reports[now] # <<>>) => Whole(reports[now])

\* A crash kills the process in the end: the handler does not return to the fault, nor is it entered again and
\* again (SA_RESETHAND, raise with the default action).
CrashEnds == (\E t \in CThread : at[t] # 0) ~> ~up

\* Reporting a bug, and the viewer, delete no report but the one that is shown.
DeletesShown ==
  [][/\ ViewerDeletes => \A k \in CrashReportsNow \ {viewer} : reports'[k] = reports[k]
     /\ \A yes, never \in BOOLEAN : ReportBug(yes, never) => \A k \in CrashReportsNow \ {listing.current} : reports'[k] = reports[k]]_crashVars

\* Refuted: Dismiss deletes what it asked about, not reports written since (onDismiss).
DismissDeletesListed ==
  [][\A yes, never \in BOOLEAN : DismissReports(yes, never) => \A k \in CrashReportsNow \ listing.listed : reports'[k] = reports[k]]_crashVars

\* Refuted: a new report leaves the finished ones alone.  The name has the second and no more.
EarlierKept ==
  [][\A t \in CThread : WriteReport(t) => \A k \in CrashReportsNow : Whole(reports[k]) => reports'[k] = reports[k]]_crashVars

\* Refuted: every report that is not being written is whole.
AllWhole == ~up => \A k \in CrashReportsNow : Whole(reports[k])

\* One crash leaves one whole report, and only a report that was shown is deleted.
CrashSafe == [](CrashTypeOK /\ ReportWhole) /\ DeletesShown
=============================================================================
