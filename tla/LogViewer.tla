--------------------------------- MODULE LogViewer ---------------------------------
(***************************************************************************)
(* DialogLogQt with its LogStatsPanel: a bounded buffer of log entries, the  *)
(* text view that shows those that pass the filter, the pause counter, the    *)
(* search with its highlights, and the statistics.                            *)
(*                                                                         *)
(* Logger::log calls the dialog's listener on the logging thread; the listener *)
(* posts the entry to the GUI thread, where processLogEntry takes it.  An      *)
(* entry is a serial number, a level and whether the searched word is in it.   *)
(***************************************************************************)
EXTENDS Naturals, Sequences, FiniteSets

CONSTANTS
  Levels,      \* 0 (trace) to 3 (error)
  Limits,      \* values of the buffer limit
  TrimDivisor, \* the oldest 1/TrimDivisor of the limit goes when it is exceeded (10 in the code)
  MaxEntries,  \* bound: log entries
  MaxClicks    \* bound: what the user does

ASSUME LogViewerAssumption ==
  Levels \subseteq Nat /\ Limits \subseteq Nat \ {0} /\ TrimDivisor \in Nat \ {0} /\ MaxEntries \in Nat /\ MaxClicks \in Nat

VARIABLES
  logged,      \* entries logged so far
  queued,      \* posted to the GUI thread
  entries,     \* m_allEntries
  limit,       \* m_maxBufferSize
  view,        \* the lines shown, with their highlights
  minLevel,    \* m_minLevel, for the filters
  pause,       \* m_paused, m_entriesWhilePaused
  search,      \* m_searchText (set or not), m_totalMatches, m_currentMatchIndex, the line found
  stats,       \* LogStatsPanel: count per level, buffer usage
  seen,        \* history variable: the entries processed since the last clear
  sincePause,  \* history variable: lines added to the view since the pause or the clear
  clicks

viewerVars == <<logged, queued, entries, limit, view, minLevel, pause, search, stats, seen, sincePause, clicks>>

\* shouldDisplay.
ShouldDisplay(e) == e.level >= minLevel
Line(e) == [n |-> e.n, hit |-> e.hit, lit |-> FALSE]
Lines(es, min) ==
  LET shown[i \in 0..Len(es)] ==
        IF i = 0 THEN <<>>
        ELSE IF es[i].level >= min THEN Append(shown[i - 1], Line(es[i])) ELSE shown[i - 1]
  IN  shown[Len(es)]
HitsOf(v) == {i \in DOMAIN v : v[i].hit}
HitCount(v) == Cardinality(HitsOf(v))

ViewerInit ==
  /\ logged = 0 /\ queued = <<>> /\ entries = <<>> /\ limit \in Limits /\ view = <<>>
  /\ minLevel = 0 /\ pause = [on |-> FALSE, missed |-> 0]
  /\ search = [text |-> FALSE, total |-> 0, index |-> 0, at |-> 0]
  /\ stats = [count |-> [l \in Levels |-> 0], used |-> 0]
  /\ seen = <<>> /\ sincePause = 0 /\ clicks = 0

(* ------------------------------------ Entries ------------------------------------ *)

\* Logger::log and the listener of subscribeToLogger.
Log(l, hit) ==
  /\ logged < MaxEntries /\ logged' = logged + 1
  /\ queued' = Append(queued, [n |-> logged + 1, level |-> l, hit |-> hit])
  /\ UNCHANGED <<entries, limit, view, minLevel, pause, search, stats, seen, sincePause, clicks>>

\* trimBufferIfNeeded: the oldest part of the limit, or all that is in excess if that is more.
TrimShare(es, max) ==
  IF Len(es) <= max THEN es ELSE SubSeq(es, (IF max \div TrimDivisor < 1 THEN 1 ELSE max \div TrimDivisor) + 1, Len(es))
Trim(es, max) ==
  IF Len(es) <= max THEN es
  ELSE LET share == IF max \div TrimDivisor < 1 THEN 1 ELSE max \div TrimDivisor
           excess == Len(es) - max
       IN SubSeq(es, (IF share > excess THEN share ELSE excess) + 1, Len(es))

\* processLogEntry.
Process ==
  /\ queued # <<>> /\ queued' = Tail(queued)
  /\ entries' = Trim(Append(entries, Head(queued)), limit)
  /\ stats' = [count |-> [stats.count EXCEPT ![Head(queued).level] = @ + 1], used |-> Len(entries')]
  /\ seen' = Append(seen, Head(queued))
  /\ IF ShouldDisplay(Head(queued))
     THEN view' = Append(view, Line(Head(queued))) /\ sincePause' = sincePause + 1
     ELSE UNCHANGED <<view, sincePause>>
  /\ pause' = [pause EXCEPT !.missed = IF pause.on /\ ShouldDisplay(Head(queued)) THEN @ + 1 ELSE @]
  /\ UNCHANGED <<logged, limit, minLevel, search, clicks>>

(* ------------------------------------ The user ------------------------------------ *)

Clicks == clicks < MaxClicks /\ clicks' = clicks + 1

\* clearLog, from Clear (which asks first when there are many) and Clear Stats.
Clear ==
  /\ Clicks /\ entries' = <<>> /\ view' = <<>> /\ stats' = [count |-> [l \in Levels |-> 0], used |-> 0]
  /\ pause' = [pause EXCEPT !.missed = 0] /\ seen' = <<>> /\ sincePause' = 0 /\ search' = [search EXCEPT !.at = 0]
  /\ UNCHANGED <<logged, queued, limit, minLevel>>

\* onPauseResume; setAutoScroll does the same.
PauseResume ==
  /\ Clicks /\ pause' = [on |-> ~pause.on, missed |-> 0] /\ sincePause' = 0
  /\ UNCHANGED <<logged, queued, entries, limit, view, minLevel, search, stats, seen>>

\* rebuildLogView: the highlights and the cursor's line go.
SetFilters(min) ==
  /\ Clicks /\ min # minLevel /\ minLevel' = min /\ view' = Lines(entries, min) /\ search' = [search EXCEPT !.at = 0]
  /\ UNCHANGED <<logged, queued, entries, limit, pause, stats, seen, sincePause>>

\* onBufferLimitChanged: trim, show the usage, rebuild what is not empty.
SetLimit(max) ==
  /\ Clicks /\ max # limit /\ limit' = max /\ entries' = Trim(entries, max)
  /\ stats' = [stats EXCEPT !.used = Len(entries')]
  /\ view' = IF entries' = <<>> THEN view ELSE Lines(entries', minLevel)
  /\ search' = [search EXCEPT !.at = 0]
  /\ UNCHANGED <<logged, queued, minLevel, pause, seen, sincePause>>

(* ------------------------------------ Search ------------------------------------ *)

\* findMatch: the next or the previous hit from the cursor, round the end; the index counts along.
NextHit(v, at) == IF \E i \in HitsOf(v) : i > at THEN CHOOSE i \in HitsOf(v) : i > at /\ \A j \in HitsOf(v) : j > at => i <= j ELSE 0
LastHit(v, at) == IF \E i \in HitsOf(v) : i < at THEN CHOOSE i \in HitsOf(v) : i < at /\ \A j \in HitsOf(v) : j < at => i >= j ELSE 0
FindMatch(s, v, forward) ==
  LET found == IF forward THEN NextHit(v, s.at) ELSE LastHit(v, s.at)
      round == IF forward THEN NextHit(v, 0) ELSE LastHit(v, Len(v) + 1)
  IN IF s.total = 0 THEN s
     ELSE IF found # 0
          THEN [s EXCEPT !.at = found, !.index = IF forward THEN (@ + 1) % s.total ELSE (@ + s.total - 1) % s.total]
          ELSE [s EXCEPT !.at = round, !.index = IF forward THEN 0 ELSE s.total - 1]

\* onSearchTextChanged with a text: rebuild, highlight and count all, go to the first.
Lit(v) == [i \in DOMAIN v |-> [v[i] EXCEPT !.lit = v[i].hit]]
Search ==
  /\ Clicks /\ view' = Lit(Lines(entries, minLevel))
  /\ search' = LET s == [text |-> TRUE, total |-> HitCount(view'), index |-> 0, at |-> 0] IN FindMatch(s, view', TRUE)
  /\ UNCHANGED <<logged, queued, entries, limit, minLevel, pause, stats, seen, sincePause>>

\* With the empty text: clearSearchHighlights rebuilds if something was found.
SearchEnds ==
  /\ Clicks /\ search.text /\ view' = IF search.total > 0 THEN Lines(entries, minLevel) ELSE view
  /\ search' = [text |-> FALSE, total |-> 0, index |-> 0, at |-> 0]
  /\ UNCHANGED <<logged, queued, entries, limit, minLevel, pause, stats, seen, sincePause>>

\* onFindNext and onFindPrevious, enabled when the search found something.
Find(forward) ==
  /\ Clicks /\ search.total > 0 /\ search' = FindMatch(search, view, forward)
  /\ UNCHANGED <<logged, queued, entries, limit, view, minLevel, pause, stats, seen, sincePause>>

\* setupUI, setupFilterControls, setupFontControls and setupSearchControls connect the widgets.
ViewerWidgets ==
  \/ Clear \/ PauseResume \/ Search \/ SearchEnds
  \/ \E forward \in BOOLEAN : Find(forward)
  \/ \E min \in Levels : SetFilters(min)
  \/ \E max \in Limits : SetLimit(max)

ViewerNext == Process \/ ViewerWidgets \/ \E l \in Levels, hit \in BOOLEAN : Log(l, hit)

ViewerSpec == ViewerInit /\ [][ViewerNext]_viewerVars

(* ------------------------------------ Properties ------------------------------------ *)

ViewerTypeOK ==
  /\ limit \in Limits /\ minLevel \in Levels \cup {0} /\ pause.on \in BOOLEAN
  /\ search.at \in 0..Len(view) /\ search.index \in Nat /\ (search.total > 0 => search.index < search.total)

SuffixIs(s, t) == Len(t) <= Len(s) /\ SubSeq(s, Len(s) - Len(t) + 1, Len(s)) = t
Numbers(v) == [i \in DOMAIN v |-> v[i].n]

\* The buffer keeps the newest entries since the last clear, up to the limit, whatever the filter, the limit and
\* the pause did meanwhile (trimBufferIfNeeded), and never trims the entry that has just come (m_allEntries.back()).
BufferNewest == SuffixIs(seen, entries) /\ Len(entries) <= limit /\ (seen # <<>> => entries # <<>>)

\* The view ends with the buffered entries that pass the filter, in their order and once each.
ViewFaithful == SuffixIs(Numbers(view), Numbers(Lines(entries, minLevel)))

\* The pause label counts the lines added since the pause or the last clear.
PauseHonest == pause.on => pause.missed = sincePause

\* The statistics count the entries since the last clear and the buffer as it is.
StatsHonest ==
  /\ stats.used = Len(entries)
  /\ \A l \in Levels : stats.count[l] = Cardinality({i \in DOMAIN seen : seen[i].level = l})

\* Once the search text is empty nothing is highlighted (clearSearchHighlights).
HighlightsGone == ~search.text => \A i \in DOMAIN view : ~view[i].lit

\* Refuted: a trim leaves the view as it is, which grows past the buffer's limit.
ViewBounded == Len(view) <= limit

\* Refuted: the label "k of n matches" names the match the cursor is on.  The first search counts one too many.
MatchNumbered == (search.at # 0 /\ search.total = HitCount(view)) => search.index + 1 = HitCount(SubSeq(view, 1, search.at))
=============================================================================
