----------------------------- MODULE WindowQueries -----------------------------
(***************************************************************************)
(* The X11 window queries, while windows and monitors change between two    *)
(* requests: the property cache, the climb to the top-level window and the  *)
(* monitor of a point.                                                      *)
(***************************************************************************)
EXTENDS Integers, FiniteSets

(* ------------------------------ The property cache ------------------------------ *)
(* WindowPropertyCache as the threads that ask for titles use it.  A window's title *)
(* is the number of times it has changed; class name and process are fetched,       *)
(* stored and answered along with it.                                               *)

CONSTANTS
  XWin,              \* windows
  Asker,             \* threads that ask
  AsksAbout(_),      \* the windows each of them asks about
  kCacheTimeout,     \* life of an entry, in ticks
  FetchTime,         \* how long the requests between the title's answer and the store may take
  kMaxCacheEntries,  \* size of the cache
  Renamed,           \* bound: the windows whose titles change
  MaxTitles,         \* bound: changes of titles
  MaxTicks           \* bound: the clock

ASSUME CacheAssumption ==
  kCacheTimeout \in Nat /\ FetchTime \in Nat /\ kMaxCacheEntries \in Nat \ {0} /\ MaxTitles \in Nat /\ MaxTicks \in Nat

VARIABLES
  title,     \* the windows' titles
  held,      \* history variable: window -> title -> the last time it had it
  propertyCache,     \* cache_: [win, text, stamp], at most one per window
  clock,     \* steady_clock
  ask,       \* the threads: where each is, for which window, what it has read and when, since when
  changes    \* changes of titles so far

cacheVars == <<title, held, propertyCache, clock, ask, changes>>

NoText == -1
Torn == -2
Asleep == [at |-> "idle", win |-> CHOOSE w \in XWin : TRUE, text |-> NoText, since |-> 0, read |-> 0]

CacheInit ==
  /\ title = [w \in XWin |-> 0] /\ held = [w \in XWin |-> [n \in 0..MaxTitles |-> 0]]
  /\ propertyCache = {} /\ clock = 0 /\ ask = [t \in Asker |-> Asleep] /\ changes = 0

Expired(e) == clock - e.stamp > kCacheTimeout

\* WindowPropertyCache::get.
Get(w) == {e \in propertyCache : e.win = w /\ ~Expired(e)}

\* WindowPropertyCache::set: a full cache loses its expired entries or, if none has expired, an oldest one.
Evict(entries) == {entries \ {e} : e \in {x \in entries : \A y \in entries : x.stamp <= y.stamp}}
MakeRoom(entries) ==
  LET fresh == {e \in entries : ~Expired(e)}
  IN  IF Cardinality(entries) < kMaxCacheEntries THEN {entries}
      ELSE IF Cardinality(fresh) < kMaxCacheEntries THEN {fresh} ELSE Evict(fresh)

\* A thread that has a pointer to an entry which another one overwrites or removes reads what is then there.
Spoiled(new) ==
  [t \in Asker |-> IF ask[t].at = "copy" /\ ~\E e \in new : e.win = ask[t].win /\ e.text = ask[t].text
                   THEN [ask[t] EXCEPT !.text = Torn] ELSE ask[t]]

\* getWindowText, getTitleName, getClassName, getWindowProcessId: the entry is copied after the mutex is released.
Lookup(t, asking, missed) ==
  ask' = [ask EXCEPT ![t] = IF Get(asking.win) = {} THEN [asking EXCEPT !.at = missed]
                            ELSE [asking EXCEPT !.at = "copy", !.text = (CHOOSE e \in Get(asking.win) : TRUE).text]]
GetWindowText(t, w) ==
  /\ w \in AsksAbout(t) /\ ask[t].at = "idle" /\ Lookup(t, [ask[t] EXCEPT !.win = w, !.since = clock], "fetch")
  /\ UNCHANGED <<title, held, propertyCache, clock, changes>>

\* fetchAndCacheProperties: ask the server for the title; the requests for the class name and the process follow,
Fetch(t) ==
  /\ ask[t].at = "fetch" /\ ask' = [ask EXCEPT ![t].at = "store", ![t].text = title[ask[t].win], ![t].read = clock]
  /\ UNCHANGED <<title, held, propertyCache, clock, changes>>

\* and store; an entry's time is that of the store.
StoreEmplace(t) ==
  /\ ask[t].at = "store"
  /\ \E kept \in MakeRoom(propertyCache) :
       LET old == {e \in kept : e.win = ask[t].win}
           new == IF old = {} THEN {[win |-> ask[t].win, text |-> ask[t].text, stamp |-> clock]}
                  ELSE {[e EXCEPT !.stamp = clock] : e \in old}
       IN  propertyCache' = (kept \ old) \cup new /\ ask' = [Spoiled(propertyCache') EXCEPT ![t].at = "again", ![t].text = NoText, ![t].read = 0]
  /\ UNCHANGED <<title, held, clock, changes>>
Store(t) ==
  /\ ask[t].at = "store"
  /\ \E kept \in MakeRoom(propertyCache) :
       /\ propertyCache' = {e \in kept : e.win # ask[t].win} \cup {[win |-> ask[t].win, text |-> ask[t].text, stamp |-> clock]}
       /\ ask' = [Spoiled(propertyCache') EXCEPT ![t].at = "again", ![t].text = NoText, ![t].read = 0]
  /\ UNCHANGED <<title, held, clock, changes>>

\* The second get; when the entry is gone again the answer is empty.
GetAgain(t) ==
  /\ ask[t].at = "again" /\ Lookup(t, ask[t], "answered")
  /\ UNCHANGED <<title, held, propertyCache, clock, changes>>
Copy(t) ==
  /\ ask[t].at = "copy" /\ ask' = [ask EXCEPT ![t].at = "answered"]
  /\ UNCHANGED <<title, held, propertyCache, clock, changes>>
Answered(t) ==
  /\ ask[t].at = "answered" /\ ask' = [ask EXCEPT ![t] = Asleep]
  /\ UNCHANGED <<title, held, propertyCache, clock, changes>>

\* A window's title changes.
SetTitle(w) ==
  /\ w \in Renamed /\ changes < MaxTitles /\ changes' = changes + 1 /\ title' = [title EXCEPT ![w] = @ + 1]
  /\ held' = [held EXCEPT ![w] = [@ EXCEPT ![title[w]] = clock, ![title[w] + 1] = clock]]
  /\ UNCHANGED <<propertyCache, clock, ask>>

\* Time passes, also between the server's answer and the store, where the requests that remain are answered
\* within FetchTime.
Tick ==
  /\ clock < MaxTicks /\ clock' = clock + 1
  /\ \A t \in Asker : ask[t].at = "store" => clock < ask[t].read + FetchTime
  /\ held' = [w \in XWin |-> [held[w] EXCEPT ![title[w]] = clock + 1]]
  /\ UNCHANGED <<title, propertyCache, ask, changes>>

CacheNext ==
  \/ \E t \in Asker : Fetch(t) \/ Store(t) \/ GetAgain(t) \/ Copy(t) \/ Answered(t) \/ \E w \in XWin : GetWindowText(t, w)
  \/ (\E w \in XWin : SetTitle(w)) \/ Tick

CacheSpec == CacheInit /\ [][CacheNext]_cacheVars

CacheTypeOK ==
  /\ title \in [XWin -> 0..MaxTitles] /\ clock \in 0..MaxTicks /\ Cardinality(propertyCache) <= kMaxCacheEntries
  /\ propertyCache \subseteq [win : XWin, text : 0..MaxTitles, stamp : 0..MaxTicks]
  /\ \A d, e \in propertyCache : d.win = e.win => d = e
  /\ \A t \in Asker : ask[t].at \in {"idle", "copy", "fetch", "store", "again", "answered"}

\* A title read whole is one the window had no longer before it was asked for than an entry lives and the
\* thread that stored it was at the requests in between: get() counts from the store (queries.cpp:53), not from
\* the answer, and a slow thread overwrites what a faster one has stored since.
AnswerRecent ==
  \A t \in Asker : ask[t].at = "answered" /\ ask[t].text >= 0
    => held[ask[t].win][ask[t].text] >= ask[t].since - kCacheTimeout - FetchTime

\* "Cache entry lifetime" taken at its word: no answer is older than kCacheTimeout.
AnswerFresh ==
  \A t \in Asker : ask[t].at = "answered" /\ ask[t].text >= 0
    => held[ask[t].win][ask[t].text] >= ask[t].since - kCacheTimeout

\* A full cache that drops an entry which has not expired drops an oldest one.
EvictsOldest ==
  [][\A e \in propertyCache : (\A d \in propertyCache' : d.win # e.win) /\ ~Expired(e) => \A d \in propertyCache' : e.stamp <= d.stamp]_cacheVars

\* "All methods are thread-safe via internal mutex": a thread copies the entry it was given a pointer to.
CacheThreadSafe == \A t \in Asker : ask[t].text # Torn

(* ------------------------- Top-level windows and monitors ------------------------- *)
(* The climb from a window to its top-level window (WindowSystemLinuxHierarchy) and   *)
(* the monitor of a point (WindowSystemLinuxMonitor), each a sequence of requests.    *)
(* One axis of the screen stands for both.                                            *)

CONSTANTS
  TreeWin,      \* windows
  Monitor,      \* CRTCs, 1..n in the order the server lists them
  kMaxDepth,    \* maxDepth of getToplevelWindow
  MaxMoves      \* bound: changes of the tree and of monitors

Root == "root"

ASSUME TreeAssumption ==
  /\ TreeWin # {} /\ Monitor # {} /\ Root \notin TreeWin
  /\ IsFiniteSet(Monitor) /\ Monitor = 1..Cardinality(Monitor) /\ kMaxDepth \in Nat /\ MaxMoves \in Nat

VARIABLES
  parent,    \* the window tree
  climb,     \* getToplevelWindow: the window reached, and the turns left
  area,      \* the monitors: [lo, hi) of each, empty when switched off
  primary,   \* the primary output's CRTC, 0 for none
  found,     \* the monitor lookup: where it is, the point, the CRTC asked about or found, and whether a
             \* monitor has changed since it began
  moves      \* changes so far

treeVars == <<parent, climb, area, primary, found, moves>>

NoClimb == [at |-> "idle", win |-> CHOOSE w \in TreeWin : TRUE, left |-> 0]
Off == [lo |-> 0, hi |-> 0]
NotLooked == [at |-> "none", point |-> 0, monitor |-> 0, moved |-> FALSE]

\* Is w the window v or above it ? Windows are nested at most three deep.
Above(w, v) == w \in {v, parent[v]} \/ (parent[v] # Root /\ parent[parent[v]] = w)

TreeInit ==
  /\ parent \in {p \in [TreeWin -> TreeWin \cup {Root}] : \A w \in TreeWin : p[w] # Root => p[p[w]] = Root}
  /\ climb = NoClimb /\ area = [m \in Monitor |-> [lo |-> 2 * (m - 1), hi |-> 2 * m]]
  /\ primary \in Monitor \cup {0} /\ found = NotLooked /\ moves = 0

\* getToplevelWindow: one XQueryTree a turn.
GetToplevelWindow(w) ==
  /\ climb.at # "climb" /\ climb' = [at |-> "climb", win |-> w, left |-> kMaxDepth]
  /\ UNCHANGED <<parent, area, primary, found, moves>>
Climb ==
  /\ climb.at = "climb"
  /\ climb' = IF climb.left = 0 \/ parent[climb.win] = Root THEN [climb EXCEPT !.at = "top"]
              ELSE [climb EXCEPT !.win = parent[climb.win], !.left = @ - 1]
  /\ UNCHANGED <<parent, area, primary, found, moves>>

In(x, a) == a.lo <= x /\ x < a.hi

\* getMonitorFromPoint, getMonitorFromWindow (of its centre): the screen's resources, then a request for each CRTC
\* until one is on and has the point in it.
LookAt(x) ==
  /\ found.at \notin {"point", "primary", "lit"}
  /\ found' = [at |-> "point", point |-> x, monitor |-> 1, moved |-> FALSE]
  /\ UNCHANGED <<parent, climb, area, primary, moves>>
Passed(next, hit) ==
  IF hit THEN [found EXCEPT !.at = "found"]
  ELSE IF found.monitor + 1 \in Monitor THEN [found EXCEPT !.monitor = @ + 1] ELSE next
AskCrtc ==
  /\ found.at = "point"
  /\ found' = Passed([found EXCEPT !.at = "primary"], area[found.monitor] # Off /\ In(found.point, area[found.monitor]))
  /\ UNCHANGED <<parent, climb, area, primary, moves>>

\* getPrimaryMonitor: the primary output's CRTC or, if there is none, the first that is on, again one request each.
AskPrimary ==
  /\ found.at = "primary"
  /\ found' = IF primary # 0 THEN [found EXCEPT !.at = "found", !.monitor = primary]
              ELSE [found EXCEPT !.at = "lit", !.monitor = 1]
  /\ UNCHANGED <<parent, climb, area, primary, moves>>
AskLit ==
  /\ found.at = "lit"
  /\ found' = Passed([found EXCEPT !.at = "found", !.monitor = 0], area[found.monitor] # Off)
  /\ UNCHANGED <<parent, climb, area, primary, moves>>

\* getMonitorRect: of the monitor, or of the primary output's; a CRTC switched off has an empty one.
MonitorRect(m) == IF m # 0 THEN area[m] ELSE IF primary # 0 THEN area[primary] ELSE Off

\* getMonitorWorkArea: the part of it inside the first desktop's work area.
WorkArea(m, work) ==
  [lo |-> IF MonitorRect(m).lo < work.lo THEN work.lo ELSE MonitorRect(m).lo,
   hi |-> IF MonitorRect(m).hi > work.hi THEN work.hi ELSE MonitorRect(m).hi]

\* The window manager reparents a window; a monitor is switched on or off.
Reparent(w, p) ==
  /\ moves < MaxMoves /\ moves' = moves + 1
  /\ p # parent[w] /\ (p # Root => ~Above(w, p)) /\ parent' = [parent EXCEPT ![w] = p]
  /\ UNCHANGED <<climb, area, primary, found>>
SwitchMonitor(m) ==
  /\ moves < MaxMoves /\ moves' = moves + 1
  /\ area' = [area EXCEPT ![m] = IF @ = Off THEN [lo |-> 2 * (m - 1), hi |-> 2 * m] ELSE Off]
  /\ primary' = IF primary = m /\ area'[m] = Off THEN 0 ELSE primary
  /\ found' = [found EXCEPT !.moved = TRUE] /\ UNCHANGED <<parent, climb>>

TreeNext ==
  \/ Climb \/ (\E w \in TreeWin : GetToplevelWindow(w) \/ \E p \in TreeWin \cup {Root} : Reparent(w, p))
  \/ AskCrtc \/ AskPrimary \/ AskLit \/ (\E x \in 0..2 * Cardinality(Monitor) : LookAt(x)) \/ \E m \in Monitor : SwitchMonitor(m)

TreeSpec == TreeInit /\ [][TreeNext]_treeVars

TreeTypeOK ==
  /\ parent \in [TreeWin -> TreeWin \cup {Root}] /\ climb.at \in {"idle", "climb", "top"} /\ climb.left \in 0..kMaxDepth
  /\ primary \in Monitor \cup {0} /\ found.monitor \in Monitor \cup {0} /\ moves \in 0..MaxMoves

\* However the window manager reparents windows during the climb, getToplevelWindow ends at a window, never at the root.
ToplevelIsWindow == climb.win # Root

\* Unless a monitor changes between the requests or since, the rectangle of the monitor found for a point on a
\* screen has the point in it.
PointOnMonitor ==
  found.at = "found" /\ ~found.moved /\ (\E m \in Monitor : In(found.point, area[m]))
    => In(found.point, MonitorRect(found.monitor))

\* A monitor found has a rectangle that is not empty; one switched off since has an empty one.
MonitorAlways == found.at = "found" /\ found.monitor # 0 => MonitorRect(found.monitor) # Off

\* The work area of a monitor that has one is not turned inside out.
WorkAreaOrdered == found.at = "found" => \A work \in {area[m] : m \in Monitor} : WorkArea(found.monitor, work).lo <= WorkArea(found.monitor, work).hi
=============================================================================
