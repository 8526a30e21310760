----------------------------- MODULE SettingsProofs -----------------------------
(***************************************************************************)
(* Proofs about the settings library: the list of configurations and what   *)
(* is stored of it, backups, export and import, the tables that the JSON    *)
(* loader fills, and the daemon that keeps the session and serves yamy-ctl. *)
(***************************************************************************)
EXTENDS ConfigManager, ConfigArchive, JsonLoader, Daemon, ProofBasics, SequenceTheorems, FiniteSetTheorems, TLAPS

(* --------------------------------- Lists ----------------------------------- *)

ListEntry == [path : Config, exists : BOOLEAN]

\* Every path once.
Single(l) == \A i, j \in DOMAIN l : l[i].path = l[j].path => i = j

LEMMA ListDomain ==
  ASSUME NEW l \in Seq(ListEntry)
  PROVE  /\ DOMAIN l = 1..Len(l) /\ Len(l) \in Nat
         /\ \A i \in DOMAIN l : l[i] \in ListEntry /\ l[i].path \in Config
<1>1. DOMAIN l = 1..Len(l) /\ Len(l) \in Nat /\ \A i \in DOMAIN l : l[i] \in ListEntry
  OBVIOUS
<1>2. \A e \in ListEntry : e.path \in Config
  BY DEF ListEntry
<1> QED
  BY <1>1, <1>2

LEMMA PathsType ==
  ASSUME NEW l \in Seq(ListEntry)
  PROVE  PathsOf(l) \in Seq(Config) /\ Len(PathsOf(l)) = Len(l) /\ \A i \in DOMAIN l : PathsOf(l)[i] = l[i].path
BY ListDomain DEF PathsOf

\* findConfig.
LEMMA FindIs ==
  ASSUME NEW l \in Seq(ListEntry), NEW p \in Config
  PROVE  /\ Find(l, p) = 0 <=> ~\E i \in DOMAIN l : l[i].path = p
         /\ Find(l, p) # 0 => Find(l, p) \in DOMAIN l /\ l[Find(l, p)].path = p
<1>1. CASE ~\E i \in DOMAIN l : l[i].path = p
  BY <1>1 DEF Find
<1>2. CASE \E i \in DOMAIN l : l[i].path = p
  <2> DEFINE at == {i \in DOMAIN l : l[i].path = p}
  <2>1. at \in SUBSET Nat /\ at # {}
    BY <1>2, ListDomain
  <2>2. PICK i \in at : \A j \in at : i <= j
    BY <2>1, LeastElement
  <2>3. i \in DOMAIN l /\ l[i].path = p /\ \A j \in 1..(i - 1) : l[j].path # p
    BY <2>2, ListDomain
  <2>4. Find(l, p) \in DOMAIN l /\ l[Find(l, p)].path = p
    BY <2>3 DEF Find
  <2> QED
    BY <1>2, <2>4, ListDomain
<1> QED
  BY <1>1, <1>2

LEMMA AppendKeeps ==
  ASSUME NEW l \in Seq(ListEntry), Single(l), NEW e \in ListEntry, \A i \in DOMAIN l : l[i].path # e.path
  PROVE  /\ Append(l, e) \in Seq(ListEntry) /\ Single(Append(l, e)) /\ Len(Append(l, e)) = Len(l) + 1
         /\ \A i \in DOMAIN l : Append(l, e)[i] = l[i]
BY ListDomain DEF Single

LEMMA RemoveKeeps ==
  ASSUME NEW l \in Seq(ListEntry), Single(l), NEW i \in DOMAIN l
  PROVE  /\ RemoveAt(l, i) \in Seq(ListEntry) /\ Single(RemoveAt(l, i)) /\ Len(RemoveAt(l, i)) = Len(l) - 1
         /\ \A j \in 1..Len(l) - 1 : RemoveAt(l, i)[j] = IF j < i THEN l[j] ELSE l[j + 1]
<1> DEFINE a == SubSeq(l, 1, i - 1)
           b == SubSeq(l, i + 1, Len(l))
<1>1. i \in 1..Len(l) /\ Len(l) \in Nat /\ DOMAIN l = 1..Len(l)
  BY ListDomain
<1>2. a \in Seq(ListEntry) /\ Len(a) = i - 1 /\ \A j \in 1..i - 1 : a[j] = l[j]
  BY <1>1
<1>3. b \in Seq(ListEntry) /\ Len(b) = Len(l) - i /\ \A j \in 1..Len(l) - i : b[j] = l[i + j]
  BY <1>1
<1> HIDE DEF a, b
<1>4. /\ a \o b \in Seq(ListEntry) /\ Len(a \o b) = Len(l) - 1
      /\ \A j \in 1..Len(l) - 1 : (a \o b)[j] = IF j <= i - 1 THEN a[j] ELSE b[j - (i - 1)]
  <2>1. /\ a \o b \in Seq(ListEntry) /\ Len(a \o b) = Len(a) + Len(b)
        /\ \A j \in 1..Len(a) + Len(b) : (a \o b)[j] = IF j <= Len(a) THEN a[j] ELSE b[j - Len(a)]
    BY <1>2, <1>3, ConcatProperties
  <2>2. Len(a) = i - 1 /\ Len(a) + Len(b) = Len(l) - 1
    BY <1>1, <1>2, <1>3
  <2> QED
    BY <2>1, <2>2
<1>5. ASSUME NEW j \in 1..Len(l) - 1 PROVE (a \o b)[j] = IF j < i THEN l[j] ELSE l[j + 1]
  <2>1. CASE j < i
    BY <1>1, <1>2, <1>4, <2>1
  <2>2. CASE ~(j < i)
    <3>1. j - (i - 1) \in 1..Len(l) - i /\ i + (j - (i - 1)) = j + 1 /\ ~(j <= i - 1)
      BY <1>1, <2>2
    <3> QED
      BY <1>3, <1>4, <2>2, <3>1
  <2> QED
    BY <2>1, <2>2
<1>6. Single(a \o b)
  <2> SUFFICES ASSUME NEW x \in 1..Len(l) - 1, NEW y \in 1..Len(l) - 1, (a \o b)[x].path = (a \o b)[y].path
               PROVE  x = y
    <3>1. DOMAIN (a \o b) = 1..Len(l) - 1
      BY <1>4
    <3> QED
      BY <3>1 DEF Single
  <2> DEFINE X == IF x < i THEN x ELSE x + 1
             Y == IF y < i THEN y ELSE y + 1
  <2>1. X \in DOMAIN l /\ Y \in DOMAIN l /\ l[X].path = l[Y].path
    <3>1. X \in 1..Len(l) /\ Y \in 1..Len(l)
      BY <1>1
    <3>2. (a \o b)[x] = l[X] /\ (a \o b)[y] = l[Y]
      BY <1>5
    <3> QED
      BY <1>1, <3>1, <3>2
  <2>2. X = Y
    BY <2>1 DEF Single
  <2> QED
    BY <1>1, <2>2
<1> QED
  BY <1>4, <1>5, <1>6 DEF RemoveAt, a, b

\* refreshList: the entries stay where they are, and files that were not listed follow.
LEMMA RefreshKeeps ==
  ASSUME NEW l \in Seq(ListEntry), Single(l), NEW found \in SetToSeqs(Unlisted(l)), file \in [Config -> Nat]
  PROVE  /\ Refreshed(l, found) \in Seq(ListEntry) /\ Single(Refreshed(l, found))
         /\ Len(l) \in 0..Len(Refreshed(l, found)) /\ (found = <<>> => Len(Refreshed(l, found)) = Len(l))
         /\ \A i \in DOMAIN l : Refreshed(l, found)[i].path = l[i].path
<1> DEFINE U == Unlisted(l)
           a == [i \in DOMAIN l |-> Entry(l[i].path)]
           b == [i \in DOMAIN found |-> [path |-> found[i], exists |-> TRUE]]
<1>1. DOMAIN l = 1..Len(l) /\ Len(l) \in Nat /\ \A i \in DOMAIN l : l[i].path \in Config
  BY ListDomain
<1>2. Cardinality(U) \in Nat
  <2>1. U \subseteq Scanned /\ IsFiniteSet(Scanned)
    BY ManagerAssumption DEF Unlisted
  <2> QED
    BY <2>1, FS_Subset, FS_CardinalityType
<1>3. /\ found \in [1..Cardinality(U) -> U]
      /\ \A i, j \in 1..Cardinality(U) : i # j => found[i] # found[j]
  BY DEF SetToSeqs
<1>4. /\ found \in Seq(U) /\ DOMAIN found = 1..Len(found) /\ Len(found) = Cardinality(U)
  BY <1>2, <1>3
<1>5. \A p \in U : p \in Config /\ \A i \in DOMAIN l : l[i].path # p
  BY FindIs, ManagerAssumption DEF Unlisted
<1>6. a \in Seq(ListEntry) /\ Len(a) = Len(l) /\ \A i \in 1..Len(l) : a[i].path = l[i].path
  <2>1. \A i \in DOMAIN l : Entry(l[i].path) \in ListEntry /\ Entry(l[i].path).path = l[i].path
    BY <1>1 DEF Entry, ListEntry, Exists
  <2> QED
    BY <1>1, <2>1
<1>7. b \in Seq(ListEntry) /\ Len(b) = Len(found) /\ \A i \in 1..Len(found) : b[i].path = found[i]
  <2>1. \A i \in DOMAIN found : [path |-> found[i], exists |-> TRUE] \in ListEntry
    BY <1>3, <1>5 DEF ListEntry
  <2> QED
    BY <1>2, <1>4, <2>1, SMTT(30)
<1> HIDE DEF a, b
<1>8. /\ a \o b \in Seq(ListEntry) /\ Len(a \o b) = Len(l) + Len(found)
      /\ \A i \in 1..Len(l) + Len(found) : (a \o b)[i] = IF i <= Len(l) THEN a[i] ELSE b[i - Len(l)]
  <2>1. /\ a \o b \in Seq(ListEntry) /\ Len(a \o b) = Len(a) + Len(b)
        /\ \A j \in 1..Len(a) + Len(b) : (a \o b)[j] = IF j <= Len(a) THEN a[j] ELSE b[j - Len(a)]
    <3>1. a \in Seq(ListEntry) /\ b \in Seq(ListEntry)
      BY <1>6, <1>7
    <3> QED
      BY <3>1, ConcatProperties
  <2> QED
    BY <1>6, <1>7, <2>1
<1>9. Single(a \o b)
  <2> SUFFICES ASSUME NEW x \in 1..Len(l) + Len(found), NEW y \in 1..Len(l) + Len(found), x < y,
                      (a \o b)[x].path = (a \o b)[y].path
               PROVE  FALSE
    <3>1. DOMAIN (a \o b) = 1..Len(l) + Len(found) /\ Len(l) + Len(found) \in Nat
      BY <1>1, <1>2, <1>4, <1>8
    <3>2. \A x, y \in 1..Len(l) + Len(found) : x = y \/ x < y \/ y < x
      BY <3>1
    <3> QED
      BY <3>1, <3>2 DEF Single
  <2>1. CASE y <= Len(l)
    <3>1. x \in DOMAIN l /\ y \in DOMAIN l /\ l[x].path = l[y].path
      BY <1>1, <1>2, <1>4, <1>6, <1>8, <2>1
    <3> QED
      BY <3>1 DEF Single
  <2>2. CASE x <= Len(l) /\ ~(y <= Len(l))
    <3>1. x \in DOMAIN l /\ y - Len(l) \in 1..Len(found)
      BY <1>1, <1>2, <1>4, <2>2
    <3>2. l[x].path = found[y - Len(l)]
      BY <1>1, <1>6, <1>7, <1>8, <2>2, <3>1
    <3>3. found[y - Len(l)] \in U
      BY <1>3, <1>4, <3>1
    <3> QED
      BY <1>5, <3>1, <3>2, <3>3
  <2>3. CASE ~(x <= Len(l)) /\ ~(y <= Len(l))
    <3>1. x - Len(l) \in 1..Len(found) /\ y - Len(l) \in 1..Len(found) /\ x - Len(l) # y - Len(l)
      BY <1>1, <1>2, <1>4, <2>3
    <3>2. found[x - Len(l)] = found[y - Len(l)]
      BY <1>7, <1>8, <2>3, <3>1
    <3> QED
      BY <1>3, <1>4, <3>1, <3>2
  <2> QED
    BY <1>1, <1>2, <1>4, <2>1, <2>2, <2>3
<1>10. \A i \in DOMAIN l : (a \o b)[i].path = l[i].path
  BY <1>1, <1>2, <1>4, <1>6, <1>8
<1>11. Refreshed(l, found) = a \o b
  BY DEF Refreshed, a, b
<1>12. Len(l) \in 0..Len(a \o b) /\ (found = <<>> => Len(a \o b) = Len(l))
  BY <1>1, <1>2, <1>4, <1>8
<1> QED
  BY <1>8, <1>9, <1>10, <1>11, <1>12

(* ---------------------------- The list and the store ---------------------------- *)

\* Keys from which load() gets a list without repetition and an index into it.
StoreSound(s) ==
  /\ s \in [paths : Seq(Config), active : Nat] /\ s.active <= Len(s.paths)
  /\ \A i, j \in DOMAIN s.paths : s.paths[i] = s.paths[j] => i = j

ListInv ==
  /\ configs \in Seq(ListEntry) /\ Single(configs) /\ active \in 0..Len(configs)
  /\ StoreSound(store) /\ StoreSound(disk) /\ StoreCurrent /\ up \in BOOLEAN

FileInv == file \in [Config -> 0..MaxEdits] /\ edits \in 0..MaxEdits

\* The watcher watches a path, not nothing.
WatchInv ==
  /\ wpath \in Config \cup {NoConfig} /\ (watching => wpath \in Config)
  /\ watching \in BOOLEAN /\ watched \in BOOLEAN /\ existed \in BOOLEAN /\ auto \in BOOLEAN /\ timer \in BOOLEAN
  /\ pending \in SUBSET {"file", "dir"}
  /\ loaded \in (Config \cup {NoConfig}) \X (0..MaxEdits)

MgrInv == ListInv /\ FileInv /\ WatchInv

LEMMA SavedSound ==
  ASSUME NEW l \in Seq(ListEntry), Single(l), NEW a \in 0..Len(l)
  PROVE  StoreSound(Saved(l, a))
<1>1. PathsOf(l) \in Seq(Config) /\ Len(PathsOf(l)) = Len(l) /\ \A i \in DOMAIN l : PathsOf(l)[i] = l[i].path
  BY PathsType
<1>2. DOMAIN PathsOf(l) = DOMAIN l /\ a \in Nat
  BY ListDomain DEF PathsOf
<1>3. Saved(l, a).paths = PathsOf(l) /\ Saved(l, a).active = a /\ a <= Len(l)
  BY ListDomain DEF Saved
<1>4. Saved(l, a) \in [paths : Seq(Config), active : Nat]
  BY <1>1, <1>2 DEF Saved
<1> QED
  BY <1>1, <1>2, <1>3, <1>4 DEF StoreSound, Single

\* What every method does that changes the list: the keys follow.
LEMMA PutKeeps ==
  ASSUME ListInv, NEW l \in Seq(ListEntry), Single(l), NEW a \in 0..Len(l), Put(l, a), UNCHANGED <<disk, up>>
  PROVE  ListInv'
<1>1. configs' = l /\ active' = a /\ store' = Saved(l, a)
  BY DEF Put
<1>2. StoreSound(store')
  BY <1>1, SavedSound
<1>3. Single(configs') /\ configs' \in Seq(ListEntry) /\ active' \in 0..Len(configs') /\ store' = Saved(configs', active')
  BY <1>1
<1> QED
  BY <1>2, <1>3 DEF ListInv, StoreSound, Single, StoreCurrent, Saved, PathsOf

LEMMA ListRests ==
  ASSUME ListInv, UNCHANGED <<configs, active, store, disk, up>>
  PROVE  ListInv'
BY DEF ListInv, StoreSound, Single, StoreCurrent, Saved, PathsOf

LEMMA WatchRests ==
  ASSUME WatchInv, UNCHANGED <<watcherVars, auto, pending, loaded>>
  PROVE  WatchInv'
BY DEF WatchInv, watcherVars

LEMMA FileRests ==
  ASSUME FileInv, UNCHANGED <<file, edits>>
  PROVE  FileInv'
BY DEF FileInv

\* load(): what the store says.
LEMMA LoadedIs ==
  ASSUME StoreSound(store), FileInv
  PROVE  /\ Loaded(store).list \in Seq(ListEntry) /\ Single(Loaded(store).list)
         /\ Len(Loaded(store).list) = Len(store.paths) /\ Loaded(store).active = store.active
         /\ \A i \in 1..Len(store.paths) : Loaded(store).list[i].path = store.paths[i]
<1> DEFINE l == [i \in DOMAIN store.paths |-> Entry(store.paths[i])]
<1>1. /\ store.paths \in Seq(Config) /\ store.active \in Nat /\ store.active <= Len(store.paths)
      /\ \A i, j \in DOMAIN store.paths : store.paths[i] = store.paths[j] => i = j
  BY DEF StoreSound
<1>2. DOMAIN store.paths = 1..Len(store.paths) /\ Len(store.paths) \in Nat /\ \A i \in DOMAIN store.paths : store.paths[i] \in Config
  BY <1>1
<1>3. \A p \in Config : Entry(p) \in ListEntry /\ Entry(p).path = p
  BY DEF Entry, ListEntry, Exists
<1>4. l \in Seq(ListEntry) /\ Len(l) = Len(store.paths) /\ \A i \in 1..Len(store.paths) : l[i].path = store.paths[i]
  BY <1>2, <1>3
<1>5. DOMAIN l = DOMAIN store.paths
  OBVIOUS
<1> HIDE DEF l
<1>6. Single(l)
  BY <1>1, <1>2, <1>4, <1>5 DEF Single
<1>7. Loaded(store) = [list |-> l, active |-> IF store.active > Len(l) THEN 0 ELSE store.active]
  BY DEF Loaded, l
<1>8. ~(store.active > Len(l))
  BY <1>1, <1>2, <1>4
<1> QED
  BY <1>4, <1>6, <1>7, <1>8

LEMMA PathAtIs ==
  ASSUME NEW l \in Seq(ListEntry), NEW a \in 0..Len(l)
  PROVE  /\ PathAt(l, a) \in Config \cup {NoConfig} /\ (a = 0 => PathAt(l, a) = NoConfig)
         /\ (a # 0 => a \in DOMAIN l /\ PathAt(l, a) = l[a].path)
BY ListDomain DEF PathAt

LEMMA InitializeKeeps ==
  ASSUME MgrInv, Initialize
  PROVE  MgrInv'
<1>0. ListInv /\ FileInv /\ WatchInv /\ StoreSound(store) /\ file \in [Config -> Nat]
  BY DEF MgrInv, ListInv, FileInv
<1> DEFINE l0 == Loaded(store).list
           a == Loaded(store).active
<1>1. PICK found \in SetToSeqs(Unlisted(l0)) :
        LET l == Refreshed(l0, found) IN
        /\ configs' = l /\ active' = a
        /\ store' = IF found = <<>> THEN store ELSE Saved(l, a)
        /\ IF PathAt(l, a) # NoConfig THEN WatchFrom(PathAt(l, a))
           ELSE UNCHANGED <<watcherVars, pending>>
  BY DEF Initialize
<1>2. up' = TRUE /\ UNCHANGED <<file, edits, disk, auto, loaded>>
  BY DEF Initialize
<1>3. /\ l0 \in Seq(ListEntry) /\ Single(l0) /\ Len(l0) = Len(store.paths) /\ a = store.active
      /\ \A i \in 1..Len(store.paths) : l0[i].path = store.paths[i]
  BY <1>0, LoadedIs
<1>4. store.paths \in Seq(Config) /\ store.active \in 0..Len(store.paths) /\ store \in [paths : Seq(Config), active : Nat]
  BY <1>0 DEF StoreSound
<1> HIDE DEF l0, a
<1> DEFINE l == Refreshed(l0, found)
<1>5. /\ l \in Seq(ListEntry) /\ Single(l) /\ Len(l0) \in 0..Len(l) /\ (found = <<>> => Len(l) = Len(l0))
      /\ \A i \in DOMAIN l0 : l[i].path = l0[i].path
  BY <1>0, <1>3, RefreshKeeps
<1>6. configs' = l /\ active' = a /\ store' = IF found = <<>> THEN store ELSE Saved(l, a)
  BY <1>1
<1>7. /\ PathAt(l, a) # NoConfig => WatchFrom(PathAt(l, a))
      /\ PathAt(l, a) = NoConfig => UNCHANGED <<watcherVars, pending>>
  BY <1>1
<1> HIDE DEF l
<1>8. a \in 0..Len(l)
  BY <1>3, <1>4, <1>5
<1>9. found = <<>> => Saved(l, a) = store
  <2> SUFFICES ASSUME found = <<>> PROVE Saved(l, a) = store
    OBVIOUS
  <2>1. PathsOf(l) \in Seq(Config) /\ Len(PathsOf(l)) = Len(l) /\ \A i \in DOMAIN l : PathsOf(l)[i] = l[i].path
    BY <1>5, PathsType
  <2>2. Len(l) = Len(store.paths) /\ DOMAIN l0 = 1..Len(l0) /\ DOMAIN l = 1..Len(l)
    BY <1>3, <1>5, ListDomain
  <2>3. \A i \in 1..Len(PathsOf(l)) : PathsOf(l)[i] = store.paths[i]
    BY <1>3, <1>5, <2>1, <2>2
  <2>4. PathsOf(l) = store.paths
    BY <1>4, <2>1, <2>2, <2>3, SeqEqual
  <2> QED
    BY <1>3, <1>4, <2>4 DEF Saved
<1>10. store' = Saved(l, a) /\ StoreSound(Saved(l, a))
  BY <1>5, <1>6, <1>8, <1>9, SavedSound
<1>11. ListInv'
  <2>1. StoreSound(disk)'
    BY <1>0, <1>2 DEF ListInv, StoreSound
  <2>2. configs' \in Seq(ListEntry) /\ Single(configs)' /\ active' \in 0..Len(configs')
    BY <1>5, <1>6, <1>8 DEF Single
  <2>3. StoreCurrent' /\ StoreSound(store)'
    BY <1>6, <1>10 DEF StoreCurrent, StoreSound, Saved, PathsOf
  <2> QED
    BY <1>2, <2>1, <2>2, <2>3 DEF ListInv
<1>12. WatchInv'
  <2>1. CASE PathAt(l, a) = NoConfig
    BY <1>0, <1>2, <1>7, <2>1, WatchRests
  <2>2. CASE PathAt(l, a) # NoConfig
    <3>1. PathAt(l, a) \in Config
      BY <1>5, <1>8, <2>2, PathAtIs
    <3> QED
      BY <1>0, <1>2, <1>7, <2>2, <3>1 DEF WatchFrom, WatchInv, Exists
  <2> QED
    BY <2>1, <2>2
<1> QED
  BY <1>0, <1>2, <1>11, <1>12, FileRests DEF MgrInv

LEMMA RefreshListKeeps ==
  ASSUME MgrInv, RefreshList
  PROVE  MgrInv' /\ PathAt(configs', active') = ActivePath
<1>0. ListInv /\ FileInv /\ WatchInv /\ file \in [Config -> Nat] /\ up /\ store = Saved(configs, active)
      /\ configs \in Seq(ListEntry) /\ Single(configs) /\ active \in 0..Len(configs)
  BY DEF MgrInv, ListInv, FileInv, StoreCurrent, RefreshList
<1>1. PICK found \in SetToSeqs(Unlisted(configs)) :
        configs' = Refreshed(configs, found) /\ store' = IF found = <<>> THEN store ELSE Saved(configs', active)
  BY DEF RefreshList
<1>2. UNCHANGED <<file, edits, up, active, disk, watcherVars, auto, pending, loaded>>
  BY DEF RefreshList
<1> DEFINE l == Refreshed(configs, found)
<1>3. /\ l \in Seq(ListEntry) /\ Single(l) /\ Len(configs) \in 0..Len(l) /\ (found = <<>> => Len(l) = Len(configs))
      /\ \A i \in DOMAIN configs : l[i].path = configs[i].path
  BY <1>0, RefreshKeeps
<1>4. configs' = l
  BY <1>1
<1> HIDE DEF l
<1>5. active \in 0..Len(l)
  BY <1>0, <1>3
<1>6. found = <<>> => Saved(l, active) = Saved(configs, active)
  <2> SUFFICES ASSUME found = <<>> PROVE PathsOf(l) = PathsOf(configs)
    BY DEF Saved
  <2>1. DOMAIN l = DOMAIN configs
    BY <1>0, <1>3, ListDomain
  <2> QED
    BY <1>3, <2>1 DEF PathsOf
<1>7. store' = Saved(l, active)
  BY <1>0, <1>1, <1>4, <1>6
<1>8. ListInv'
  BY <1>0, <1>2, <1>3, <1>4, <1>5, <1>7, PutKeeps DEF Put
<1>9. PathAt(l, active) = PathAt(configs, active)
  BY <1>0, <1>3, <1>5, PathAtIs
<1> QED
  BY <1>0, <1>2, <1>4, <1>8, <1>9, FileRests, WatchRests DEF MgrInv, ActivePath

LEMMA RemoveConfigKeeps ==
  ASSUME MgrInv, NEW p \in Config, RemoveConfig(p)
  PROVE  MgrInv' /\ PathAt(configs', active') \in {ActivePath, NoConfig}
<1>0. ListInv /\ FileInv /\ WatchInv
      /\ configs \in Seq(ListEntry) /\ Single(configs) /\ active \in 0..Len(configs)
  BY DEF MgrInv, ListInv
<1> DEFINE i == Find(configs, p)
           a == IF active = i THEN 0 ELSE IF active > i THEN active - 1 ELSE active
           l == RemoveAt(configs, i)
<1>1. i \in DOMAIN configs
  BY <1>0, FindIs DEF RemoveConfig
<1>2. Put(l, a) /\ UNCHANGED <<file, edits, up, disk, watcherVars, auto, pending, loaded>>
  BY DEF RemoveConfig
<1> HIDE DEF i
<1>3. i \in 1..Len(configs) /\ Len(configs) \in Nat /\ DOMAIN configs = 1..Len(configs)
  BY <1>0, <1>1, ListDomain
<1>4. /\ l \in Seq(ListEntry) /\ Single(l) /\ Len(l) = Len(configs) - 1
      /\ \A j \in 1..Len(configs) - 1 : l[j] = IF j < i THEN configs[j] ELSE configs[j + 1]
  BY <1>0, <1>1, RemoveKeeps
<1> HIDE DEF l
<1>5. a \in 0..Len(l)
  BY <1>0, <1>3, <1>4
<1>6. ListInv'
  BY <1>0, <1>2, <1>4, <1>5, PutKeeps
<1>7. PathAt(l, a) \in {PathAt(configs, active), NoConfig}
  <2>1. CASE a = 0
    BY <1>4, <1>5, <2>1, PathAtIs
  <2>2. CASE a # 0
    <3>1. a \in 1..Len(configs) - 1 /\ active # 0
      BY <1>0, <1>3, <1>4, <1>5, <2>2
    <3>2. l[a] = configs[active]
      BY <1>0, <1>3, <1>4, <2>2, <3>1
    <3>3. PathAt(l, a) = l[a].path /\ PathAt(configs, active) = configs[active].path
      BY <1>0, <1>4, <1>5, <2>2, <3>1, PathAtIs
    <3> QED
      BY <3>2, <3>3
  <2> QED
    BY <2>1, <2>2
<1>8. configs' = l /\ active' = a
  BY <1>2 DEF Put
<1> QED
  BY <1>0, <1>2, <1>6, <1>7, <1>8, FileRests, WatchRests DEF MgrInv, ActivePath

\* A new active configuration is loaded, by index, by path or as the next one.
LEMMA ActivateKeeps ==
  ASSUME MgrInv, NEW i \in DOMAIN configs, Put(configs, i), UNCHANGED <<disk, up>>
  PROVE  /\ ListInv' /\ PathAt(configs', active') = configs[i].path /\ configs[i].path \in Config
         /\ <<configs[i].path, file[configs[i].path]>> \in (Config \cup {NoConfig}) \X (0..MaxEdits)
<1>1. ListInv /\ FileInv /\ configs \in Seq(ListEntry) /\ Single(configs)
  BY DEF MgrInv, ListInv
<1>2. i \in 1..Len(configs) /\ Len(configs) \in Nat /\ configs[i].path \in Config
  BY <1>1, ListDomain
<1>3. ListInv'
  BY <1>1, <1>2, PutKeeps
<1>4. configs' = configs /\ active' = i
  BY DEF Put
<1>5. file[configs[i].path] \in 0..MaxEdits
  BY <1>1, <1>2 DEF FileInv
<1> QED
  BY <1>2, <1>3, <1>4, <1>5 DEF PathAt

LEMMA SetActiveConfigKeeps ==
  ASSUME MgrInv, NEW i \in DOMAIN configs, SetActiveConfig(i)
  PROVE  MgrInv' /\ PathAt(configs', active') = loaded'[1]
<1>1. /\ Put(configs, i) /\ SetConfigPath(configs[i].path) /\ loaded' = <<configs[i].path, file[configs[i].path]>>
      /\ UNCHANGED <<file, edits, up, disk, auto>>
  BY DEF SetActiveConfig
<1>2. FileInv /\ WatchInv
  BY DEF MgrInv
<1>3. /\ ListInv' /\ PathAt(configs', active') = configs[i].path /\ configs[i].path \in Config
      /\ <<configs[i].path, file[configs[i].path]>> \in (Config \cup {NoConfig}) \X (0..MaxEdits)
  BY <1>1, ActivateKeeps
<1>4. WatchInv'
  BY <1>1, <1>2, <1>3 DEF WatchInv, SetConfigPath, WatchFrom, Exists
<1> QED
  BY <1>1, <1>2, <1>3, <1>4, FileRests DEF MgrInv

LEMMA NextIndexIs ==
  ASSUME MgrInv, configs # <<>>
  PROVE  NextIndex \in DOMAIN configs \cup {0}
<1>1. configs \in Seq(ListEntry) /\ active \in 0..Len(configs) /\ DOMAIN configs = 1..Len(configs) /\ Len(configs) \in Nat \ {0}
  BY DEF MgrInv, ListInv
<1>2. \A k \in 1..Len(configs) : Following(k) \in 1..Len(configs)
  BY <1>1 DEF Following
<1>3. CASE \E k \in 1..Len(configs) : configs[Following(k)].exists
  <2> DEFINE there == {k \in 1..Len(configs) : configs[Following(k)].exists}
  <2>1. there \in SUBSET Nat /\ there # {}
    BY <1>1, <1>3
  <2>2. PICK k \in there : \A j \in there : k <= j
    BY <2>1, LeastElement
  <2>3. k \in 1..Len(configs) /\ configs[Following(k)].exists /\ \A j \in 1..(k - 1) : ~configs[Following(j)].exists
    BY <1>1, <2>2
  <2>4. (CHOOSE n \in 1..Len(configs) :
           configs[Following(n)].exists /\ \A j \in 1..(n - 1) : ~configs[Following(j)].exists) \in 1..Len(configs)
    BY <2>3
  <2> QED
    BY <1>1, <1>2, <1>3, <2>4 DEF NextIndex
<1>4. CASE ~\E k \in 1..Len(configs) : configs[Following(k)].exists
  BY <1>4 DEF NextIndex
<1> QED
  BY <1>3, <1>4

LEMMA SetNextConfigKeeps ==
  ASSUME MgrInv, SetNextConfig
  PROVE  MgrInv' /\ PathAt(configs', active') = loaded'[1]
<1> DEFINE next == IF Len(configs) = 1 THEN 1 ELSE NextIndex
<1>1. /\ next # 0 /\ Put(configs, next) /\ loaded' = <<configs[next].path, file[configs[next].path]>>
      /\ configs # <<>> /\ UNCHANGED <<file, edits, up, disk, watcherVars, auto, pending>>
  BY DEF SetNextConfig
<1>2. FileInv /\ WatchInv /\ configs \in Seq(ListEntry)
  BY DEF MgrInv, ListInv
<1>3. next \in DOMAIN configs
  BY <1>1, <1>2, NextIndexIs
<1> HIDE DEF next
<1>4. /\ ListInv' /\ PathAt(configs', active') = configs[next].path
      /\ <<configs[next].path, file[configs[next].path]>> \in (Config \cup {NoConfig}) \X (0..MaxEdits)
  BY <1>1, <1>3, ActivateKeeps
<1>5. WatchInv'
  BY <1>1, <1>2, <1>4 DEF WatchInv, watcherVars
<1> QED
  BY <1>1, <1>2, <1>4, <1>5, FileRests DEF MgrInv

\* addConfig and createFromTemplate.
LEMMA AppendEntryKeeps ==
  ASSUME MgrInv, NEW p \in Config, Find(configs, p) = 0, NEW b \in BOOLEAN,
         Put(Append(configs, [path |-> p, exists |-> b]), active), UNCHANGED <<disk, up>>
  PROVE  ListInv' /\ PathAt(configs', active') = ActivePath
<1> DEFINE e == [path |-> p, exists |-> b]
           l == Append(configs, e)
<1>1. ListInv /\ configs \in Seq(ListEntry) /\ Single(configs) /\ active \in 0..Len(configs) /\ Len(configs) \in Nat
  BY DEF MgrInv, ListInv
<1>2. e \in ListEntry /\ e.path = p /\ \A i \in DOMAIN configs : configs[i].path # p
  BY <1>1, FindIs DEF ListEntry
<1> HIDE DEF e
<1>3. l \in Seq(ListEntry) /\ Single(l) /\ Len(l) = Len(configs) + 1 /\ \A i \in DOMAIN configs : l[i] = configs[i]
  BY <1>1, <1>2, AppendKeeps
<1>4. Put(l, active)
  BY DEF e
<1> HIDE DEF l
<1>5. active \in 0..Len(l)
  BY <1>1, <1>3
<1>6. ListInv'
  BY <1>1, <1>3, <1>4, <1>5, PutKeeps
<1>7. PathAt(l, active) = PathAt(configs, active)
  BY <1>1, <1>3, <1>5, PathAtIs
<1> QED
  BY <1>4, <1>6, <1>7 DEF Put, ActivePath

\* A file gets new content, or goes.
LEMMA FileChanges ==
  ASSUME FileInv, NEW p \in Config, edits < MaxEdits, edits' = edits + 1,
         \E v \in {0, edits + 1} : file' = [file EXCEPT ![p] = v]
  PROVE  FileInv'
<1>1. PICK v \in {0, edits + 1} : file' = [file EXCEPT ![p] = v]
  OBVIOUS
<1>2. v \in 0..MaxEdits /\ edits' \in 0..MaxEdits
  BY ManagerAssumption DEF FileInv
<1> QED
  BY <1>1, <1>2 DEF FileInv

LEMMA ManagerStep ==
  ASSUME MgrInv, [ManagerNext]_managerVars
  PROVE  /\ MgrInv'
         /\ up /\ up' => PathAt(configs', active') \in {ActivePath, NoConfig, loaded'[1]}
<1> DEFINE Goal == MgrInv' /\ (up /\ up' => PathAt(configs', active') \in {ActivePath, NoConfig, loaded'[1]})
<1>0. ListInv /\ FileInv /\ WatchInv
  BY DEF MgrInv
<1>a. ASSUME UNCHANGED <<configs, active, store, disk, up>>, FileInv', WatchInv' PROVE Goal
  <2>1. ListInv' /\ PathAt(configs', active') = ActivePath
    BY <1>0, <1>a, ListRests DEF ActivePath, PathAt
  <2> QED
    BY <1>a, <2>1 DEF MgrInv
<1>1. CASE Initialize
  BY <1>1, InitializeKeeps DEF Initialize
<1>2. CASE RefreshList
  BY <1>2, RefreshListKeeps
<1>3. CASE SetNextConfig
  BY <1>3, SetNextConfigKeeps
<1>4. ASSUME NEW i \in DOMAIN configs, SetActiveConfig(i) PROVE Goal
  BY <1>4, SetActiveConfigKeeps
<1>5. ASSUME NEW p \in Config, AddConfig(p) PROVE Goal
  <2>1. Entry(p) = [path |-> p, exists |-> Exists(p)] /\ Exists(p) \in BOOLEAN
    BY DEF Entry, Exists
  <2>2. ListInv' /\ PathAt(configs', active') = ActivePath
    BY <1>5, <2>1, AppendEntryKeeps DEF AddConfig
  <2>3. FileInv' /\ WatchInv'
    BY <1>0, <1>5, FileRests, WatchRests DEF AddConfig
  <2> QED
    BY <2>2, <2>3 DEF MgrInv
<1>6. ASSUME NEW p \in Config, RemoveConfig(p) PROVE Goal
  BY <1>6, RemoveConfigKeeps
<1>7. ASSUME NEW p \in Config, CreateFromTemplate(p) PROVE Goal
  <2>1. FileInv'
    BY <1>0, <1>7, ManagerAssumption DEF FileInv, CreateFromTemplate
  <2>2. WatchInv'
    BY <1>0, <1>7 DEF WatchInv, watcherVars, CreateFromTemplate
  <2>3. CASE Find(configs, p) = 0
    <3>1. ListInv' /\ PathAt(configs', active') = ActivePath
      BY <1>7, <2>3, AppendEntryKeeps DEF CreateFromTemplate
    <3> QED
      BY <2>1, <2>2, <3>1 DEF MgrInv
  <2>4. CASE Find(configs, p) # 0
    BY <1>7, <1>a, <2>1, <2>2, <2>4 DEF CreateFromTemplate, listVars
  <2> QED
    BY <2>3, <2>4
<1>8. ASSUME NEW p \in Config, EditInPlace(p) \/ ReplaceOrCreate(p) \/ DeleteFile(p) PROVE Goal
  <2>1. edits < MaxEdits /\ edits' = edits + 1 /\ \E v \in {0, edits + 1} : file' = [file EXCEPT ![p] = v]
    BY <1>8 DEF EditInPlace, ReplaceOrCreate, DeleteFile
  <2>2. FileInv'
    BY <1>0, <2>1, FileChanges
  <2>3. pending' \in SUBSET {"file", "dir"}
    <3>1. PICK b \in BOOLEAN : Report(p, b)
      BY <1>8 DEF EditInPlace, ReplaceOrCreate, DeleteFile
    <3> QED
      BY <1>0, <3>1 DEF WatchInv, Report
  <2>4. watched' \in BOOLEAN
    BY <1>0, <1>8, Zenon DEF WatchInv, watcherVars, EditInPlace, ReplaceOrCreate, DeleteFile
  <2>5. UNCHANGED <<configs, active, store, disk, up, wpath, watching, existed, timer, auto, loaded>>
    BY <1>8 DEF listVars, watcherVars, EditInPlace, ReplaceOrCreate, DeleteFile
  <2>6. WatchInv'
    BY <1>0, <2>3, <2>4, <2>5 DEF WatchInv
  <2> QED
    BY <1>a, <2>2, <2>5, <2>6
<1>9. CASE OnFileChanged \/ OnDirectoryChanged
  <2>1. UNCHANGED <<file, edits, up, configs, active, store, disk, wpath, watching, auto, loaded>>
    BY <1>9 DEF listVars, OnFileChanged, OnDirectoryChanged
  <2>2. pending' \in SUBSET {"file", "dir"}
    BY <1>0, <1>9 DEF WatchInv, OnFileChanged, OnDirectoryChanged
  <2>3. watched' \in BOOLEAN /\ existed' \in BOOLEAN /\ timer' \in BOOLEAN
    <3>1. CASE OnFileChanged
      BY <1>0, <3>1, Zenon DEF WatchInv, OnFileChanged
    <3>2. CASE OnDirectoryChanged
      BY <1>0, <3>2, Zenon DEF WatchInv, OnDirectoryChanged
    <3> QED
      BY <1>9, <3>1, <3>2
  <2>4. WatchInv'
    BY <1>0, <2>1, <2>2, <2>3 DEF WatchInv
  <2>5. FileInv'
    BY <1>0, <2>1, FileRests
  <2> QED
    BY <1>a, <2>1, <2>4, <2>5
<1>10. CASE OnDebounceTimeout
  <2>1. FileInv'
    BY <1>0, <1>10, FileRests DEF OnDebounceTimeout
  <2>2. WatchInv'
    BY <1>0, <1>10 DEF FileInv, WatchInv, OnDebounceTimeout
  <2> QED
    BY <1>10, <1>a, <2>1, <2>2 DEF listVars, OnDebounceTimeout
<1>11. ASSUME NEW b \in AutoReload, SetAutoReloadEnabled(b) PROVE Goal
  <2>1. FileInv' /\ WatchInv'
    BY <1>0, <1>11, FileRests, ManagerAssumption DEF WatchInv, watcherVars, SetAutoReloadEnabled
  <2> QED
    BY <1>11, <1>a, <2>1 DEF listVars, SetAutoReloadEnabled
<1>12. CASE SyncStore
  <2>1. FileInv' /\ WatchInv'
    BY <1>0, <1>12, FileRests, WatchRests DEF SyncStore
  <2>2. ListInv' /\ PathAt(configs', active') = ActivePath
    BY <1>0, <1>12 DEF SyncStore, listVars, ListInv, StoreSound, Single, StoreCurrent, Saved, PathsOf, ActivePath, PathAt
  <2> QED
    BY <2>1, <2>2 DEF MgrInv
<1>13. CASE Restart
  <2>1. FileInv'
    BY <1>0, <1>13, FileRests DEF Restart
  <2>2. WatchInv'
    <3>1. loaded' \in (Config \cup {NoConfig}) \X (0..MaxEdits)
      BY <1>13, ManagerAssumption DEF Restart
    <3>2. /\ wpath' = NoConfig /\ watching' = FALSE /\ watched' = FALSE /\ existed' = FALSE
          /\ auto' = TRUE /\ timer' = FALSE /\ pending' = {}
      BY <1>13 DEF Restart
    <3> QED
      BY <3>1, <3>2 DEF WatchInv
  <2>3. configs' \in Seq(ListEntry) /\ active' \in 0..Len(configs') /\ Single(configs)'
    BY <1>13 DEF Restart, Single
  <2>4. ListInv'
    BY <1>0, <1>13, <2>3 DEF Restart, ListInv, StoreSound, StoreCurrent
  <2> QED
    BY <1>13, <2>1, <2>2, <2>4 DEF MgrInv, Restart
<1>14. CASE UNCHANGED managerVars
  <2>1. FileInv' /\ WatchInv'
    BY <1>0, <1>14, FileRests, WatchRests DEF managerVars
  <2> QED
    BY <1>14, <1>a, <2>1 DEF managerVars, listVars
<1> QED
  BY <1>1, <1>2, <1>3, <1>4, <1>5, <1>6, <1>7, <1>8, <1>9, <1>10, <1>11, <1>12, <1>13, <1>14 DEF ManagerNext, Watch

\* initialize() notes the number of changes.
Noted == since \in 0..MaxEdits

LEMMA NotedStep ==
  ASSUME MgrInv, Noted, [ManagerNext]_managerVars
  PROVE  Noted'
<1>1. since' = since \/ since' = edits
  BY DEF ManagerNext, managerVars, Watch, Initialize, RefreshList, SetNextConfig, SyncStore, Restart, OnFileChanged,
         OnDirectoryChanged, OnDebounceTimeout, SetActiveConfig, SetAutoReloadEnabled, AddConfig, RemoveConfig,
         CreateFromTemplate, EditInPlace, ReplaceOrCreate, DeleteFile
<1> QED
  BY <1>1 DEF Noted, MgrInv, FileInv

LEMMA ManagerKept == ManagerSpec => [](MgrInv /\ Noted)
<1>1. ManagerInit => MgrInv
  <2>1. ManagerInit => FileInv
    BY ManagerAssumption DEF ManagerInit, FileInv
  <2>2. ManagerInit => WatchInv
    <3>1. <<NoConfig, 0>> \in (Config \cup {NoConfig}) \X (0..MaxEdits)
      BY ManagerAssumption
    <3> QED
      BY <3>1 DEF ManagerInit, WatchInv
  <2>3. ManagerInit => ListInv
    <3>1. StoreSound([paths |-> <<>>, active |-> 0])
      BY DEF StoreSound
    <3>2. <<>> \in Seq(ListEntry) /\ Single(<<>>) /\ 0 \in 0..Len(<<>>)
      BY DEF Single
    <3>3. ManagerInit => /\ configs = <<>> /\ active = 0 /\ store = [paths |-> <<>>, active |-> 0]
                         /\ disk = store /\ up = FALSE
      BY DEF ManagerInit
    <3> QED
      BY <3>1, <3>2, <3>3 DEF ListInv, StoreCurrent
  <2> QED
    BY <2>1, <2>2, <2>3 DEF MgrInv
<1>2. ManagerInit => Noted
  BY ManagerAssumption DEF ManagerInit, Noted
<1>3. MgrInv /\ Noted /\ [ManagerNext]_managerVars => MgrInv' /\ Noted'
  BY ManagerStep, NotedStep
<1> QED
  BY <1>1, <1>2, <1>3, PTL DEF ManagerSpec

\* List, active index and keys stay consistent through every operation of ConfigManager,
\* every change of the files and every restart, for any number of configurations and edits.
THEOREM ManagerIsSound == ManagerSpec => []ManagerSound
<1>1. MgrInv /\ Noted => ManagerSound
  <2> SUFFICES ASSUME MgrInv, Noted PROVE ManagerSound
    OBVIOUS
  <2>1. ListSound /\ StoreCurrent /\ active \in Nat
    BY DEF MgrInv, ListInv, ListSound, Single
  <2>2. {store, disk} \subseteq [paths : Seq(Config), active : Nat]
    BY DEF MgrInv, ListInv, StoreSound
  <2>3. {watching, watched, existed, auto, timer} \subseteq BOOLEAN
    BY DEF MgrInv, WatchInv
  <2>4. ManagerTypeOK
    BY <2>1, <2>2, <2>3 DEF MgrInv, ListInv, FileInv, WatchInv, Noted, ManagerTypeOK, ListEntry
  <2> QED
    BY <2>1, <2>4 DEF ManagerSound
<1> QED
  BY <1>1, ManagerKept, PTL

\* The active configuration never changes behind the program's back: removing, adding
\* and refreshing entries keep it, or leave none, and every other change loads it.
THEOREM NothingSwitchesSilently == ManagerSpec => NoSilentSwitch
<1>1. MgrInv /\ [ManagerNext]_managerVars =>
        [up /\ up' /\ PathAt(configs', active') # PathAt(configs, active) =>
           PathAt(configs', active') \in {NoConfig, loaded'[1]}]_managerVars
  BY ManagerStep DEF ActivePath
<1> QED
  BY <1>1, ManagerKept, PTL DEF ManagerSpec, NoSilentSwitch

(* ---------------------------------- Backups -------------------------------- *)

BackupFile == [stem : Stem, time : Nat, seq : Nat, content : Nat]

\* Backups are known by the order in which they were written, and by name and time.
BackupsKnown(bs) ==
  /\ bs \in SUBSET BackupFile /\ IsFiniteSet(bs)
  /\ \A b, c \in bs : b.seq = c.seq => b = c
  /\ \A b, c \in bs : b.stem = c.stem /\ b.time = c.time => b = c

\* None is newer than the clock and the count of writes.
BackupsPast(bs, t, n) == \A b \in bs : b.time <= t /\ b.seq <= n

BackupInv ==
  /\ content \in [Stem -> Nat] /\ now \in Nat /\ writes \in Nat
  /\ BackupsKnown(backups) /\ BackupsPast(backups, now, writes)

NewBackup(s, t) == [stem |-> s, time |-> t, seq |-> writes + 1, content |-> content[s]]

\* No copy falls on another one.
LEMMA CopiedIs ==
  ASSUME BackupInv, NEW s \in Stem
  PROVE  LET bs == Copied(backups, s, now + 1)
         IN /\ bs = backups \cup {NewBackup(s, now + 1)} /\ NewBackup(s, now + 1) \in BackupFile
            /\ BackupsKnown(bs) /\ BackupsPast(bs, now + 1, writes + 1)
<1> DEFINE x == NewBackup(s, now + 1)
           bs == Copied(backups, s, now + 1)
<1>1. /\ backups \in SUBSET BackupFile /\ IsFiniteSet(backups) /\ now \in Nat /\ writes \in Nat
      /\ content \in [Stem -> Nat]
  BY DEF BackupInv, BackupsKnown
<1>2. /\ x \in BackupFile /\ x.stem = s /\ x.time = now + 1 /\ x.seq = writes + 1 /\ x.content = content[s]
  BY <1>1 DEF NewBackup, BackupFile
<1>3. ASSUME NEW b \in backups PROVE b.time # now + 1 /\ b.seq # writes + 1 /\ b.time <= now + 1 /\ b.seq <= writes + 1
  <2>1. b.time \in Nat /\ b.seq \in Nat /\ b.time <= now /\ b.seq <= writes
    BY <1>1 DEF BackupInv, BackupsPast, BackupFile
  <2> QED
    BY <1>1, <2>1
<1>4. bs = {b \in backups : ~(b.stem = s /\ b.time = now + 1)} \cup {x}
  BY DEF Copied, NewBackup
<1> HIDE DEF x, bs
<1>5. bs = backups \cup {x}
  BY <1>3, <1>4
<1>6. IsFiniteSet(bs)
  BY <1>1, <1>5, FS_AddElement
<1>7. BackupsKnown(bs)
  <2>1. bs \in SUBSET BackupFile
    BY <1>1, <1>2, <1>5
  <2>2. ASSUME NEW b \in bs, NEW c \in bs, b.seq = c.seq PROVE b = c
    BY <1>2, <1>3, <1>5, <2>2 DEF BackupInv, BackupsKnown
  <2>3. ASSUME NEW b \in bs, NEW c \in bs, b.stem = c.stem, b.time = c.time PROVE b = c
    BY <1>2, <1>3, <1>5, <2>3 DEF BackupInv, BackupsKnown
  <2> QED
    BY <1>6, <2>1, <2>2, <2>3 DEF BackupsKnown
<1>8. BackupsPast(bs, now + 1, writes + 1)
  <2>1. x.time <= now + 1 /\ x.seq <= writes + 1
    BY <1>1, <1>2
  <2> QED
    BY <1>3, <1>5, <2>1 DEF BackupsPast
<1> QED
  BY <1>2, <1>5, <1>7, <1>8 DEF x, bs

\* The limit: the newest stays, none of another file goes, and not more than the limit
\* are left of this one.
LEMMA LimitedIs ==
  ASSUME SuffixOf = {}, NEW bs, BackupsKnown(bs), NEW s
  PROVE  /\ Limited(bs, s) \subseteq bs /\ \A b \in bs \ Limited(bs, s) : b.stem = s
         /\ \A b \in bs : (\A c \in bs : ~(c.seq > b.seq)) => b \in Limited(bs, s)
         /\ Cardinality({b \in Limited(bs, s) : b.stem = s}) <= MaxBackups
<1> DEFINE M == {b \in bs : b.stem = s}
           newer(b) == {c \in M : c.seq > b.seq}
           L == Limited(bs, s)
           K == {b \in L : b.stem = s}
<1>0. MaxBackups \in Nat \ {0}
  BY BackupAssumption
<1>1. Matches(bs, s) = M
  BY DEF Matches
<1>2. L = bs \ {b \in M : Cardinality(newer(b)) >= MaxBackups}
  BY <1>1 DEF Limited
<1>3. bs \in SUBSET BackupFile /\ IsFiniteSet(bs) /\ \A b, c \in bs : b.seq = c.seq => b = c
  BY DEF BackupsKnown
<1>4. IsFiniteSet(M) /\ \A b \in M : IsFiniteSet(newer(b)) /\ Cardinality(newer(b)) \in Nat
  BY <1>3, FS_Subset, FS_CardinalityType
<1> HIDE DEF L
<1>5. ASSUME NEW b \in bs, \A c \in bs : ~(c.seq > b.seq) PROVE b \in L
  <2>1. newer(b) = {}
    BY <1>5
  <2>2. Cardinality(newer(b)) = 0
    BY <2>1, FS_EmptySet
  <2> QED
    BY <1>0, <1>2, <2>2
<1>6. Cardinality(K) <= MaxBackups
  <2>1. K = {b \in M : ~(Cardinality(newer(b)) >= MaxBackups)}
    BY <1>2
  <2>2. K \subseteq M /\ IsFiniteSet(K) /\ Cardinality(K) \in Nat
    BY <1>4, <2>1, FS_Subset, FS_CardinalityType
  <2>3. SUFFICES ASSUME Cardinality(K) > MaxBackups PROVE FALSE
    BY <1>0, <2>2
  <2>4. K # {}
    BY <1>0, <2>2, <2>3, FS_EmptySet
  <2>5. {b.seq : b \in K} \in SUBSET Nat /\ {b.seq : b \in K} # {}
    <3>1. \A b \in K : b.seq \in Nat
      BY <1>3, <2>2 DEF BackupFile
    <3> QED
      BY <2>4, <3>1
  <2>6. PICK n \in {b.seq : b \in K} : \A m \in {b.seq : b \in K} : n <= m
    BY <2>5, LeastElement
  <2>7. PICK b \in K : b.seq = n
    OBVIOUS
  <2>8. b \in M /\ K \ {b} \subseteq newer(b)
    <3>1. ASSUME NEW c \in K, c # b PROVE c.seq > b.seq
      <4>1. c \in bs /\ b \in bs /\ b.seq <= c.seq /\ b.seq # c.seq
        BY <1>3, <2>2, <2>6, <2>7, <3>1
      <4>2. b.seq \in Nat /\ c.seq \in Nat
        BY <1>3, <4>1 DEF BackupFile
      <4> QED
        BY <4>1, <4>2
    <3> QED
      BY <2>2, <3>1
  <2> HIDE DEF K
  <2>9. Cardinality(K \ {b}) = Cardinality(K) - 1 /\ IsFiniteSet(K \ {b})
    BY <2>2, <2>7, FS_RemoveElement
  <2>10. Cardinality(K \ {b}) <= Cardinality(newer(b)) /\ Cardinality(newer(b)) \in Nat
    BY <1>4, <2>8, FS_Subset
  <2>11. Cardinality(newer(b)) >= MaxBackups
    BY <1>0, <2>2, <2>3, <2>9, <2>10
  <2> QED
    BY <2>1, <2>7, <2>11
<1> QED
  BY <1>2, <1>5, <1>6 DEF L

LEMMA KnownSubset ==
  ASSUME NEW bs, BackupsKnown(bs), NEW cs \in SUBSET bs
  PROVE  BackupsKnown(cs) /\ \A t, n : BackupsPast(bs, t, n) => BackupsPast(cs, t, n)
BY FS_Subset DEF BackupsKnown, BackupsPast

\* What an operation that has gone well leaves.
BackupDone == RestoreExact /\ WithinLimit

\* What each operation may do.
BackupStep ==
  /\ \A s \in Stem : last'.op = "restore" /\ last'.stem = s /\ content[s] # 0 /\ content'[s] # content[s] =>
       \E b \in backups' : b.stem = s /\ b.content = content[s]
  /\ \A b \in backups \ backups' : last'.op # "none" => b.stem = last'.stem

LEMMA CreateKeeps ==
  ASSUME SuffixOf = {}, ~SameInstant, BackupInv, NEW s \in Stem, NEW ok \in BOOLEAN, CreateBackup(s, ok)
  PROVE  BackupInv' /\ BackupDone' /\ BackupStep
<1> DEFINE x == NewBackup(s, now + 1)
           bs == Copied(backups, s, now + 1)
<1>0. content \in [Stem -> Nat] /\ now \in Nat /\ writes \in Nat
  BY DEF BackupInv
<1>1. now' = now + 1 /\ UNCHANGED content
  BY DEF CreateBackup, Tick
<1>2. last' = [op |-> "create", stem |-> s, wanted |-> content[s], ok |-> ok]
  BY DEF CreateBackup
<1>3. last'.op = "create" /\ last'.stem = s /\ last'.wanted = content[s] /\ last'.ok = ok
  BY <1>2
<1>4. CASE ok
  <2>1. backups' = Limited(bs, s) /\ writes' = writes + 1
    BY <1>1, <1>4 DEF CreateBackup
  <2>2. /\ bs = backups \cup {x} /\ x \in BackupFile /\ BackupsKnown(bs) /\ BackupsPast(bs, now + 1, writes + 1)
    BY CopiedIs
  <2>3. x.stem = s /\ x.content = content[s] /\ x.seq = writes + 1
    BY DEF NewBackup
  <2> HIDE DEF x, bs
  <2>4. /\ backups' \subseteq bs /\ \A b \in bs \ backups' : b.stem = s
        /\ Cardinality({b \in backups' : b.stem = s}) <= MaxBackups
    <3>1. /\ Limited(bs, s) \subseteq bs /\ \A b \in bs \ Limited(bs, s) : b.stem = s
          /\ Cardinality({b \in Limited(bs, s) : b.stem = s}) <= MaxBackups
      <4>1. BackupsKnown(bs)
        BY <2>2
      <4> QED
        BY <4>1, LimitedIs
    <3> QED
      BY <2>1, <3>1
  <2>5. x \in backups'
    <3>1. \A c \in bs : ~(c.seq > x.seq)
      <4>1. \A c \in bs : c.seq \in Nat /\ c.seq <= writes + 1
        BY <2>2 DEF BackupsKnown, BackupsPast, BackupFile
      <4> QED
        BY <1>0, <2>3, <4>1
    <3> QED
      BY <2>1, <2>2, <3>1, LimitedIs
  <2>6. BackupsKnown(backups') /\ BackupsPast(backups', now + 1, writes + 1)
    BY <2>2, <2>4, KnownSubset
  <2>7. now + 1 \in Nat /\ writes + 1 \in Nat
    BY <1>0
  <2>8. BackupInv'
    BY <1>0, <1>1, <2>1, <2>6, <2>7 DEF BackupInv
  <2>9. BackupDone'
    BY <1>3, <2>3, <2>4, <2>5 DEF BackupDone, RestoreExact, WithinLimit
  <2>10. BackupStep
    BY <1>3, <2>2, <2>4 DEF BackupStep
  <2> QED
    BY <2>8, <2>9, <2>10
<1>5. CASE ~ok
  <2>1. UNCHANGED <<backups, writes>>
    BY <1>5 DEF CreateBackup
  <2>2. BackupsPast(backups, now + 1, writes) /\ now + 1 \in Nat
    <3>1. \A b \in backups : b.time \in Nat /\ b.time <= now /\ b.seq <= writes
      BY DEF BackupInv, BackupsKnown, BackupsPast, BackupFile
    <3> QED
      BY <1>0, <3>1 DEF BackupsPast
  <2>3. BackupInv'
    BY <1>1, <2>1, <2>2 DEF BackupInv
  <2>4. BackupDone' /\ BackupStep
    BY <1>1, <1>3, <1>5, <2>1 DEF BackupDone, RestoreExact, WithinLimit, BackupStep
  <2> QED
    BY <2>3, <2>4
<1> QED
  BY <1>4, <1>5

LEMMA RestoreKeeps ==
  ASSUME SuffixOf = {}, ~SameInstant, BackupInv, NEW b \in backups, NEW ok \in BOOLEAN, RestoreBackup(b, ok)
  PROVE  BackupInv' /\ BackupDone' /\ BackupStep
<1> DEFINE s == b.stem
           x == NewBackup(s, now + 1)
           bs == IF content[s] = 0 THEN backups ELSE Copied(backups, s, now + 1)
           read == CHOOSE c \in bs : c.stem = b.stem /\ c.time = b.time
<1>0. content \in [Stem -> Nat] /\ now \in Nat /\ writes \in Nat /\ BackupsKnown(backups)
  BY DEF BackupInv
<1>1. b \in BackupFile /\ s \in Stem /\ b.content \in Nat
  BY <1>0 DEF BackupsKnown, BackupFile
<1>2. now' = now + 1 /\ writes' = writes + 1
  BY DEF RestoreBackup, Tick
<1>3. last'.op = "restore" /\ last'.stem = s /\ last'.wanted = b.content /\ last'.ok = ok
  BY DEF RestoreBackup
<1>4. /\ content' = [content EXCEPT ![s] = IF ok THEN read.content ELSE 0]
      /\ backups' = IF ok THEN Limited(bs, s) ELSE bs
  BY <1>2 DEF RestoreBackup
<1>5. /\ backups \subseteq bs /\ BackupsKnown(bs) /\ BackupsPast(bs, now + 1, writes + 1)
      /\ content[s] # 0 => x \in bs
  <2>1. CASE content[s] = 0
    <3>1. \A c \in backups : c.time \in Nat /\ c.seq \in Nat /\ c.time <= now /\ c.seq <= writes
      BY DEF BackupInv, BackupsKnown, BackupsPast, BackupFile
    <3>2. BackupsPast(backups, now + 1, writes + 1)
      BY <1>0, <3>1 DEF BackupsPast
    <3> QED
      BY <1>0, <2>1, <3>2
  <2>2. CASE content[s] # 0
    BY <1>1, <2>2, CopiedIs
  <2> QED
    BY <2>1, <2>2
<1>6. x.stem = s /\ x.content = content[s] /\ x.seq = writes + 1
  BY DEF NewBackup
<1> HIDE DEF bs, x
<1>7. read = b
  BY <1>5 DEF BackupsKnown
<1> HIDE DEF read
<1>8. content' \in [Stem -> Nat] /\ content'[s] = IF ok THEN b.content ELSE 0
  BY <1>0, <1>1, <1>4, <1>7
<1>9. /\ backups' \subseteq bs /\ \A c \in bs \ backups' : c.stem = s
      /\ ok => Cardinality({c \in backups' : c.stem = s}) <= MaxBackups
  <2>1. CASE ok
    BY <1>4, <1>5, <2>1, LimitedIs
  <2>2. CASE ~ok
    BY <1>4, <2>2
  <2> QED
    BY <2>1, <2>2
<1>10. content[s] # 0 => x \in backups'
  <2> SUFFICES ASSUME content[s] # 0 PROVE x \in backups'
    OBVIOUS
  <2>1. \A c \in bs : c.seq \in Nat /\ c.seq <= writes + 1
    BY <1>5 DEF BackupsKnown, BackupsPast, BackupFile
  <2>2. \A c \in bs : ~(c.seq > x.seq)
    BY <1>0, <1>6, <2>1
  <2>3. x \in Limited(bs, s)
    BY <1>5, <2>2, LimitedIs
  <2> QED
    BY <1>4, <1>5, <2>3
<1>11. BackupInv'
  <2>1. BackupsKnown(backups') /\ BackupsPast(backups', now + 1, writes + 1)
    BY <1>5, <1>9, KnownSubset
  <2>2. now + 1 \in Nat /\ writes + 1 \in Nat
    BY <1>0
  <2> QED
    BY <1>2, <1>8, <2>1, <2>2 DEF BackupInv
<1> HIDE DEF s
<1>12. BackupDone'
  BY <1>3, <1>8, <1>9 DEF BackupDone, RestoreExact, WithinLimit
<1>13. BackupStep
  BY <1>3, <1>5, <1>6, <1>9, <1>10 DEF BackupStep
<1> QED
  BY <1>11, <1>12, <1>13

LEMMA BackupTakesStep ==
  ASSUME SuffixOf = {}, ~SameInstant, BackupInv, BackupNext
  PROVE  BackupInv' /\ BackupDone' /\ BackupStep
<1>0. content \in [Stem -> Nat] /\ now \in Nat /\ writes \in Nat /\ BackupsKnown(backups)
  BY DEF BackupInv
<1>1. \A c \in backups : c.time \in Nat /\ c.seq \in Nat /\ c.time <= now /\ c.seq <= writes
  BY DEF BackupInv, BackupsKnown, BackupsPast, BackupFile
<1>2. ASSUME NEW s \in Stem, NEW ok \in BOOLEAN, CreateBackup(s, ok) PROVE BackupInv' /\ BackupDone' /\ BackupStep
  BY <1>2, CreateKeeps
<1>3. ASSUME NEW b \in backups, NEW ok \in BOOLEAN, RestoreBackup(b, ok) PROVE BackupInv' /\ BackupDone' /\ BackupStep
  BY <1>3, RestoreKeeps
<1>4. ASSUME last' = None PROVE BackupDone' /\ BackupStep
  BY <1>4 DEF None, BackupDone, BackupStep, RestoreExact, WithinLimit
<1>5. ASSUME NEW b \in backups, DeleteBackup(b) PROVE BackupInv' /\ BackupDone' /\ BackupStep
  <2>1. /\ now' = now + 1 /\ backups' = backups \ {b} /\ last' = None /\ UNCHANGED <<content, writes>>
    BY <1>5 DEF DeleteBackup, Tick
  <2>2. BackupsPast(backups, now + 1, writes) /\ now + 1 \in Nat
    BY <1>0, <1>1 DEF BackupsPast
  <2>3. BackupsKnown(backups') /\ BackupsPast(backups', now + 1, writes)
    BY <1>0, <2>1, <2>2, KnownSubset
  <2>4. BackupInv'
    BY <1>0, <2>1, <2>2, <2>3 DEF BackupInv
  <2> QED
    BY <1>4, <2>1, <2>4
<1>6. ASSUME NEW s \in Stem, Edit(s) PROVE BackupInv' /\ BackupDone' /\ BackupStep
  <2>1. /\ now' = now + 1 /\ content' = [content EXCEPT ![s] = writes + 1] /\ writes' = writes + 1
        /\ last' = None /\ UNCHANGED backups
    BY <1>6 DEF Edit, Tick
  <2>2. BackupsPast(backups, now + 1, writes + 1) /\ now + 1 \in Nat /\ writes + 1 \in Nat
    BY <1>0, <1>1 DEF BackupsPast
  <2>3. content' \in [Stem -> Nat]
    BY <1>0, <2>1, <2>2
  <2>4. BackupInv'
    BY <1>0, <2>1, <2>2, <2>3 DEF BackupInv
  <2> QED
    BY <1>4, <2>1, <2>4
<1> QED
  BY <1>2, <1>3, <1>5, <1>6 DEF BackupNext

\* Backups restore what they held, are there when they are reported, can be undone also
\* when a restore fails halfway, and are limited file by file, for any number of files,
\* operations and backups.  No two operations fall into one millisecond, and no file's
\* name ends another's (SameInstant and SuffixOf refute it otherwise).
THEOREM BackupsAreSafe ==
  ASSUME SuffixOf = {}, ~SameInstant
  PROVE  BackupSpec => BackupsSafe
<1>1. BackupInit => BackupInv /\ BackupDone
  <2> SUFFICES ASSUME BackupInit PROVE BackupInv /\ BackupDone
    OBVIOUS
  <2>1. content = [s \in Stem |-> 1] /\ backups = {} /\ now = 0 /\ writes = 1 /\ last = None
    BY DEF BackupInit
  <2>2. BackupInv
    BY <2>1, FS_EmptySet DEF BackupInv, BackupsKnown, BackupsPast
  <2>3. BackupDone
    BY <2>1 DEF None, BackupDone, RestoreExact, WithinLimit
  <2> QED
    BY <2>2, <2>3
<1>2. ASSUME BackupInv, BackupDone, [BackupNext]_backupVars PROVE BackupInv' /\ BackupDone' /\ [BackupStep]_backupVars
  <2>1. CASE BackupNext
    BY <1>2, <2>1, BackupTakesStep
  <2>2. CASE UNCHANGED backupVars
    BY <1>2, <2>2 DEF backupVars, BackupInv, BackupDone, RestoreExact, WithinLimit
  <2> QED
    BY <1>2, <2>1, <2>2
<1>3. BackupSpec => [](BackupInv /\ BackupDone) /\ [][BackupStep]_backupVars
  BY <1>1, <1>2, PTL DEF BackupSpec
<1>4. [][BackupStep]_backupVars => RestoreUndoable /\ PrunesOwn
  <2>1. [BackupStep]_backupVars =>
          /\ [\A s \in Stem : last'.op = "restore" /\ last'.stem = s /\ content[s] # 0 /\ content'[s] # content[s] =>
                \E b \in backups' : b.stem = s /\ b.content = content[s]]_backupVars
          /\ [\A b \in backups \ backups' : last'.op # "none" => b.stem = last'.stem]_backupVars
    BY DEF BackupStep
  <2> QED
    BY <2>1, PTL DEF RestoreUndoable, PrunesOwn
<1> QED
  BY <1>3, <1>4, PTL DEF BackupsSafe, BackupDone

(* ---------------------------------- Archives ------------------------------- *)

\* The files that are looked into next.
Onward(S) == S \cup UNION {includes[f] : f \in S \cup {MainFile}}

FileCount == Cardinality(SourceFile)

LEMMA DependenciesRest ==
  ASSUME includes' = includes
  PROVE  Dependencies' = Dependencies
BY DEF Dependencies, Reached

LEMMA FileCountIs == FileCount \in Nat /\ IsFiniteSet(SourceFile)
BY ArchiveAssumption, FS_CardinalityType DEF FileCount

\* The rounds of findDependencies, each from the one before it.
LEMMA ReachedIs ==
  ASSUME includes \in IncludeGraph
  PROVE  /\ Reached \in [0..FileCount -> SUBSET SourceFile]
         /\ Reached[0] = {}
         /\ \A n \in 1..FileCount : Reached[n] = Onward(Reached[n - 1])
<1> DEFINE A == SUBSET SourceFile
           step == [x \in A \X (1..FileCount) |-> Onward(x[1])]
<1>1. \A S \in A : Onward(S) \in A
  BY ArchiveAssumption DEF Onward
<1>2. step \in [A \X (1..FileCount) -> A] /\ {} \in A
  BY <1>1
<1>3. \A S \in A, n \in 1..FileCount : step[<<S, n>>] = Onward(S)
  OBVIOUS
<1> HIDE DEF step
<1>4. PICK f \in [0..FileCount -> A] : Recurs(f, FileCount, {}, step)
  BY <1>2, FileCountIs, RecursionExists
<1>5. ASSUME NEW n \in 0..FileCount PROVE f[n] = IF n = 0 THEN {} ELSE Onward(f[n - 1])
  <2>1. f[n] = IF n = 0 THEN {} ELSE step[<<f[n - 1], n>>]
    BY <1>4 DEF Recurs
  <2>2. n # 0 => f[n - 1] \in A /\ n \in 1..FileCount
    BY FileCountIs
  <2> QED
    BY <1>3, <2>1, <2>2
<1>6. f = [n \in 0..FileCount |-> IF n = 0 THEN {} ELSE f[n - 1] \cup UNION {includes[g] : g \in f[n - 1] \cup {MainFile}}]
  BY <1>5 DEF Onward
<1>7. Reached = [n \in 0..FileCount |-> IF n = 0 THEN {} ELSE Reached[n - 1] \cup UNION {includes[g] : g \in Reached[n - 1] \cup {MainFile}}]
  BY <1>6 DEF Reached, FileCount
<1>8. \A n \in 0..FileCount : Reached[n] = IF n = 0 THEN {} ELSE Onward(Reached[n - 1])
  BY <1>7 DEF Onward
<1>9. Reached[0] = {} /\ \A n \in 1..FileCount : Reached[n] = Onward(Reached[n - 1]) /\ n - 1 \in 0..FileCount
  BY <1>8, FileCountIs
<1>10. \A n \in 0..FileCount : Reached[n] \in A
  <2> DEFINE T == {n \in Nat : n <= FileCount => Reached[n] \in A}
  <2>1. 0 \in T
    BY <1>9
  <2>2. ASSUME NEW n \in Nat, n \in T PROVE n + 1 \in T
    <3> SUFFICES ASSUME n + 1 <= FileCount PROVE Reached[n + 1] \in A
      OBVIOUS
    <3>1. n + 1 \in 1..FileCount /\ (n + 1) - 1 = n /\ n <= FileCount
      BY FileCountIs
    <3>2. Reached[n + 1] = Onward(Reached[n]) /\ Reached[n] \in A
      BY <1>9, <2>2, <3>1
    <3> QED
      BY <1>1, <3>2
  <2> HIDE DEF T
  <2>3. \A n \in Nat : n \in T
    BY <2>1, <2>2, NumberInduction
  <2> QED
    BY <2>3, FileCountIs DEF T
<1> HIDE DEF A
<1>11. Reached \in [0..FileCount -> A]
  BY <1>7, <1>10
<1> QED
  BY <1>9, <1>11 DEF A

\* Rounds that find nothing new find nothing new later, and each of the others finds a
\* file, so that after as many rounds as there are files all are found.
LEMMA ReachedAll ==
  ASSUME includes \in IncludeGraph
  PROVE  Onward(Reached[FileCount]) = Reached[FileCount]
<1> DEFINE N == FileCount
<1>0. N \in Nat /\ IsFiniteSet(SourceFile)
  BY FileCountIs
<1>1. \A n \in 0..N : Reached[n] \in SUBSET SourceFile
  BY ReachedIs
<1>2. \A n \in Nat : n + 1 <= N => n \in 0..N /\ n + 1 \in 0..N /\ Reached[n + 1] = Onward(Reached[n])
  <2>1. ASSUME NEW n \in Nat, n + 1 <= N PROVE n \in 0..N /\ n + 1 \in 1..N /\ (n + 1) - 1 = n
    BY <1>0, <2>1
  <2> QED
    BY <2>1, ReachedIs
<1> HIDE DEF N
<1>3. SUFFICES ASSUME Onward(Reached[N]) # Reached[N] PROVE FALSE
  BY DEF N
<1>4. ASSUME NEW n \in Nat, n <= N PROVE Onward(Reached[n]) # Reached[n]
  <2> SUFFICES ASSUME Onward(Reached[n]) = Reached[n] PROVE FALSE
    OBVIOUS
  <2> DEFINE T == {k \in Nat : n + k <= N => Reached[n + k] = Reached[n]}
  <2>1. 0 \in T
    OBVIOUS
  <2>2. ASSUME NEW k \in Nat, k \in T PROVE k + 1 \in T
    <3> SUFFICES ASSUME n + (k + 1) <= N PROVE Reached[n + (k + 1)] = Reached[n]
      OBVIOUS
    <3>1. n + k \in Nat /\ (n + k) + 1 <= N /\ n + (k + 1) = (n + k) + 1 /\ n + k <= N
      BY <1>0
    <3> QED
      BY <1>2, <2>2, <3>1
  <2> HIDE DEF T
  <2>3. \A k \in Nat : k \in T
    BY <2>1, <2>2, NumberInduction
  <2>4. N - n \in Nat /\ n + (N - n) = N /\ N <= N
    BY <1>0, <1>4
  <2>5. Reached[N] = Reached[n]
    BY <2>3, <2>4 DEF T
  <2> QED
    BY <1>3, <2>5
<1>5. \A n \in Nat : n <= N => Cardinality(Reached[n]) >= n
  <2> DEFINE T == {n \in Nat : n <= N => Cardinality(Reached[n]) >= n}
  <2>1. 0 \in T
    <3>1. IsFiniteSet(Reached[0])
      BY <1>0, <1>1, FS_Subset
    <3> QED
      BY <3>1, FS_CardinalityType
  <2>2. ASSUME NEW n \in Nat, n \in T PROVE n + 1 \in T
    <3> SUFFICES ASSUME n + 1 <= N PROVE Cardinality(Reached[n + 1]) >= n + 1
      OBVIOUS
    <3>1. n <= N /\ n \in 0..N /\ n + 1 \in 0..N /\ Reached[n + 1] = Onward(Reached[n])
      BY <1>0, <1>2
    <3>2. Reached[n] \subseteq Reached[n + 1] /\ Reached[n] # Reached[n + 1]
      BY <1>4, <3>1 DEF Onward
    <3>3. IsFiniteSet(Reached[n + 1])
      BY <1>0, <1>1, <3>1, FS_Subset
    <3>4. /\ IsFiniteSet(Reached[n]) /\ Cardinality(Reached[n]) <= Cardinality(Reached[n + 1])
          /\ Cardinality(Reached[n]) # Cardinality(Reached[n + 1])
      BY <3>2, <3>3, FS_Subset
    <3>5. Cardinality(Reached[n]) \in Nat /\ Cardinality(Reached[n + 1]) \in Nat /\ Cardinality(Reached[n]) >= n
      BY <2>2, <3>1, <3>3, <3>4, FS_CardinalityType
    <3> QED
      BY <3>4, <3>5
  <2> HIDE DEF T
  <2>3. \A n \in Nat : n \in T
    BY <2>1, <2>2, NumberInduction
  <2> QED
    BY <2>3 DEF T
<1>6. Reached[N] \in SUBSET SourceFile /\ Cardinality(Reached[N]) >= N
  BY <1>0, <1>1, <1>5
<1>7. Cardinality(Reached[N]) \in Nat /\ Cardinality(Reached[N]) <= N
  BY <1>0, <1>6, FS_Subset, FS_CardinalityType DEF N, FileCount
<1>8. Cardinality(Reached[N]) = Cardinality(SourceFile)
  BY <1>0, <1>6, <1>7 DEF N, FileCount
<1>9. Reached[N] = SourceFile
  BY <1>0, <1>6, <1>8, FS_Subset
<1> QED
  BY <1>3, <1>9, ArchiveAssumption DEF Onward

\* What a file needs: itself and whatever those that are needed include.
Closed(s) == MainFile \in s /\ \A f \in s : includes[f] \subseteq s

\* findDependencies finds exactly the files that are needed.
LEMMA DependenciesAre ==
  ASSUME includes \in IncludeGraph
  PROVE  /\ Dependencies \in SUBSET SourceFile /\ Closed(Dependencies)
         /\ \A s \in SUBSET SourceFile : Closed(s) => Dependencies \subseteq s
<1> DEFINE N == FileCount
           R == Reached[N]
<1>0. N \in Nat /\ N \in 0..N
  BY FileCountIs
<1>1. Dependencies = R \cup {MainFile}
  BY DEF Dependencies, FileCount
<1>2. R \in SUBSET SourceFile /\ Onward(R) = R
  BY <1>0, ReachedIs, ReachedAll
<1> HIDE DEF R
<1>3. Closed(R \cup {MainFile})
  BY <1>2 DEF Closed, Onward
<1>4. ASSUME NEW s \in SUBSET SourceFile, Closed(s) PROVE R \cup {MainFile} \subseteq s
  <2> DEFINE T == {n \in Nat : n <= N => Reached[n] \subseteq s}
  <2>1. 0 \in T
    BY ReachedIs
  <2>2. ASSUME NEW n \in Nat, n \in T PROVE n + 1 \in T
    <3> SUFFICES ASSUME n + 1 <= N PROVE Reached[n + 1] \subseteq s
      OBVIOUS
    <3>1. n + 1 \in 1..N /\ (n + 1) - 1 = n /\ n <= N
      BY <1>0
    <3>2. Reached[n + 1] = Onward(Reached[n]) /\ Reached[n] \subseteq s
      BY <2>2, <3>1, ReachedIs
    <3> QED
      BY <1>4, <3>2 DEF Onward, Closed
  <2> HIDE DEF T
  <2>3. \A n \in Nat : n \in T
    BY <2>1, <2>2, NumberInduction
  <2>4. R \subseteq s
    BY <1>0, <2>3 DEF T, R
  <2> QED
    BY <1>4, <2>4 DEF Closed
<1> QED
  BY <1>1, <1>2, <1>3, <1>4, ArchiveAssumption
Order == SetToSeq(Dependencies)

\* The archive names each of them once.
LEMMA OrderIs ==
  ASSUME includes \in IncludeGraph
  PROVE  /\ Len(Order) \in 0..FileCount /\ Len(Order) = Cardinality(Dependencies) /\ DOMAIN Order = 1..Len(Order)
         /\ \A i \in 1..Len(Order) : Order[i] \in SourceFile
         /\ \A i, j \in 1..Len(Order) : Order[i] = Order[j] => i = j
         /\ Dependencies = {Order[i] : i \in 1..Len(Order)}
<1> DEFINE D == Dependencies
           n == Cardinality(D)
<1>1. D \in SUBSET SourceFile /\ IsFiniteSet(D) /\ n \in Nat /\ n <= FileCount
  BY DependenciesAre, FileCountIs, FS_Subset, FS_CardinalityType DEF FileCount
<1>2. \E f \in [1..n -> D] : IsInjective(f)
  <2>1. ExistsBijection(1..n, D)
    BY <1>1, FS_CardinalityType
  <2> QED
    BY <2>1 DEF ExistsBijection, Bijection, Injection, IsInjective
<1>3. Order \in [1..n -> D] /\ IsInjective(Order)
  BY <1>2 DEF Order, SetToSeq
<1>4. Order \in Seq(D) /\ Len(Order) = n
  BY <1>1, <1>3
<1>5. Order \in Injection(1..n, D)
  BY <1>3 DEF Injection
<1>6. Cardinality(1..n) = n
  BY <1>1, FS_Interval
<1>7. Order \in Surjection(1..n, D)
  BY <1>1, <1>5, <1>6, FS_Injection
<1>8. \A f \in D : \E i \in 1..n : Order[i] = f
  BY <1>7 DEF Surjection
<1>9. \A i, j \in 1..n : Order[i] = Order[j] => i = j
  BY <1>3 DEF IsInjective
<1> HIDE DEF n
<1>10. D = {Order[i] : i \in 1..n}
  BY <1>3, <1>8
<1> QED
  BY <1>1, <1>3, <1>4, <1>9, <1>10 DEF n

LEMMA OrderRests ==
  ASSUME includes' = includes
  PROVE  Order' = Order
BY DependenciesRest DEF Order

\* An archive with the first w of the files in ord.
ExportOf(ord, w) ==
  [count |-> Len(ord), valid |-> TRUE,
   entries |-> [i \in 1..w |-> [name |-> RelativeTo[ord[i]], content |-> ord[i]]]]

ArchiveOf(ord, a) == a = NoArchive \/ \E w \in 0..Len(ord) : a = ExportOf(ord, w)

\* The first n files of ord are in the directory t.
Brought(ord, t, n) == \A i \in 1..n : t[RelativeTo[ord[i]]] = ord[i]

Directory == [ArchiveName -> SourceFile \cup {NoFile, OldFile, CutFile}]

\* Two files have two names in an archive.
NamesDiffer == \A f, g \in SourceFile : RelativeTo[f] = RelativeTo[g] => f = g

\* What has been extracted stays, and is not in the way of what was there.
ArchiveInv ==
  /\ includes \in IncludeGraph /\ ArchiveOf(Order, archive) /\ target \in Directory /\ before \in Directory
  /\ importing \in {"idle", "extracting", "imported", "refused"} /\ position \in Nat
  /\ overwrite \in BOOLEAN /\ cut \in BOOLEAN
  /\ importing = "extracting" => archive # NoArchive /\ position <= Len(Order)
  /\ importing = "extracting" /\ ~cut => Brought(Order, target, position)
  /\ importing = "extracting" /\ ~overwrite => \A i \in 1..Len(Order) : before[RelativeTo[Order[i]]] = NoFile
  /\ importing = "imported" /\ ~cut => Brought(Order, target, Len(Order))
  /\ NoClobber /\ ListedWhole /\ ValidImports

LEMMA ExportIs ==
  ASSUME NEW ord, NEW w
  PROVE  /\ ExportOf(ord, w) # NoArchive /\ ExportOf(ord, w).count = Len(ord) /\ ExportOf(ord, w).valid
         /\ DOMAIN ExportOf(ord, w).entries = 1..w
         /\ \A i \in 1..w : /\ ExportOf(ord, w).entries[i].name = RelativeTo[ord[i]]
                            /\ ExportOf(ord, w).entries[i].content = ord[i]
BY DEF ExportOf, NoArchive

LEMMA ArchiveStarts == ArchiveInit => ArchiveInv
<1> SUFFICES ASSUME ArchiveInit PROVE ArchiveInv
  OBVIOUS
<1>1. /\ includes \in IncludeGraph /\ archive = NoArchive /\ target = [a \in ArchiveName |-> NoFile]
      /\ importing = "idle" /\ position = 0 /\ overwrite = FALSE /\ before = target /\ cut = FALSE /\ listed = {}
  BY DEF ArchiveInit
<1>2. target \in Directory /\ before \in Directory
  BY <1>1 DEF Directory
<1> QED
  BY <1>1, <1>2 DEF ArchiveInv, ArchiveOf, NoClobber, ListedWhole, ValidImports

LEMMA ExportKeeps ==
  ASSUME ArchiveInv, includes' = includes, NEW w \in 0..FileCount, ExportConfig(w)
  PROVE  ArchiveInv'
<1>1. Order' = Order /\ includes \in IncludeGraph
  BY OrderRests DEF ArchiveInv
<1>2. /\ w \in 0..Len(Order) /\ archive' = ExportOf(Order, w) /\ importing' = "idle" /\ listed' = {}
      /\ cut' = FALSE /\ UNCHANGED <<target, position, overwrite, before>>
  <2>1. w <= Cardinality(Dependencies) /\ Len(Order) = Cardinality(Dependencies) /\ Len(Order) \in Nat
    BY <1>1, OrderIs, FileCountIs DEF ExportConfig
  <2>2. w \in 0..Len(Order)
    BY <2>1, FileCountIs
  <2> QED
    BY <2>2 DEF ExportConfig, ExportOf, Order
<1>3. ArchiveOf(Order, archive')
  BY <1>2 DEF ArchiveOf
<1> QED
  BY <1>1, <1>2, <1>3 DEF ArchiveInv, NoClobber, ListedWhole, ValidImports

LEMMA StartImportKeeps ==
  ASSUME ArchiveInv, FileCount <= MaxFiles, includes' = includes, NEW over \in BOOLEAN, StartImport(over)
  PROVE  ArchiveInv'
<1>1. Order' = Order /\ includes \in IncludeGraph /\ Len(Order) \in 0..FileCount
  BY OrderRests, OrderIs DEF ArchiveInv
<1>2. /\ archive # NoArchive /\ overwrite' = over /\ position' = 0 /\ before' = target /\ cut' = FALSE /\ listed' = {}
      /\ importing' \in {"extracting", "refused"} /\ UNCHANGED <<archive, target>>
  BY DEF StartImport
<1>3. PICK w \in 0..Len(Order) : archive = ExportOf(Order, w)
  BY <1>2 DEF ArchiveInv, ArchiveOf
<1>4. archive.valid /\ archive.count = Len(Order) /\ archive.count <= MaxFiles
  <2>1. archive.valid /\ archive.count = Len(Order)
    BY <1>3, ExportIs
  <2> QED
    BY <1>1, <2>1, FileCountIs, ArchiveAssumption
<1>5. importing' = "refused" => ~over
  BY <1>4 DEF StartImport
<1>6. ASSUME importing' = "extracting", ~over, NEW i \in 1..Len(Order) PROVE target[RelativeTo[Order[i]]] = NoFile
  <2>1. Readable(archive, i) /\ target[archive.entries[i].name] = NoFile
    BY <1>4, <1>6 DEF StartImport
  <2>2. i \in 1..w
    BY <1>3, <2>1, ExportIs DEF Readable
  <2>3. archive.entries[i].name = RelativeTo[Order[i]]
    BY <1>3, <2>2, ExportIs
  <2> QED
    BY <2>1, <2>3
<1>7. Brought(Order, target, 0)
  BY DEF Brought
<1>8. NoClobber' /\ ListedWhole' /\ ValidImports'
  BY <1>2, <1>5 DEF NoClobber, ListedWhole, ValidImports
<1>9. 0 \in Nat /\ 0 <= Len(Order)
  BY <1>1, FileCountIs
<1> QED
  BY <1>1, <1>2, <1>6, <1>7, <1>8, <1>9 DEF ArchiveInv

LEMMA ExtractKeeps ==
  ASSUME ArchiveInv, NamesDiffer, includes' = includes, NEW outcome \in Outcome, Extract(outcome)
  PROVE  ArchiveInv'
<1> DEFINE i == position + 1
           name == archive.entries[i].name
           got  == IF outcome = "cut" THEN CutFile ELSE archive.entries[i].content
<1>1. Order' = Order /\ includes \in IncludeGraph /\ Len(Order) \in 0..FileCount /\ Len(Order) \in Nat
  BY OrderRests, OrderIs, FileCountIs DEF ArchiveInv
<1>2. /\ importing = "extracting" /\ position < archive.count /\ archive # NoArchive /\ position \in Nat
      /\ UNCHANGED <<archive, overwrite, before, listed>>
  BY DEF Extract, ArchiveInv
<1>3. PICK w \in 0..Len(Order) : archive = ExportOf(Order, w)
  BY <1>2 DEF ArchiveInv, ArchiveOf
<1>4. archive.count = Len(Order) /\ DOMAIN archive.entries = 1..w
  BY <1>3, ExportIs
<1>5. i \in 1..Len(Order) /\ i \in Nat
  BY <1>1, <1>2, <1>4
<1>6. CASE Readable(archive, i) /\ name \notin Escaping /\ outcome # "refused"
  <2>1. /\ target' = [target EXCEPT ![name] = got] /\ cut' = (cut \/ outcome = "cut")
        /\ position' = i /\ importing' = "extracting"
    BY <1>2, <1>6 DEF Extract
  <2>2. name = RelativeTo[Order[i]] /\ archive.entries[i].content = Order[i]
    BY <1>3, <1>4, <1>6, ExportIs DEF Readable
  <2>3. \A j \in 1..Len(Order) : Order[j] \in SourceFile /\ RelativeTo[Order[j]] \in ArchiveName
    BY <1>1, OrderIs, ArchiveAssumption
  <2>4. target \in Directory
    BY DEF ArchiveInv
  <2>5. target' = [target EXCEPT ![RelativeTo[Order[i]]] = got] /\ got \in {Order[i], CutFile}
    BY <2>1, <2>2
  <2>12. ~cut' => ~cut /\ got = Order[i]
    BY <2>1, <2>2
  <2>13. cut' \in BOOLEAN
    BY <2>1 DEF ArchiveInv
  <2> HIDE DEF i, name, got
  <2>6. target' \in Directory
    BY <1>5, <2>3, <2>4, <2>5 DEF Directory
  <2>7. ASSUME ~cut', NEW j \in 1..i PROVE target'[RelativeTo[Order[j]]] = Order[j]
    <3>1. j \in 1..Len(Order)
      BY <1>1, <1>5
    <3>2. CASE j = i
      BY <1>5, <2>3, <2>4, <2>5, <2>7, <2>12, <3>2 DEF Directory
    <3>3. CASE j # i
      <4>1. j \in 1..position
        BY <1>2, <3>3 DEF i
      <4>2. target[RelativeTo[Order[j]]] = Order[j]
        BY <1>2, <2>7, <2>12, <4>1 DEF ArchiveInv, Brought
      <4>3. Order[j] # Order[i]
        BY <1>1, <1>5, <3>1, <3>3, OrderIs
      <4>4. RelativeTo[Order[j]] # RelativeTo[Order[i]]
        BY <1>5, <2>3, <3>1, <4>3 DEF NamesDiffer
      <4> QED
        BY <2>3, <2>4, <2>5, <3>1, <4>2, <4>4 DEF Directory
    <3> QED
      BY <3>2, <3>3
  <2>8. ~cut' => Brought(Order, target', i)
    BY <2>7 DEF Brought
  <2>9. NoClobber'
    <3> SUFFICES ASSUME ~overwrite, NEW a \in ArchiveName, before[a] # NoFile PROVE target'[a] = before[a]
      BY <1>2 DEF NoClobber
    <3>1. before[RelativeTo[Order[i]]] = NoFile
      BY <1>2, <1>5 DEF ArchiveInv
    <3>2. target[a] = before[a]
      BY <1>2 DEF ArchiveInv, NoClobber
    <3> QED
      BY <2>4, <2>5, <3>1, <3>2 DEF Directory
  <2>10. ListedWhole' /\ ValidImports'
    BY <1>2, <2>1 DEF ArchiveInv, ListedWhole, ValidImports
  <2>11. i <= Len(Order)
    BY <1>1, <1>5
  <2> QED
    BY <1>1, <1>2, <1>5, <2>1, <2>6, <2>8, <2>9, <2>10, <2>11, <2>13 DEF ArchiveInv
<1>7. CASE ~(Readable(archive, i) /\ name \notin Escaping /\ outcome # "refused")
  <2>1. importing' = "refused" /\ ioError' = (outcome = "refused") /\ UNCHANGED <<target, position, cut>>
    BY <1>7 DEF Extract
  <2>2. ValidImports'
    <3> SUFFICES ASSUME Valid(archive) PROVE ioError'
      BY <1>2 DEF ValidImports, Valid, Readable
    <3>1. Readable(archive, i) /\ name \notin Escaping
      BY <1>4, <1>5 DEF Valid
    <3> QED
      BY <1>7, <2>1, <3>1
  <2>3. NoClobber' /\ ListedWhole'
    BY <1>2, <2>1 DEF ArchiveInv, NoClobber, ListedWhole
  <2> QED
    BY <1>1, <1>2, <2>1, <2>2, <2>3 DEF ArchiveInv
<1> QED
  BY <1>6, <1>7

LEMMA FinishImportKeeps ==
  ASSUME ArchiveInv, includes' = includes, FinishImport
  PROVE  ArchiveInv'
<1>1. Order' = Order
  BY OrderRests
<1>2. /\ importing = "extracting" /\ position = archive.count /\ importing' = "imported"
      /\ UNCHANGED <<archive, target, position, overwrite, before, ioError, cut>>
  BY DEF FinishImport
<1>3. position = Len(Order)
  BY <1>2, ExportIs DEF ArchiveInv, ArchiveOf
<1>4. NoClobber' /\ ListedWhole' /\ ValidImports'
  BY <1>2 DEF ArchiveInv, NoClobber, ListedWhole, ValidImports
<1> QED
  BY <1>1, <1>2, <1>3, <1>4 DEF ArchiveInv

LEMMA UseTargetKeeps ==
  ASSUME ArchiveInv, includes' = includes, UseTarget
  PROVE  ArchiveInv'
<1>1. Order' = Order
  BY OrderRests
<1>2. importing' = "idle" /\ listed' = {} /\ cut' = FALSE /\ UNCHANGED <<archive, position, overwrite, before>>
  BY DEF UseTarget
<1>3. target' \in Directory
  BY DEF UseTarget, ArchiveInv, Directory
<1>4. NoClobber' /\ ListedWhole' /\ ValidImports'
  BY <1>2 DEF NoClobber, ListedWhole, ValidImports
<1> QED
  BY <1>1, <1>2, <1>3, <1>4 DEF ArchiveInv

LEMMA ArchiveKept ==
  ASSUME NamesDiffer, FileCount <= MaxFiles
  PROVE  ArchiveSpec => []ArchiveInv
<1>1. ASSUME ArchiveInv, [ArchiveNext]_archiveVars PROVE ArchiveInv'
  <2>1. ASSUME NEW w \in 0..Cardinality(SourceFile), includes' = includes, ExportConfig(w) PROVE ArchiveInv'
    BY <1>1, <2>1, ExportKeeps DEF FileCount
  <2>2. ASSUME NEW over \in BOOLEAN, includes' = includes, StartImport(over) PROVE ArchiveInv'
    BY <1>1, <2>2, StartImportKeeps
  <2>3. ASSUME NEW outcome \in Outcome, includes' = includes, Extract(outcome) PROVE ArchiveInv'
    BY <1>1, <2>3, ExtractKeeps
  <2>4. CASE includes' = includes /\ (FinishImport \/ UseTarget)
    BY <1>1, <2>4, FinishImportKeeps, UseTargetKeeps
  <2>5. CASE UNCHANGED archiveVars
    <3>1. Order' = Order
      BY <2>5, OrderRests DEF archiveVars
    <3>2. NoClobber' /\ ListedWhole' /\ ValidImports'
      BY <1>1, <2>5 DEF archiveVars, ArchiveInv, NoClobber, ListedWhole, ValidImports, Valid, Readable
    <3> QED
      BY <1>1, <2>5, <3>1, <3>2 DEF ArchiveInv, archiveVars
  <2> QED
    BY <1>1, <2>1, <2>2, <2>3, <2>4, <2>5 DEF ArchiveNext
<1> QED
  BY <1>1, ArchiveStarts, PTL DEF ArchiveSpec

\* Export and import keep what they promise for every set of files and every way in which
\* they include one another, cycles too, and wherever an error stops them: an export has
\* the files that are needed and no others, an import that reports success has brought
\* them all, if the system wrote what it was given, and overwritten nothing that it might not.  Files have different names in an
\* archive (SameName refutes it otherwise) and are not more than an import takes.
THEOREM ArchivesAreSound ==
  ASSUME NamesDiffer, FileCount <= MaxFiles
  PROVE  ArchiveSpec => []ArchiveSound
<1>1. ASSUME ArchiveInv PROVE ArchiveSound
  <2>1. includes \in IncludeGraph /\ Len(Order) \in Nat
    BY <1>1, OrderIs, FileCountIs DEF ArchiveInv
  <2>2. ExportClosed
    <3> DEFINE exported == {archive.entries[i].content : i \in DOMAIN archive.entries}
    <3> SUFFICES ASSUME archive # NoArchive, archive.count = Len(archive.entries)
                 PROVE  Closed(exported) /\ \A s \in SUBSET SourceFile : Closed(s) => exported \subseteq s
      BY DEF ExportClosed, Closed
    <3>1. PICK w \in 0..Len(Order) : archive = ExportOf(Order, w)
      BY <1>1 DEF ArchiveInv, ArchiveOf
    <3>2. /\ archive.count = Len(Order) /\ DOMAIN archive.entries = 1..w /\ w \in Nat
          /\ \A i \in 1..w : archive.entries[i].content = Order[i]
      BY <2>1, <3>1, ExportIs
    <3>3. Len(archive.entries) = w
      BY <3>1, <3>2 DEF ExportOf
    <3>4. exported = {Order[i] : i \in 1..Len(Order)}
      BY <3>2, <3>3
    <3>5. exported = Dependencies
      BY <2>1, <3>4, OrderIs
    <3> HIDE DEF exported
    <3> QED
      BY <2>1, <3>5, DependenciesAre
  <2>3. ImportFaithful
    <3> SUFFICES ASSUME importing = "imported", ~cut, NEW f \in Dependencies PROVE target[RelativeTo[f]] = f
      BY DEF ImportFaithful
    <3>1. PICK i \in 1..Len(Order) : f = Order[i]
      BY <2>1, OrderIs
    <3> QED
      BY <1>1, <3>1 DEF ArchiveInv, Brought
  <2> QED
    BY <1>1, <2>2, <2>3 DEF ArchiveInv, ArchiveSound
<1> QED
  BY <1>1, ArchiveKept, PTL

(* ------------------------------- The JSON loader --------------------------- *)

Defined(d)  == {n \in DOMAIN d.keys : d.keys[n] # BadScan}
KeyOf(d, n) == [name |-> n, scan |-> d.keys[n]]
Names(kb)   == {kb[i].name : i \in DOMAIN kb}

\* No two names of a document differ only in case, and no two share a scan code.
OwnKeys ==
  \A d \in Document : \A m, n \in Defined(d) : (Fold[m] = Fold[n] \/ d.keys[m] = d.keys[n]) => m = n

\* No two modifiers of a document have the same trigger.
OwnTriggers ==
  \A d \in Document : \A k, m \in DOMAIN d.mods : d.mods[k].trigger = d.mods[m].trigger => k = m

\* The table holds keys of the document, each once.
KeysOf(d, kb) ==
  /\ kb \in Seq({KeyOf(d, n) : n \in Defined(d)})
  /\ \A i, j \in DOMAIN kb : kb[i].name = kb[j].name => i = j

\* Under each name that is in the table is its key.
LookupOf(d, kb, f) == DOMAIN f = Names(kb) /\ \A n \in DOMAIN f : f[n] = KeyOf(d, n)

\* After each section its part of the document is there, all of it.
LoaderInv ==
  /\ doc \in Document /\ KeysOf(doc, keyboard) /\ LookupOf(doc, keyboard, lookup)
  /\ section \in {"modifiers", "mappings", "loaded"} => Names(keyboard) = DOMAIN doc.keys
  /\ section \in {"mappings", "loaded"} =>
       \A m \in DOMAIN doc.mods : \E s \in DOMAIN triggers : triggers[s] = m

LEMMA KeyAt ==
  ASSUME NEW d, NEW kb, KeysOf(d, kb), NEW i \in DOMAIN kb
  PROVE  kb[i].name \in Defined(d) /\ kb[i] = KeyOf(d, kb[i].name) /\ i \in Nat
<1>1. kb[i] \in {KeyOf(d, n) : n \in Defined(d)}
  BY DEF KeysOf
<1>2. PICK n \in Defined(d) : kb[i] = KeyOf(d, n)
  BY <1>1
<1> QED
  BY <1>2 DEF KeyOf, KeysOf

\* A key that is put in front of the others leaves a table of keys of the document.
LEMMA KeyAdded ==
  ASSUME NEW d, NEW kb, KeysOf(d, kb), NEW n \in Defined(d), n \notin Names(kb)
  PROVE  LET l == <<KeyOf(d, n)>> \o kb
         IN /\ KeysOf(d, l) /\ 1 \in DOMAIN l /\ l[1] = KeyOf(d, n) /\ Names(l) = Names(kb) \cup {n}
<1> DEFINE E == {KeyOf(d, k) : k \in Defined(d)}
           x == KeyOf(d, n)
           l == <<x>> \o kb
<1>1. x \in E /\ kb \in Seq(E) /\ x.name = n
  BY DEF KeysOf, KeyOf
<1> HIDE DEF x, E
<1>2. /\ l \in Seq(E) /\ Len(l) = Len(kb) + 1 /\ l[1] = x
      /\ \A i \in DOMAIN kb : l[i + 1] = kb[i] /\ i + 1 \in DOMAIN l
      /\ \A i \in DOMAIN l : i = 1 \/ (i - 1 \in DOMAIN kb /\ l[i] = kb[i - 1])
      /\ DOMAIN l \subseteq Nat /\ DOMAIN kb \subseteq Nat /\ 1 \in DOMAIN l
  BY <1>1
<1> HIDE DEF l
<1>3. \A i \in DOMAIN kb : kb[i].name # n
  BY DEF Names
<1>4. ASSUME NEW i \in DOMAIN l, NEW j \in DOMAIN l, l[i].name = l[j].name PROVE i = j
  <2>1. CASE i = 1 /\ j = 1
    BY <2>1
  <2>2. CASE i = 1 /\ j # 1
    BY <1>1, <1>2, <1>3, <1>4, <2>2
  <2>3. CASE i # 1 /\ j = 1
    BY <1>1, <1>2, <1>3, <1>4, <2>3
  <2>4. CASE i # 1 /\ j # 1
    <3>1. l[i] = kb[i - 1] /\ l[j] = kb[j - 1] /\ i - 1 \in DOMAIN kb /\ j - 1 \in DOMAIN kb
      BY <1>2, <2>4
    <3>2. i - 1 = j - 1
      BY <1>4, <3>1 DEF KeysOf
    <3> QED
      BY <1>2, <3>2
  <2> QED
    BY <2>1, <2>2, <2>3, <2>4
<1>5. Names(l) = Names(kb) \cup {n}
  <2>1. ASSUME NEW y \in Names(l) PROVE y \in Names(kb) \cup {n}
    <3>1. PICK i \in DOMAIN l : y = l[i].name
      BY DEF Names
    <3>2. CASE i = 1
      BY <1>1, <1>2, <3>1, <3>2
    <3>3. CASE i # 1
      <4>1. i - 1 \in DOMAIN kb /\ y = kb[i - 1].name
        BY <1>2, <3>1, <3>3
      <4> QED
        BY <4>1 DEF Names
    <3> QED
      BY <3>2, <3>3
  <2>2. n \in Names(l)
    BY <1>1, <1>2 DEF Names
  <2>3. ASSUME NEW y \in Names(kb) PROVE y \in Names(l)
    <3>1. PICK i \in DOMAIN kb : y = kb[i].name
      BY DEF Names
    <3>2. i + 1 \in DOMAIN l /\ l[i + 1].name = y
      BY <1>2, <3>1
    <3> QED
      BY <3>2 DEF Names
  <2> QED
    BY <2>1, <2>2, <2>3
<1>6. KeysOf(d, l)
  BY <1>2, <1>4 DEF KeysOf, E
<1> QED
  BY <1>2, <1>5, <1>6 DEF l, x

\* Where a name has no other spelling the key that is found under it is its own.
LEMMA NameFound ==
  ASSUME OwnKeys, NEW d \in Document, NEW kb, KeysOf(d, kb), NEW i \in DOMAIN kb
  PROVE  SearchName(kb, kb[i].name) = kb[i]
<1> DEFINE match == {j \in DOMAIN kb : Fold[kb[j].name] = Fold[kb[i].name]}
<1>1. ASSUME NEW j \in match PROVE j = i
  <2>1. kb[j].name = kb[i].name
    BY KeyAt DEF OwnKeys
  <2> QED
    BY <2>1 DEF KeysOf
<1>2. match = {i} /\ i \in Nat
  BY <1>1, KeyAt
<1> HIDE DEF match
<1>3. i = CHOOSE k \in match : \A j \in match :
        Bucket(kb[k]) < Bucket(kb[j]) \/ (Bucket(kb[k]) = Bucket(kb[j]) /\ k <= j)
  BY <1>2
<1> QED
  BY <1>3 DEF SearchName, match

\* Where a scan code has no other name the key that is found by it is its own.
LEMMA ScanFound ==
  ASSUME OwnKeys, NEW d \in Document, NEW kb, KeysOf(d, kb), NEW i \in DOMAIN kb
  PROVE  SearchScan(kb, kb[i].scan) = kb[i]
<1> DEFINE match == {j \in DOMAIN kb : kb[j].scan = kb[i].scan}
<1>1. ASSUME NEW j \in match PROVE j = i
  <2>1. kb[j].scan = d.keys[kb[j].name] /\ kb[i].scan = d.keys[kb[i].name]
    BY KeyAt DEF KeyOf
  <2>2. kb[j].name = kb[i].name
    BY <2>1, KeyAt DEF OwnKeys
  <2> QED
    BY <2>2 DEF KeysOf
<1>2. match = {i} /\ i \in Nat
  BY <1>1, KeyAt
<1> HIDE DEF match
<1>3. i = CHOOSE k \in match : \A j \in match : k <= j
  BY <1>2
<1> QED
  BY <1>3 DEF SearchScan, match

LEMMA ParseKeyDefinitionKeeps ==
  ASSUME OwnKeys, LoaderInv, ParseKeyDefinition
  PROVE  LoaderInv'
<1> DEFINE rest == {n \in DOMAIN doc.keys : \A i \in DOMAIN keyboard : keyboard[i].name # n}
           n    == CHOOSE m \in rest : \A k \in rest : m <= k
<1>1. section = "keyboard" /\ UNCHANGED <<doc, triggers>>
  BY DEF ParseKeyDefinition
<1>2. CASE rest = {}
  <2>1. section' = "modifiers" /\ UNCHANGED <<keyboard, lookup>>
    BY <1>2 DEF ParseKeyDefinition
  <2>2. Names(keyboard) \subseteq DOMAIN doc.keys
    BY KeyAt DEF LoaderInv, Names, Defined
  <2>3. Names(keyboard) = DOMAIN doc.keys
    BY <1>2, <2>2 DEF Names
  <2> QED
    BY <1>1, <2>1, <2>3 DEF LoaderInv
<1>3. CASE rest # {} /\ doc.keys[n] = BadScan
  <2>1. section' = "failed" /\ UNCHANGED <<keyboard, lookup>>
    BY <1>3 DEF ParseKeyDefinition
  <2> QED
    BY <1>1, <2>1 DEF LoaderInv
<1>4. CASE rest # {} /\ doc.keys[n] # BadScan
  <2>1. /\ keyboard' = <<KeyOf(doc, n)>> \o keyboard
        /\ lookup' = Extend(lookup, n, SearchName(keyboard', n)) /\ section' = "keyboard"
    BY <1>1, <1>4 DEF ParseKeyDefinition, KeyOf
  <2>2. rest \in SUBSET Nat
    BY LoaderAssumption DEF LoaderInv
  <2>3. n \in rest
    <3>1. \E m \in rest : \A k \in rest : m <= k
      BY <1>4, <2>2, LeastElement
    <3> QED
      BY <3>1
  <2>4. n \in Defined(doc) /\ n \notin Names(keyboard)
    BY <1>4, <2>3 DEF Defined, Names
  <2> HIDE DEF n
  <2>5. /\ KeysOf(doc, keyboard') /\ 1 \in DOMAIN keyboard' /\ keyboard'[1] = KeyOf(doc, n)
        /\ Names(keyboard') = Names(keyboard) \cup {n}
    BY <2>1, <2>4, KeyAdded DEF LoaderInv
  <2>6. SearchName(keyboard', n) = KeyOf(doc, n)
    <3>1. keyboard'[1].name = n
      BY <2>5 DEF KeyOf
    <3> QED
      BY <2>5, <3>1, NameFound DEF LoaderInv
  <2>7. LookupOf(doc, keyboard', lookup')
    BY <2>1, <2>5, <2>6 DEF LookupOf, Extend, LoaderInv
  <2> QED
    BY <1>1, <2>1, <2>5, <2>7 DEF LoaderInv
<1> QED
  BY <1>2, <1>3, <1>4

LEMMA ParseVirtualModifiersKeeps ==
  ASSUME OwnKeys, OwnTriggers, LoaderInv, ParseVirtualModifiers
  PROVE  LoaderInv'
<1>1. section = "modifiers" /\ section' \in {"mappings", "failed"} /\ UNCHANGED <<doc, keyboard, lookup>>
  BY DEF ParseVirtualModifiers
<1>2. CASE section' = "failed"
  BY <1>1, <1>2 DEF LoaderInv
<1>3. CASE section' = "mappings"
  <2> DEFINE scan(m) == lookup[doc.mods[m].trigger].scan
             of(s)   == {m \in DOMAIN doc.mods : scan(m) = s}
  <2>1. /\ \A m \in DOMAIN doc.mods : doc.mods[m].trigger \in DOMAIN lookup
        /\ triggers' = [s \in {scan(m) : m \in DOMAIN doc.mods} |-> CHOOSE m \in of(s) : \A k \in of(s) : k <= m]
    BY <1>3 DEF ParseVirtualModifiers
  <2>2. DOMAIN lookup \subseteq Defined(doc)
    BY KeyAt DEF LoaderInv, LookupOf, Names
  <2>3. \A x, y \in DOMAIN lookup : lookup[x].scan = lookup[y].scan => x = y
    BY <2>2 DEF LoaderInv, LookupOf, KeyOf, OwnKeys
  <2>4. ASSUME NEW m \in DOMAIN doc.mods PROVE triggers'[scan(m)] = m /\ scan(m) \in DOMAIN triggers'
    <3>1. ASSUME NEW k \in of(scan(m)) PROVE k = m
      BY <2>1, <2>3 DEF LoaderInv, OwnTriggers
    <3>2. of(scan(m)) = {m} /\ m \in Nat
      BY <3>1, LoaderAssumption DEF LoaderInv
    <3>3. scan(m) \in DOMAIN triggers' /\ triggers'[scan(m)] = CHOOSE j \in of(scan(m)) : \A k \in of(scan(m)) : k <= j
      BY <2>1
    <3> HIDE DEF of, scan
    <3>4. m = CHOOSE j \in of(scan(m)) : \A k \in of(scan(m)) : k <= j
      BY <3>2
    <3> QED
      BY <3>3, <3>4
  <2> HIDE DEF scan
  <2>5. \A m \in DOMAIN doc.mods : \E s \in DOMAIN triggers' : triggers'[s] = m
    BY <2>4
  <2> QED
    BY <1>1, <1>3, <2>5 DEF LoaderInv
<1> QED
  BY <1>1, <1>2, <1>3

LEMMA LoaderKept == ASSUME OwnKeys, OwnTriggers PROVE LoaderSpec => []LoaderInv
<1>1. LoaderInit => LoaderInv
  BY DEF LoaderInit, LoaderInv, KeysOf, LookupOf, Names
<1>2. ASSUME LoaderInv, [LoaderNext]_loaderVars PROVE LoaderInv'
  <2>1. CASE ReadFile
    BY <1>2, <2>1 DEF ReadFile, LoaderInv
  <2>2. CASE ParseKeyDefinition
    BY <1>2, <2>2, ParseKeyDefinitionKeeps
  <2>3. CASE ParseVirtualModifiers
    BY <1>2, <2>3, ParseVirtualModifiersKeeps
  <2>4. CASE ParseSingleMapping
    BY <1>2, <2>4 DEF ParseSingleMapping, LoaderInv
  <2>5. CASE UNCHANGED loaderVars
    BY <1>2, <2>5 DEF loaderVars, LoaderInv
  <2> QED
    BY <1>2, <2>1, <2>2, <2>3, <2>4, <2>5 DEF LoaderNext
<1> QED
  BY <1>1, <1>2, PTL DEF LoaderSpec

\* A loaded document's keys and modifiers are those that it names, for documents of any
\* size and a key table with any number of buckets, as long as no two of its keys share a
\* name (without regard to case) or a scan code and no two modifiers share a trigger.
THEOREM LoadedKeysResolve ==
  ASSUME OwnKeys, OwnTriggers
  PROVE  LoaderSpec => []KeysResolved
<1>1. ASSUME LoaderInv, section = "loaded", NEW n \in DOMAIN doc.keys
      PROVE  SearchScan(keyboard, doc.keys[n]) = lookup[n]
  <2>1. n \in DOMAIN lookup /\ n \in Names(keyboard)
    BY <1>1 DEF LoaderInv, LookupOf
  <2>2. PICK i \in DOMAIN keyboard : keyboard[i].name = n
    BY <2>1 DEF Names
  <2>3. keyboard[i] = KeyOf(doc, n) /\ lookup[n] = KeyOf(doc, n)
    BY <1>1, <2>1, <2>2, KeyAt DEF LoaderInv, LookupOf
  <2>4. keyboard[i].scan = doc.keys[n]
    BY <2>3 DEF KeyOf
  <2> QED
    BY <1>1, <2>2, <2>3, <2>4, ScanFound DEF LoaderInv
<1>2. LoaderInv => KeysResolved
  BY <1>1 DEF KeysResolved, PhysicalKey, ModifierReachable, LoaderInv
<1> QED
  BY <1>2, LoaderKept, PTL

(* ------------------------------ The Linux daemon ------------------------------ *)

Occupied  == {"read", "execute", "save", "join", "sleep"}
Responses == {"RspOk", "RspError", "RspStatus", "RspConfig", "RspKeymaps", "RspMetrics"}

\* Whom the server serves and who waits for it.
Queued ==
  /\ spc \in Occupied => cur \in Client /\ link[cur] = "open"
  /\ spc \notin Occupied => cur = NoClient
  /\ spc \in Occupied \ {"read"} => cpc[cur] \in {"waiting", "done"}
  /\ spc \in {"save", "join", "sleep"} => cur \in executed
  /\ spc = "save" => request[cur].cmd = "reload"
  /\ spc = "join" => request[cur].cmd = "stop"
  /\ spc = "sleep" => request[cur].cmd = "start"
  /\ \A i \in DOMAIN backlog : link[backlog[i]] = "open" /\ backlog[i] # cur
  /\ \A i, j \in DOMAIN backlog : backlog[i] = backlog[j] => i = j

\* What is known of a client.
KnownOf(c) ==
  /\ exit[c] # "none" => cpc[c] = "done"
  /\ cpc[c] = "idle" \/ exit[c] = "ENGINE_NOT_RUNNING" => c \notin executed /\ link[c] = "none"
  /\ cpc[c] \in {"connected", "waiting"} => link[c] # "none"
  /\ link[c] # "none" => request[c] \in Request
  /\ link[c] \in Responses => c \in executed /\ \E b \in BOOLEAN : link[c] = Response(request[c].cmd, b)
  /\ exit[c] = "SUCCESS" => c \in executed

ClientsKnown == \A c \in Client : KnownOf(c)

\* What main() has done by the time the server thread and the engine's thread run.
StartKnown ==
  /\ spc # "off" => main \in {"serving", "stopping"}
  /\ main = "starting" => config # NoPath \/ thread # "none"
  /\ main \in {"down", "restored"} => thread = "none"

\* The engine and the thread that starts it, when start() takes less than 100 ms.
EngineKnown ==
  /\ thread \in {"starting", "installed"} => main = "starting" \/ spc = "sleep"
  /\ thread \in {"none", "starting"} => engine = "Stopped"
  /\ thread = "installed" => engine = "Loading" /\ hook
  /\ spc = "join" => engine = "Stopped"
  /\ StateHonest

ClientTypes ==
  /\ cpc \in [Client -> {"idle", "connected", "waiting", "done", "gone"}]
  /\ request \in [Client -> Request \cup {NoRequest}]
  /\ link \in [Client -> {"none", "open", "closed"} \cup Responses]
  /\ exit \in [Client -> Exit \cup {"none"}] /\ executed \subseteq Client

ServerTypes ==
  /\ running \in BOOLEAN
  /\ spc \in {"off", "poll", "read", "execute", "save", "join", "sleep", "exited"}
  /\ cur \in Client \cup {NoClient} /\ backlog \in Seq(Client)

MainTypes ==
  /\ main \in {"down", "restored", "starting", "serving", "stopping", "saving", "destroying"}
  /\ sessionFile \in {Absent, Torn} \cup {Whole(d) : d \in Session} /\ data \in Session /\ promised \in BOOLEAN
  /\ config \in Path \cup {NoPath}
  /\ thread \in {"none", "starting", "installed", "done"}
  /\ engine \in {"Stopped", "Loading", "Running"} /\ hook \in BOOLEAN /\ handler \in BOOLEAN

ServedInv == ClientTypes /\ ServerTypes /\ Queued /\ ClientsKnown
LifeInv   == MainTypes /\ StartKnown

LEMMA RequestIs ==
  ASSUME NEW r \in Request
  PROVE  r.cmd \in Command /\ (r.cmd = "reload" => r.path \in Path \cup {NoPath})
BY DEF Request, Command, Query

LEMMA ResponseIs ==
  ASSUME NEW cmd \in Command, NEW b \in BOOLEAN
  PROVE  /\ Response(cmd, b) \in Responses /\ (Response(cmd, b) = "RspError" <=> ~b)
         /\ Response(cmd, b) = "RspOk" => cmd \notin Query
BY DEF Response, Command, Query, Responses

LEMMA ServedTypes ==
  ASSUME ClientTypes, ServerTypes, MainTypes
  PROVE  TypeOK
BY DEF ClientTypes, ServerTypes, MainTypes, TypeOK, Responses

LEMMA AskedIsRequest ==
  ASSUME NEW c \in Client, NEW q \in Ask(c)
  PROVE  q \in Request
BY DaemonAssumption DEF Ask, Changes, Request, Command, Query

LEMMA ServedStart == Init => ServedInv
<1> SUFFICES ASSUME Init PROVE ServedInv
  OBVIOUS
<1>1. ClientTypes
  BY DEF Init, ClientTypes
<1>2. ServerTypes
  <2>1. <<>> \in Seq(Client)
    OBVIOUS
  <2> QED
    BY <2>1 DEF Init, ServerTypes
<1>3. Queued
  BY DEF Init, Queued, Occupied
<1>4. ClientsKnown
  BY DEF Init, ClientsKnown, KnownOf, Responses
<1> QED
  BY <1>1, <1>2, <1>3, <1>4 DEF ServedInv

\* A client goes on by itself.
LEMMA ClientGoesOn ==
  ASSUME ServedInv, NEW c \in Client, Send(c) \/ Timeout(c) \/ Interrupt(c)
  PROVE  ServedInv'
<1>1. /\ UNCHANGED <<running, spc, cur, backlog, request, link, executed>> /\ cpc[c] \in {"connected", "waiting"}
      /\ \E to \in {"waiting", "done", "gone"}, code \in {exit[c], "COMMAND_FAILED"} :
           /\ cpc' = [cpc EXCEPT ![c] = to] /\ exit' = [exit EXCEPT ![c] = code]
           /\ code # exit[c] => to = "done"
           /\ to = "gone" => cpc[c] = "connected"
           /\ to \in {"waiting", "gone"} => cpc[c] = "connected"
  <2>0. cpc \in [Client -> {"idle", "connected", "waiting", "done", "gone"}] /\ exit \in [Client -> Exit \cup {"none"}]
    BY DEF ServedInv, ClientTypes
  <2>1. exit = [exit EXCEPT ![c] = exit[c]]
    BY <2>0
  <2>2. CASE Send(c)
    BY <2>1, <2>2 DEF Send, Leave, serverVars
  <2>3. CASE Timeout(c)
    BY <2>3 DEF Timeout, Leave, serverVars
  <2>4. CASE Interrupt(c)
    BY <2>1, <2>4 DEF Interrupt, serverVars
  <2> QED
    BY <2>2, <2>3, <2>4
<1>2. PICK to \in {"waiting", "done", "gone"}, code \in {exit[c], "COMMAND_FAILED"} :
           /\ cpc' = [cpc EXCEPT ![c] = to] /\ exit' = [exit EXCEPT ![c] = code]
           /\ code # exit[c] => to = "done"
           /\ to = "gone" => cpc[c] = "connected"
           /\ to \in {"waiting", "gone"} => cpc[c] = "connected"
  BY <1>1
<1>3. ClientTypes'
  BY <1>1, <1>2 DEF ServedInv, ClientTypes, Exit
<1>4. ServerTypes'
  BY <1>1 DEF ServedInv, ServerTypes
<1>5. Queued'
  BY <1>1, <1>2 DEF ServedInv, ClientTypes, Queued, Occupied
<1>6. ClientsKnown'
  <2> SUFFICES ASSUME NEW d \in Client PROVE KnownOf(d)'
    BY DEF ClientsKnown
  <2>1. KnownOf(d)
    BY DEF ServedInv, ClientsKnown
  <2>2. CASE d = c
    BY <1>1, <1>2, <2>1, <2>2 DEF KnownOf, ServedInv, ClientTypes
  <2>3. CASE d # c
    BY <1>1, <1>2, <2>1, <2>3 DEF KnownOf, ServedInv, ClientTypes
  <2> QED
    BY <2>2, <2>3
<1> QED
  BY <1>3, <1>4, <1>5, <1>6 DEF ServedInv

LEMMA ConnectServed ==
  ASSUME ServedInv, NEW c \in Client, NEW q \in Ask(c), Connect(c, q)
  PROVE  ServedInv'
<1>0. /\ ClientTypes /\ ServerTypes /\ Queued /\ ClientsKnown
      /\ q \in Request /\ cpc[c] = "idle" /\ UNCHANGED <<running, spc, cur, executed>>
  BY AskedIsRequest DEF ServedInv, Connect
<1>1. KnownOf(c) /\ link[c] = "none" /\ c \notin executed /\ exit[c] = "none"
  BY <1>0 DEF ClientsKnown, KnownOf
<1>2. c # cur /\ \A i \in DOMAIN backlog : backlog[i] # c
  BY <1>0, <1>1, DaemonAssumption DEF Queued
<1>3. CASE running
  <2>1. /\ cpc' = [cpc EXCEPT ![c] = "connected"] /\ link' = [link EXCEPT ![c] = "open"]
        /\ request' = [request EXCEPT ![c] = q] /\ backlog' = Append(backlog, c) /\ UNCHANGED exit
    BY <1>3 DEF Connect
  <2>2. ClientTypes'
    BY <1>0, <2>1 DEF ClientTypes
  <2>3. ServerTypes'
    BY <1>0, <2>1 DEF ServerTypes
  <2>4. /\ backlog \in Seq(Client) /\ Len(backlog) \in Nat /\ DOMAIN backlog = 1..Len(backlog)
        /\ DOMAIN backlog' = 1..Len(backlog) + 1 /\ backlog'[Len(backlog) + 1] = c
        /\ \A i \in 1..Len(backlog) : backlog'[i] = backlog[i] /\ backlog[i] \in Client
    BY <1>0, <2>1 DEF ServerTypes
  <2>5. \A i \in DOMAIN backlog' : link'[backlog'[i]] = "open" /\ backlog'[i] # cur'
    <3> SUFFICES ASSUME NEW i \in DOMAIN backlog' PROVE link'[backlog'[i]] = "open" /\ backlog'[i] # cur'
      OBVIOUS
    <3>1. CASE i = Len(backlog) + 1
      BY <1>0, <1>2, <2>1, <2>4, <3>1 DEF ClientTypes
    <3>2. CASE i \in 1..Len(backlog)
      BY <1>0, <1>2, <2>1, <2>4, <3>2 DEF Queued, ClientTypes
    <3> QED
      BY <2>4, <3>1, <3>2
  <2>6. \A i, j \in DOMAIN backlog' : backlog'[i] = backlog'[j] => i = j
    BY <1>0, <1>2, <2>4 DEF Queued
  <2>7. \A d \in Client \ {c} : cpc'[d] = cpc[d] /\ link'[d] = link[d] /\ request'[d] = request[d]
    BY <1>0, <2>1 DEF ClientTypes
  <2>8. Queued'
    BY <1>0, <1>2, <2>5, <2>6, <2>7 DEF Queued, Occupied
  <2>9. ClientsKnown'
    <3> SUFFICES ASSUME NEW d \in Client PROVE KnownOf(d)'
      BY DEF ClientsKnown
    <3>1. CASE d = c
      <4>1. cpc'[c] = "connected" /\ link'[c] = "open" /\ request'[c] = q /\ exit'[c] = "none"
        BY <1>0, <1>1, <2>1 DEF ClientTypes
      <4> QED
        BY <1>0, <3>1, <4>1 DEF KnownOf, Responses
    <3>2. CASE d # c
      BY <1>0, <2>1, <2>7, <3>2 DEF KnownOf, ClientsKnown
    <3> QED
      BY <3>1, <3>2
  <2> QED
    BY <2>2, <2>3, <2>8, <2>9 DEF ServedInv
<1>4. CASE ~running
  <2>1. /\ cpc' = [cpc EXCEPT ![c] = "done"] /\ exit' = [exit EXCEPT ![c] = "ENGINE_NOT_RUNNING"]
        /\ UNCHANGED <<request, link, backlog>>
    BY <1>4 DEF Connect, Leave
  <2>2. ClientTypes'
    BY <1>0, <2>1 DEF ClientTypes, Exit
  <2>3. ServerTypes'
    BY <1>0, <2>1 DEF ServerTypes
  <2>7. \A d \in Client \ {c} : cpc'[d] = cpc[d] /\ exit'[d] = exit[d]
    BY <1>0, <2>1 DEF ClientTypes
  <2>8. Queued'
    BY <1>0, <1>2, <2>1, <2>7 DEF Queued, Occupied
  <2>9. ClientsKnown'
    <3> SUFFICES ASSUME NEW d \in Client PROVE KnownOf(d)'
      BY DEF ClientsKnown
    <3>1. CASE d = c
      BY <1>0, <1>1, <2>1, <3>1 DEF KnownOf, ClientTypes, Responses
    <3>2. CASE d # c
      BY <1>0, <2>1, <2>7, <3>2 DEF KnownOf, ClientsKnown
    <3> QED
      BY <3>1, <3>2
  <2> QED
    BY <2>2, <2>3, <2>8, <2>9 DEF ServedInv
<1> QED
  BY <1>3, <1>4

LEMMA AnswerServed ==
  ASSUME ServedInv, spc \in Occupied \ {"read"}, NEW b \in BOOLEAN, Answer(b), executed' = executed \cup {cur},
         UNCHANGED <<running, backlog, cpc, exit>>
  PROVE  ServedInv'
<1>0. /\ ClientTypes /\ ServerTypes /\ Queued /\ ClientsKnown
      /\ cur \in Client /\ link[cur] = "open" /\ cpc[cur] \in {"waiting", "done"} /\ cur' = NoClient /\ spc' = "poll"
  BY DEF ServedInv, Queued, Answer
<1>1. KnownOf(cur) /\ request[cur] \in Request
  BY <1>0 DEF ClientsKnown, KnownOf
<1>2. /\ request[cur].cmd \in Command /\ Response(request[cur].cmd, b) \in Responses
  BY <1>1, RequestIs, ResponseIs
<1>3. \A d \in Client \ {cur} : link'[d] = link[d] /\ request'[d] = request[d] /\ (d \in executed' <=> d \in executed)
  BY <1>0 DEF Answer, ClientTypes
<1>4. ClientTypes'
  <2>1. link' \in [Client -> {"none", "open", "closed"} \cup Responses]
    BY <1>0, <1>2 DEF Answer, ClientTypes
  <2>2. request' \in [Client -> Request \cup {NoRequest}]
    BY <1>0 DEF Answer, ClientTypes
  <2> QED
    BY <1>0, <2>1, <2>2 DEF ClientTypes
<1>5. ServerTypes'
  BY <1>0 DEF ServerTypes
<1>6. \A i \in DOMAIN backlog : backlog[i] \in Client \ {cur}
  BY <1>0 DEF ServerTypes, Queued
<1>7. Queued'
  BY <1>0, <1>3, <1>6, DaemonAssumption DEF Queued, Occupied
<1>8. ClientsKnown'
  <2> SUFFICES ASSUME NEW d \in Client PROVE KnownOf(d)'
    BY DEF ClientsKnown
  <2>1. CASE d # cur
    BY <1>0, <1>3, <2>1 DEF KnownOf, ClientsKnown
  <2>2. CASE d = cur /\ cpc[cur] = "done"
    <3>1. link'[cur] = "none"
      BY <1>0, <2>2 DEF Answer, ClientTypes
    <3> QED
      BY <1>0, <1>1, <2>2, <3>1 DEF KnownOf, Responses
  <2>3. CASE d = cur /\ cpc[cur] # "done"
    <3>1. link'[cur] = Response(request[cur].cmd, b) /\ request'[cur] = request[cur]
      BY <1>0, <2>3 DEF Answer, ClientTypes
    <3> QED
      BY <1>0, <1>1, <1>2, <2>3, <3>1 DEF KnownOf, Responses
  <2> QED
    BY <2>1, <2>2, <2>3
<1> QED
  BY <1>4, <1>5, <1>7, <1>8 DEF ServedInv

LEMMA AcceptedIs ==
  ASSUME NEW cmd \in Command, NEW b \in BOOLEAN
  PROVE  ExitCode(cmd, Response(cmd, b)) = IF b THEN "SUCCESS" ELSE "COMMAND_FAILED"
BY DEF ExitCode, Response, AcceptedByQuery, AcceptedByControl, Command, Query

LEMMA ExitIs ==
  ASSUME NEW cmd, NEW rsp \in {"none", "open", "closed"} \cup Responses, ExitCode(cmd, rsp) = "SUCCESS"
  PROVE  rsp \in Responses
BY DEF ExitCode, AcceptedByQuery, AcceptedByControl, Responses

LEMMA ReceiveServed ==
  ASSUME ServedInv, NEW c \in Client, Receive(c)
  PROVE  ServedInv'
<1>0. /\ ClientTypes /\ ServerTypes /\ Queued /\ ClientsKnown /\ cpc[c] = "waiting" /\ link[c] # "open"
      /\ UNCHANGED <<running, spc, cur, backlog, executed>>
  BY DEF ServedInv, Receive, serverVars
<1>1. /\ cpc' = [cpc EXCEPT ![c] = "done"] /\ exit' = [exit EXCEPT ![c] = ExitCode(request[c].cmd, link[c])]
      /\ link' = [link EXCEPT ![c] = "none"] /\ request' = [request EXCEPT ![c] = NoRequest]
  BY DEF Receive, Leave
<1>2. ExitCode(request[c].cmd, link[c]) \in {"SUCCESS", "COMMAND_FAILED"}
  BY DEF ExitCode
<1>3. \A d \in Client \ {c} : cpc'[d] = cpc[d] /\ exit'[d] = exit[d] /\ link'[d] = link[d] /\ request'[d] = request[d]
  BY <1>0, <1>1 DEF ClientTypes
<1>4. cpc'[c] = "done" /\ link'[c] = "none" /\ exit'[c] = ExitCode(request[c].cmd, link[c])
  BY <1>0, <1>1 DEF ClientTypes
<1>5. ClientTypes'
  BY <1>0, <1>1, <1>2 DEF ClientTypes, Exit
<1>6. ServerTypes'
  BY <1>0 DEF ServerTypes
<1>7. \A i \in DOMAIN backlog : backlog[i] \in Client \ {c}
  BY <1>0 DEF ServerTypes, Queued
<1>8. Queued'
  BY <1>0, <1>3, <1>7 DEF Queued, Occupied
<1>9. ClientsKnown'
  <2> SUFFICES ASSUME NEW d \in Client PROVE KnownOf(d)'
    BY DEF ClientsKnown
  <2>1. CASE d # c
    BY <1>0, <1>3, <2>1 DEF KnownOf, ClientsKnown
  <2>2. CASE d = c
    <3>1. exit'[c] = "SUCCESS" => c \in executed
      BY <1>0, <1>4, ExitIs DEF ClientTypes, ClientsKnown, KnownOf
    <3> QED
      BY <1>0, <1>2, <1>4, <2>2, <3>1 DEF KnownOf, Responses
  <2> QED
    BY <2>1, <2>2
<1> QED
  BY <1>5, <1>6, <1>8, <1>9 DEF ServedInv

\* The server goes on with the client it has, or takes the next.
LEMMA ServerGoesOn ==
  ASSUME ServedInv, Accept \/ LeaveLoop \/ ReadRequest
  PROVE  ServedInv'
<1>0. ClientTypes /\ ServerTypes /\ Queued /\ ClientsKnown
  BY DEF ServedInv
<1>1. CASE Accept
  <2>1. /\ backlog # <<>> /\ cur' = Head(backlog) /\ backlog' = Tail(backlog) /\ spc' = "read"
        /\ UNCHANGED <<running, cpc, request, link, exit, executed>>
    BY <1>1 DEF Accept, clientVars
  <2>2. /\ backlog \in Seq(Client) /\ DOMAIN backlog = 1..Len(backlog) /\ Len(backlog) \in Nat \ {0}
        /\ cur' = backlog[1] /\ cur' \in Client /\ backlog' \in Seq(Client) /\ DOMAIN backlog' = 1..Len(backlog) - 1
        /\ \A i \in 1..Len(backlog) - 1 : backlog'[i] = backlog[i + 1] /\ i + 1 \in DOMAIN backlog
    BY <1>0, <2>1 DEF ServerTypes
  <2>3. ClientTypes' /\ ServerTypes'
    BY <1>0, <2>1, <2>2 DEF ClientTypes, ServerTypes
  <2>4. ClientsKnown'
    BY <1>0, <2>1 DEF ClientsKnown, KnownOf
  <2>5. \A i \in DOMAIN backlog' : link'[backlog'[i]] = "open" /\ backlog'[i] # cur'
    BY <1>0, <2>1, <2>2 DEF Queued
  <2>6. \A i, j \in DOMAIN backlog' : backlog'[i] = backlog'[j] => i = j
    <3> SUFFICES ASSUME NEW i \in DOMAIN backlog', NEW j \in DOMAIN backlog', backlog'[i] = backlog'[j] PROVE i = j
      OBVIOUS
    <3>1. backlog[i + 1] = backlog[j + 1] /\ i + 1 \in DOMAIN backlog /\ j + 1 \in DOMAIN backlog
      BY <2>2
    <3>2. i + 1 = j + 1
      BY <1>0, <3>1 DEF Queued
    <3>3. i \in Int /\ j \in Int
      BY <2>2
    <3> QED
      BY <3>2, <3>3
  <2>7. link'[cur'] = "open"
    BY <1>0, <2>1, <2>2 DEF Queued
  <2>8. Queued'
    BY <2>1, <2>2, <2>5, <2>6, <2>7 DEF Queued, Occupied
  <2> QED
    BY <2>3, <2>4, <2>8 DEF ServedInv
<1>2. CASE LeaveLoop
  <2>1. UNCHANGED <<running, cur, backlog, cpc, request, link, exit, executed>> /\ spc = "poll" /\ spc' = "exited"
    BY <1>2 DEF LeaveLoop, clientVars
  <2>2. ClientTypes' /\ ServerTypes'
    BY <1>0, <2>1 DEF ClientTypes, ServerTypes
  <2>3. ClientsKnown'
    BY <1>0, <2>1 DEF ClientsKnown, KnownOf
  <2>4. Queued'
    BY <1>0, <2>1 DEF Queued, Occupied
  <2> QED
    BY <2>2, <2>3, <2>4 DEF ServedInv
<1>3. CASE ReadRequest
  <2>0. spc = "read" /\ cur \in Client /\ link[cur] = "open" /\ UNCHANGED <<running, backlog, cpc, request, exit, executed>>
    BY <1>0, <1>3 DEF ReadRequest, Queued, Occupied
  <2>1. CASE cpc[cur] \in {"waiting", "done"} /\ spc' = "execute" /\ UNCHANGED <<link, cur>>
    <3>1. ClientTypes' /\ ServerTypes'
      BY <1>0, <2>0, <2>1 DEF ClientTypes, ServerTypes
    <3>2. ClientsKnown'
      BY <1>0, <2>0, <2>1 DEF ClientsKnown, KnownOf
    <3>3. Queued'
      BY <1>0, <2>0, <2>1 DEF Queued, Occupied
    <3> QED
      BY <3>1, <3>2, <3>3 DEF ServedInv
  <2>2. CASE cpc[cur] = "gone" /\ spc' = "poll" /\ cur' = NoClient /\ link' = [link EXCEPT ![cur] = "closed"]
    <3>1. ClientTypes' /\ ServerTypes'
      BY <1>0, <2>0, <2>2 DEF ClientTypes, ServerTypes
    <3>2. link'[cur] = "closed" /\ \A d \in Client \ {cur} : link'[d] = link[d]
      BY <1>0, <2>0, <2>2 DEF ClientTypes
    <3>3. ClientsKnown'
      <4> SUFFICES ASSUME NEW d \in Client PROVE KnownOf(d)'
        BY DEF ClientsKnown
      <4>1. CASE d = cur
        BY <1>0, <2>0, <2>2, <3>2, <4>1 DEF KnownOf, ClientsKnown, Responses
      <4>2. CASE d # cur
        BY <1>0, <2>0, <2>2, <3>2, <4>2 DEF KnownOf, ClientsKnown
      <4> QED
        BY <4>1, <4>2
    <3>4. \A i \in DOMAIN backlog : backlog[i] \in Client \ {cur}
      BY <1>0 DEF ServerTypes, Queued
    <3>5. Queued'
      BY <1>0, <2>0, <2>2, <3>2, <3>4, DaemonAssumption DEF Queued, Occupied
    <3> QED
      BY <3>1, <3>3, <3>5 DEF ServedInv
  <2> QED
    BY <1>3, <2>1, <2>2 DEF ReadRequest
<1> QED
  BY <1>1, <1>2, <1>3

\* A command is carried out but not answered yet.
LEMMA CommandServed ==
  ASSUME ServedInv, spc = "execute", executed' = executed \cup {cur}, UNCHANGED <<running, cur, backlog, cpc, request, link, exit>>,
         \/ spc' = "save" /\ request[cur].cmd = "reload"
         \/ spc' = "join" /\ request[cur].cmd = "stop"
         \/ spc' = "sleep" /\ request[cur].cmd = "start"
  PROVE  ServedInv'
<1>0. /\ ClientTypes /\ ServerTypes /\ Queued /\ ClientsKnown
      /\ cur \in Client /\ link[cur] = "open" /\ cpc[cur] \in {"waiting", "done"}
  BY DEF ServedInv, Queued, Occupied
<1>1. ClientTypes' /\ ServerTypes'
  BY <1>0 DEF ClientTypes, ServerTypes
<1>2. ClientsKnown'
  BY <1>0 DEF ClientsKnown, KnownOf
<1>3. Queued'
  BY <1>0 DEF Queued, Occupied
<1> QED
  BY <1>1, <1>2, <1>3 DEF ServedInv

LEMMA ServerServed ==
  ASSUME ServedInv, Server
  PROVE  ServedInv'
<1>0. ServedInv /\ Queued /\ Occupied = {"read", "execute", "save", "join", "sleep"}
  BY DEF ServedInv, Occupied
<1>1. CASE Accept \/ LeaveLoop \/ ReadRequest
  BY <1>1, ServerGoesOn
<1>2. CASE Reload
  <2>1. /\ spc = "execute" /\ request[cur].cmd = "reload" /\ executed' = executed \cup {cur} /\ UNCHANGED <<running, backlog, cpc, exit>>
        /\ (spc' = "save" /\ UNCHANGED <<link, request, cur>>) \/ Answer(FALSE)
    BY <1>2 DEF Reload
  <2> QED
    BY <1>0, <2>1, CommandServed, AnswerServed
<1>3. CASE ReloadSaved \/ StopJoined \/ StartSlept
  <2>1. spc \in {"save", "join", "sleep"} /\ Answer(TRUE) /\ UNCHANGED <<running, backlog, cpc, exit, executed>>
    BY <1>3 DEF ReloadSaved, StopJoined, StartSlept
  <2>2. executed' = executed \cup {cur}
    BY <1>0, <2>1 DEF Queued
  <2> QED
    BY <1>0, <2>1, <2>2, AnswerServed
<1>4. CASE Stop \/ Start
  <2>1. /\ spc = "execute" /\ executed' = executed \cup {cur} /\ UNCHANGED <<running, cur, backlog, cpc, request, link, exit>>
        /\ (spc' = "join" /\ request[cur].cmd = "stop") \/ (spc' = "sleep" /\ request[cur].cmd = "start")
    <3>1. CASE Stop
      BY <3>1 DEF Stop, clientVars
    <3>2. CASE Start
      BY <3>2 DEF Start, clientVars
    <3> QED
      BY <1>4, <3>1, <3>2
  <2> QED
    BY <2>1, CommandServed
<1>5. CASE Get
  <2>1. spc = "execute" /\ Answer(TRUE) /\ executed' = executed \cup {cur} /\ UNCHANGED <<running, backlog, cpc, exit>>
    BY <1>5 DEF Get
  <2> QED
    BY <1>0, <2>1, AnswerServed
<1> QED
  BY <1>1, <1>2, <1>3, <1>4, <1>5 DEF Server

\* The process ends: nobody is served and nobody waits.
LEMMA ProcessServed ==
  ASSUME ServedInv, backlog' = <<>>, (spc' \in {"off", "exited"} /\ cur' = NoClient) \/ UNCHANGED <<spc, cur>>,
         running' \in BOOLEAN, UNCHANGED <<cpc, request, exit, executed>>, link' \in [Client -> {"none", "open", "closed"} \cup Responses],
         \A c \in Client : link'[c] = link[c] \/ (link[c] = "open" /\ link'[c] = "closed"),
         UNCHANGED <<spc, cur>> /\ spc \in Occupied => link'[cur] = link[cur]
  PROVE  ServedInv'
<1>0. /\ ClientTypes /\ ServerTypes /\ Queued /\ ClientsKnown
  BY DEF ServedInv
<1>1. <<>> \in Seq(Client)
  OBVIOUS
<1>2. ClientTypes' /\ ServerTypes'
  BY <1>0, <1>1 DEF ClientTypes, ServerTypes
<1>3. ClientsKnown'
  <2> SUFFICES ASSUME NEW d \in Client PROVE KnownOf(d)'
    BY DEF ClientsKnown
  <2>1. CASE link'[d] = link[d]
    BY <1>0, <2>1 DEF ClientsKnown, KnownOf
  <2>2. CASE link[d] = "open" /\ link'[d] = "closed"
    BY <1>0, <2>2 DEF ClientsKnown, KnownOf, Responses
  <2> QED
    BY <2>1, <2>2
<1>4. DOMAIN backlog' = {}
  OBVIOUS
<1>5. Queued'
  <2>1. CASE spc' \in {"off", "exited"} /\ cur' = NoClient
    BY <1>0, <1>4, <2>1 DEF Queued, Occupied
  <2>2. CASE UNCHANGED <<spc, cur>>
    <3>1. spc' = spc /\ cur' = cur /\ cpc' = cpc /\ request' = request /\ executed' = executed
          /\ (spc \in Occupied => link'[cur] = link[cur])
      BY <2>2
    <3> QED
      BY <1>0, <1>4, <3>1 DEF Queued, Occupied
  <2> QED
    BY <2>1, <2>2
<1> QED
  BY <1>2, <1>3, <1>5 DEF ServedInv

\* main() changes whom the server serves only when it opens or closes the socket.
LEMMA MainServed ==
  ASSUME ServedInv, spc # "off" => main \in {"serving", "stopping"},
         \/ StartInstall \/ StartFinish \/ Boot \/ BootStart \/ Serve \/ Quit \/ Ending \/ Crash
  PROVE  ServedInv'
<1>0. /\ ClientTypes /\ ServerTypes /\ Queued /\ ClientsKnown
  BY DEF ServedInv
<1>1. CASE StartInstall \/ StartFinish \/ Boot \/ BootStart \/ Destroy
  <2>1. UNCHANGED <<running, spc, cur, backlog, cpc, request, link, exit, executed>>
    <3>1. UNCHANGED <<serverVars, clientVars, executed>>
      BY <1>1 DEF StartInstall, StartFinish, Boot, BootStart, Destroy
    <3> QED
      BY <3>1 DEF serverVars, clientVars
  <2> QED
    BY <1>0, <2>1 DEF ServedInv, ClientTypes, ServerTypes, Queued, ClientsKnown, KnownOf
<1>2. CASE Serve \/ \E enabled \in BOOLEAN : SaveOnExit(enabled)
  <2>1. /\ UNCHANGED <<cur, backlog, cpc, request, link, exit, executed>> /\ running' \in {running, TRUE}
        /\ spc \in {"off", "exited"} /\ spc' \in {"off", "poll"}
    <3>1. CASE Serve
      <4>1. UNCHANGED <<cur, backlog, cpc, request, link, exit, executed>>
        BY <3>1 DEF Serve, clientVars
      <4>2. main = "starting" /\ running' \in {running, TRUE} /\ spc' \in {spc, "poll"}
        BY <3>1 DEF Serve
      <4> QED
        BY <4>1, <4>2
    <3>2. ASSUME NEW enabled \in BOOLEAN, SaveOnExit(enabled)
          PROVE  /\ UNCHANGED <<cur, backlog, cpc, request, link, exit, executed>> /\ running' \in {running, TRUE}
                 /\ spc \in {"off", "exited"} /\ spc' \in {"off", "poll"}
      BY <3>2 DEF SaveOnExit, clientVars
    <3> QED
      BY <1>2, <3>1, <3>2
  <2>2. ClientTypes' /\ ServerTypes'
    BY <1>0, <2>1 DEF ClientTypes, ServerTypes
  <2>3. ClientsKnown'
    BY <1>0, <2>1 DEF ClientsKnown, KnownOf
  <2>4. Queued'
    BY <1>0, <2>1 DEF Queued, Occupied
  <2> QED
    BY <2>2, <2>3, <2>4 DEF ServedInv
<1>3. CASE Quit
  <2>1. /\ backlog' = <<>> /\ running' = FALSE /\ UNCHANGED <<spc, cur, cpc, request, exit, executed>>
        /\ link' = [c \in Client |-> IF \E i \in DOMAIN backlog : backlog[i] = c THEN "closed" ELSE link[c]]
    BY <1>3 DEF Quit
  <2>2. link' \in [Client -> {"none", "open", "closed"} \cup Responses]
    BY <1>0, <2>1 DEF ClientTypes
  <2>3. \A c \in Client : link'[c] = link[c] \/ (link[c] = "open" /\ link'[c] = "closed")
    BY <1>0, <2>1 DEF Queued
  <2>4. spc \in Occupied => link'[cur] = link[cur]
    BY <1>0, <2>1 DEF Queued
  <2> QED
    BY <2>1, <2>2, <2>3, <2>4, ProcessServed
<1>4. CASE Exited \/ Crash
  <2>1. /\ backlog' = <<>> /\ running' = FALSE /\ spc' = "off" /\ cur' = NoClient
    BY <1>4 DEF Exited, Crash, Fresh
  <2>2. /\ UNCHANGED <<cpc, request, exit, executed>>
        /\ link' = link \/ link' = [c \in Client |-> IF link[c] = "open" THEN "closed" ELSE link[c]]
    BY <1>4 DEF Exited, Crash, clientVars
  <2>3. link' \in [Client -> {"none", "open", "closed"} \cup Responses]
    BY <1>0, <2>2 DEF ClientTypes
  <2>4. \A c \in Client : link'[c] = link[c] \/ (link[c] = "open" /\ link'[c] = "closed")
    BY <1>0, <2>2 DEF ClientTypes
  <2>5. ~(spc' = spc /\ spc \in Occupied)
    BY <2>1 DEF Occupied
  <2> QED
    BY <2>1, <2>2, <2>3, <2>4, <2>5, ProcessServed
<1> QED
  BY <1>1, <1>2, <1>3, <1>4 DEF Ending

LEMMA CtlServed ==
  ASSUME ServedInv, NEW c \in Client, Ctl(c)
  PROVE  ServedInv'
BY ConnectServed, ReceiveServed, ClientGoesOn DEF Ctl

LEMMA SavedIsSession ==
  ASSUME NEW d \in Session
  PROVE  Whole(d) \in {Absent, Torn} \cup {Whole(e) : e \in Session}
OBVIOUS

LEMMA SessionIs ==
  ASSUME NEW p \in Path \cup {NoPath}, NEW b \in BOOLEAN
  PROVE  [path |-> p, running |-> b] \in Session
BY DEF Session

LEMMA FileFields ==
  ASSUME MainTypes
  PROVE  sessionFile.path \in Path \cup {NoPath} /\ sessionFile.running \in BOOLEAN
<1>1. CASE sessionFile \in {Absent, Torn}
  <2>1. Absent.path = NoPath /\ Absent.running = FALSE /\ Torn.path = NoPath /\ Torn.running = FALSE
    BY DEF Absent, Torn
  <2> QED
    BY <1>1, <2>1
<1>2. ASSUME NEW d \in Session, sessionFile = Whole(d)
      PROVE  sessionFile.path \in Path \cup {NoPath} /\ sessionFile.running \in BOOLEAN
  BY <1>2 DEF Session, Whole
<1> QED
  BY <1>1, <1>2 DEF MainTypes

\* What the server does to main()'s part of the state.
LEMMA ServerLives ==
  ASSUME ServedInv, LifeInv, Server
  PROVE  LifeInv'
<1>0. MainTypes /\ StartKnown /\ Queued /\ ClientsKnown /\ ServerTypes
  BY DEF LifeInv, ServedInv
<1>1. CASE Accept \/ LeaveLoop \/ ReadRequest \/ StartSlept \/ Get
  <2>1. /\ UNCHANGED <<main, sessionFile, data, promised, config, thread, engine, hook, handler>> /\ spc # "off"
    <3>1. UNCHANGED <<main, sessionVars, engineVars>> /\ spc # "off"
      BY <1>1 DEF Accept, LeaveLoop, ReadRequest, StartSlept, Get
    <3> QED
      BY <3>1 DEF sessionVars, engineVars
  <2> QED
    BY <1>0, <2>1 DEF LifeInv, MainTypes, StartKnown
<1>2. CASE Reload
  <2>1. /\ UNCHANGED <<main, promised, thread, engine, hook, handler>> /\ spc # "off"
        /\ \/ UNCHANGED <<config, sessionFile, data>>
           \/ Asked \in Path /\ config' = Asked /\ data' = [path |-> Asked, running |-> Joinable] /\ sessionFile' = Torn
    BY <1>2 DEF Reload
  <2>2. Asked \in Path => Asked # NoPath /\ [path |-> Asked, running |-> Joinable] \in Session
    BY DaemonAssumption DEF Session, Joinable
  <2>3. MainTypes'
    BY <1>0, <2>1, <2>2 DEF MainTypes
  <2>4. StartKnown'
    BY <1>0, <2>1, <2>2 DEF StartKnown
  <2> QED
    BY <2>3, <2>4 DEF LifeInv
<1>3. CASE ReloadSaved
  <2>1. /\ UNCHANGED <<main, data, promised, config, thread, engine, hook, handler>> /\ spc # "off" /\ sessionFile' = Whole(data)
    BY <1>3 DEF ReloadSaved, engineVars
  <2>2. MainTypes'
    BY <1>0, <2>1, SavedIsSession DEF MainTypes
  <2>3. StartKnown'
    BY <1>0, <2>1 DEF StartKnown
  <2> QED
    BY <2>2, <2>3 DEF LifeInv
<1>4. CASE Stop \/ StopJoined \/ Start
  <2>1. /\ UNCHANGED <<main, sessionFile, data, promised, config>> /\ spc # "off"
        /\ thread' \in {thread, "none", "starting"} /\ engine' \in {engine, "Stopped"}
        /\ hook' \in BOOLEAN /\ handler' \in BOOLEAN
    BY <1>0, <1>4 DEF Stop, StopJoined, Start, StopEngine, sessionVars, MainTypes
  <2>2. MainTypes'
    BY <1>0, <2>1 DEF MainTypes
  <2>3. StartKnown'
    BY <1>0, <2>1 DEF StartKnown
  <2> QED
    BY <2>2, <2>3 DEF LifeInv
<1> QED
  BY <1>1, <1>2, <1>3, <1>4 DEF Server

LEMMA BootLives ==
  ASSUME LifeInv, Boot
  PROVE  LifeInv'
<1>0. MainTypes /\ StartKnown /\ sessionFile.path \in Path \cup {NoPath} /\ sessionFile.running \in BOOLEAN
  BY FileFields DEF LifeInv
<1>1. /\ main = "down" /\ main' = "restored" /\ promised' = (ValidSession(sessionFile) /\ sessionFile.running)
      /\ UNCHANGED <<thread, engine, hook, handler, spc>>
      /\ \/ sessionFile.path \in Path /\ data' = [path |-> sessionFile.path, running |-> Joinable] /\ config' = sessionFile.path /\ sessionFile' = Torn
         \/ data' = [path |-> sessionFile.path, running |-> ValidSession(sessionFile) /\ sessionFile.running] /\ UNCHANGED <<config, sessionFile>>
  BY DEF Boot, serverVars
<1>2. data' \in Session
  <2>1. (ValidSession(sessionFile) /\ sessionFile.running) \in BOOLEAN /\ Joinable \in BOOLEAN
    BY DEF Joinable
  <2> QED
    BY <1>0, <1>1, <2>1, SessionIs
<1>3. promised' \in BOOLEAN
  BY <1>1
<1>4. MainTypes'
  BY <1>0, <1>1, <1>2, <1>3 DEF MainTypes
<1>5. StartKnown'
  BY <1>0, <1>1 DEF StartKnown
<1> QED
  BY <1>4, <1>5 DEF LifeInv

LEMMA MainLives ==
  ASSUME LifeInv, StartInstall \/ StartFinish \/ BootStart \/ Serve \/ Quit \/ Ending \/ Crash
  PROVE  LifeInv'
<1>0. MainTypes /\ StartKnown
  BY DEF LifeInv
<1>1. CASE StartInstall \/ StartFinish
  <2>1. /\ UNCHANGED <<main, sessionFile, data, promised, config, spc>> /\ thread # "none" /\ thread' \in {"installed", "done"}
        /\ engine' \in {"Loading", "Running"} /\ hook' \in BOOLEAN /\ handler' \in BOOLEAN
    BY <1>0, <1>1 DEF StartInstall, StartFinish, sessionVars, serverVars, MainTypes
  <2>2. MainTypes'
    BY <1>0, <2>1 DEF MainTypes
  <2>3. StartKnown'
    BY <1>0, <2>1 DEF StartKnown
  <2> QED
    BY <2>2, <2>3 DEF LifeInv
<1>2. CASE BootStart
  <2>1. /\ main' = "starting" /\ UNCHANGED <<data, promised, config, engine, hook, handler, spc>>
        /\ sessionFile' \in {sessionFile, Whole(data)} /\ thread' \in {thread, "starting"} /\ (config = NoPath => thread' = "starting")
        /\ main = "restored"
    BY <1>2 DEF BootStart, serverVars
  <2>2. MainTypes'
    BY <1>0, <2>1, SavedIsSession DEF MainTypes
  <2>3. StartKnown'
    BY <1>0, <2>1 DEF StartKnown
  <2> QED
    BY <2>2, <2>3 DEF LifeInv
<1>3. CASE Serve
  <2>1. main' = "serving" /\ promised' = FALSE /\ UNCHANGED <<sessionFile, data, config, thread, engine, hook, handler>>
    BY <1>3 DEF Serve, engineVars
  <2> QED
    BY <1>0, <2>1 DEF LifeInv, MainTypes, StartKnown
<1>4. CASE Quit
  <2>1. main' = "stopping" /\ UNCHANGED <<sessionFile, data, promised, config, thread, engine, hook, handler, spc>>
    BY <1>4 DEF Quit, engineVars, sessionVars
  <2> QED
    BY <1>0, <2>1 DEF LifeInv, MainTypes, StartKnown
<1>5. ASSUME NEW enabled \in BOOLEAN, SaveOnExit(enabled)
      PROVE  LifeInv'
  <2>1. /\ main' = "saving" /\ sessionFile' = Torn /\ data' = [path |-> config, running |-> Joinable /\ enabled] /\ spc' = "off"
        /\ UNCHANGED <<promised, config, thread, engine, hook, handler>>
    BY <1>5 DEF SaveOnExit, engineVars
  <2>2. data' \in Session
    BY <1>0, <2>1 DEF MainTypes, Session, Joinable
  <2>3. MainTypes'
    BY <1>0, <2>1, <2>2 DEF MainTypes
  <2>4. StartKnown'
    BY <2>1 DEF StartKnown
  <2> QED
    BY <2>3, <2>4 DEF LifeInv
<1>6. CASE Destroy
  <2>1. /\ main = "saving" /\ main' = "destroying" /\ sessionFile' = Whole(data) /\ engine' = "Stopped" /\ hook' = FALSE /\ handler' = FALSE
        /\ UNCHANGED <<data, promised, config, thread, spc>>
    BY <1>6 DEF Destroy, StopEngine, serverVars
  <2>2. MainTypes'
    BY <1>0, <2>1, SavedIsSession DEF MainTypes
  <2>3. StartKnown'
    BY <1>0, <2>1 DEF StartKnown
  <2> QED
    BY <2>2, <2>3 DEF LifeInv
<1>7. CASE Exited \/ Crash
  <2>1. Fresh /\ UNCHANGED sessionFile
    BY <1>7 DEF Exited, Crash
  <2>2. NoData \in Session
    BY DEF NoData, Session
  <2>3. MainTypes'
    BY <1>0, <2>1, <2>2 DEF MainTypes, Fresh
  <2>4. StartKnown'
    BY <2>1 DEF StartKnown, Fresh
  <2> QED
    BY <2>3, <2>4 DEF LifeInv
<1> QED
  BY <1>1, <1>2, <1>3, <1>4, <1>5, <1>6, <1>7 DEF Ending

LEMMA CtlLives ==
  ASSUME NEW c \in Client, Ctl(c)
  PROVE  UNCHANGED <<main, sessionFile, data, promised, config, thread, engine, hook, handler, spc>>
<1>1. UNCHANGED <<main, sessionVars, engineVars, spc>>
  BY DEF Ctl, Connect, Send, Receive, Timeout, Interrupt, serverVars
<1> QED
  BY <1>1 DEF sessionVars, engineVars

DaemonInv == ServedInv /\ LifeInv

LEMMA DaemonStep ==
  ASSUME DaemonInv, [Next]_vars
  PROVE  DaemonInv'
<1>0. ServedInv /\ LifeInv /\ (spc # "off" => main \in {"serving", "stopping"})
  BY DEF DaemonInv, LifeInv, StartKnown
<1>1. ASSUME NEW c \in Client, Ctl(c)
      PROVE  DaemonInv'
  <2>1. LifeInv'
    BY <1>0, <1>1, CtlLives DEF LifeInv, MainTypes, StartKnown
  <2> QED
    BY <1>0, <1>1, <2>1, CtlServed DEF DaemonInv
<1>2. CASE Server
  BY <1>0, <1>2, ServerServed, ServerLives DEF DaemonInv
<1>3. CASE StartInstall \/ StartFinish \/ Boot \/ BootStart \/ Serve \/ Quit \/ Ending \/ Crash
  BY <1>0, <1>3, MainServed, MainLives, BootLives DEF DaemonInv
<1>4. CASE UNCHANGED vars
  <2>1. UNCHANGED <<main, sessionFile, data, promised, config, thread, engine, hook, handler>>
    BY <1>4 DEF vars, sessionVars, engineVars
  <2>2. UNCHANGED <<running, spc, cur, backlog, cpc, request, link, exit, executed>>
    BY <1>4 DEF vars, serverVars, clientVars
  <2>3. LifeInv'
    BY <1>0, <2>1, <2>2 DEF LifeInv, MainTypes, StartKnown
  <2>4. ServedInv'
    BY <1>0, <2>2 DEF ServedInv, ClientTypes, ServerTypes, Queued, ClientsKnown, KnownOf
  <2> QED
    BY <2>3, <2>4 DEF DaemonInv
<1> QED
  BY <1>1, <1>2, <1>3, <1>4 DEF Next

LEMMA EngineStep ==
  ASSUME DaemonInv, EngineKnown, SlowStart = FALSE, [Next]_vars
  PROVE  EngineKnown'
<1>0. /\ (spc # "off" => main \in {"serving", "stopping"})
      /\ (main \in {"down", "restored"} => thread = "none")
      /\ thread \in {"none", "starting", "installed", "done"}
      /\ spc \in {"off", "poll", "read", "execute", "save", "join", "sleep", "exited"}
      /\ (Slept => thread \in {"none", "done"})
  BY DEF DaemonInv, LifeInv, ServedInv, StartKnown, MainTypes, ServerTypes, Slept
<1>1. CASE StartInstall
  <2>1. /\ thread = "starting" /\ engine' = "Loading" /\ UNCHANGED <<main, spc, handler>>
        /\ (hook' = TRUE /\ thread' = "installed") \/ (hook' = hook /\ thread' = "done")
    BY <1>1 DEF StartInstall, serverVars
  <2> QED
    BY <1>0, <2>1 DEF EngineKnown, StateHonest
<1>2. CASE StartFinish
  <2>1. /\ thread = "installed" /\ handler' = TRUE /\ engine' = "Running" /\ thread' = "done" /\ UNCHANGED <<main, spc, hook>>
    BY <1>2 DEF StartFinish, serverVars
  <2> QED
    BY <1>0, <2>1 DEF EngineKnown, StateHonest
<1>3. CASE Stop
  <2>1. /\ spc = "execute" /\ spc' = "join" /\ hook' = FALSE /\ handler' = FALSE /\ engine' = "Stopped" /\ UNCHANGED <<main, thread>>
    BY <1>3 DEF Stop, StopEngine
  <2> QED
    BY <1>0, <2>1 DEF EngineKnown, StateHonest
<1>4. CASE StopJoined
  <2>1. /\ spc = "join" /\ spc' = "poll" /\ thread' = "none" /\ UNCHANGED <<main, engine, hook, handler>>
    BY <1>4 DEF StopJoined, Answer
  <2> QED
    BY <1>0, <2>1 DEF EngineKnown, StateHonest
<1>5. CASE Start
  <2>1. /\ spc = "execute" /\ spc' = "sleep" /\ ((thread' = thread /\ thread # "none") \/ (thread' = "starting" /\ thread = "none"))
        /\ UNCHANGED <<main, engine, hook, handler>>
    BY <1>5 DEF Start, Joinable
  <2> QED
    BY <1>0, <2>1 DEF EngineKnown, StateHonest
<1>6. CASE StartSlept
  <2>1. thread \in {"none", "done"} /\ spc' = "poll" /\ UNCHANGED <<main, thread, engine, hook, handler>>
    BY <1>0, <1>6 DEF StartSlept, Answer, engineVars
  <2> QED
    BY <2>1 DEF EngineKnown, StateHonest
<1>7. CASE Accept \/ LeaveLoop \/ ReadRequest \/ Reload \/ ReloadSaved \/ Get
  <2>1. /\ spc \in {"poll", "read", "execute", "save"} /\ spc' \in {"read", "exited", "execute", "poll", "save"}
        /\ UNCHANGED <<main, thread, engine, hook, handler>>
    BY <1>7 DEF Accept, LeaveLoop, ReadRequest, Reload, ReloadSaved, Get, Answer, engineVars
  <2> QED
    BY <1>0, <2>1 DEF EngineKnown, StateHonest
<1>8. CASE Boot \/ BootStart
  <2>1. /\ main \in {"down", "restored"} /\ (main' = "starting" \/ (main' = "restored" /\ thread' = thread))
        /\ thread' \in {thread, "starting"} /\ UNCHANGED <<spc, engine, hook, handler>>
    BY <1>8 DEF Boot, BootStart, serverVars
  <2> QED
    BY <1>0, <2>1 DEF EngineKnown, StateHonest
<1>9. CASE Serve
  <2>1. thread \in {"none", "done"} /\ main = "starting" /\ spc' \in {spc, "poll"} /\ UNCHANGED <<thread, engine, hook, handler>>
    BY <1>0, <1>9 DEF Serve, engineVars
  <2> QED
    BY <1>0, <2>1 DEF EngineKnown, StateHonest
<1>10. CASE Quit
  <2>1. main = "serving" /\ UNCHANGED <<spc, thread, engine, hook, handler>>
    BY <1>10 DEF Quit, engineVars
  <2> QED
    BY <2>1 DEF EngineKnown, StateHonest
<1>11. ASSUME NEW enabled \in BOOLEAN, SaveOnExit(enabled)
       PROVE  EngineKnown'
  <2>1. main = "stopping" /\ spc \in {"off", "exited"} /\ spc' = "off" /\ UNCHANGED <<thread, engine, hook, handler>>
    BY <1>11 DEF SaveOnExit, engineVars
  <2> QED
    BY <2>1 DEF EngineKnown, StateHonest
<1>12. CASE Destroy
  <2>1. /\ main = "saving" /\ hook' = FALSE /\ handler' = FALSE /\ engine' = "Stopped" /\ UNCHANGED <<thread, spc>>
    BY <1>12 DEF Destroy, StopEngine, serverVars
  <2> QED
    BY <1>0, <2>1 DEF EngineKnown, StateHonest
<1>13. CASE Exited \/ Crash
  <2>1. Fresh
    BY <1>13 DEF Exited, Crash
  <2> QED
    BY <2>1 DEF EngineKnown, StateHonest, Fresh
<1>14. ASSUME NEW c \in Client, Ctl(c)
       PROVE  EngineKnown'
  BY <1>14, CtlLives DEF EngineKnown, StateHonest
<1>15. CASE UNCHANGED vars
  BY <1>15 DEF EngineKnown, StateHonest, vars, engineVars, serverVars
<1> QED
  BY <1>1, <1>2, <1>3, <1>4, <1>5, <1>6, <1>7, <1>8, <1>9, <1>10, <1>11, <1>12, <1>13, <1>14, <1>15 DEF Next, Server, Ending

LEMMA DaemonInvHolds == Spec => []DaemonInv
<1>1. Init => DaemonInv
  <2> SUFFICES ASSUME Init PROVE DaemonInv
    OBVIOUS
  <2>1. NoData \in Session
    BY DEF NoData, Session
  <2>2. MainTypes
    BY <2>1 DEF Init, MainTypes
  <2>3. StartKnown
    BY DEF Init, StartKnown
  <2> QED
    BY <2>2, <2>3, ServedStart DEF DaemonInv, LifeInv
<1>2. DaemonInv /\ [Next]_vars => DaemonInv'
  BY DaemonStep
<1> QED
  BY <1>1, <1>2, PTL DEF Spec

LEMMA EngineKnownHolds == SlowStart = FALSE => (Spec => []EngineKnown)
<1> SUFFICES ASSUME SlowStart = FALSE PROVE Spec => []EngineKnown
  OBVIOUS
<1>1. Init => EngineKnown
  BY DEF Init, EngineKnown, StateHonest
<1>2. DaemonInv /\ EngineKnown /\ [Next]_vars => EngineKnown'
  BY EngineStep
<1> QED
  BY <1>1, <1>2, DaemonInvHolds, PTL DEF Spec

\* An answer of the type that the command calls for is the only one that yamy-ctl takes.
LEMMA ReceiveUnderstood ==
  ASSUME DaemonInv, NEW c \in Client, Receive(c), link[c] \notin {"closed", "RspError"}
  PROVE  exit'[c] = "SUCCESS"
<1>1. ClientTypes /\ KnownOf(c) /\ cpc[c] = "waiting" /\ link[c] # "open"
  BY DEF DaemonInv, ServedInv, ClientsKnown, Receive
<1>2. link[c] \in Responses /\ request[c] \in Request
  BY <1>1 DEF ClientTypes, KnownOf
<1>3. PICK b \in BOOLEAN : link[c] = Response(request[c].cmd, b)
  BY <1>1, <1>2 DEF KnownOf
<1>4. request[c].cmd \in Command
  BY <1>2, RequestIs
<1>5. b
  BY <1>3, <1>4, ResponseIs
<1>6. ExitCode(request[c].cmd, link[c]) = "SUCCESS"
  BY <1>3, <1>4, <1>5, AcceptedIs
<1> QED
  BY <1>1, <1>6 DEF Receive, Leave, ClientTypes

\* Only an answer turns an open connection into an answered one.
LEMMA OnlyAnswers ==
  ASSUME DaemonInv, [Next]_vars, NEW c \in Client, link[c] = "open", link'[c] = "RspOk"
  PROVE  /\ cur = c /\ Answer(TRUE)
         /\ StopJoined \/ (ReloadSaved /\ request[c].cmd = "reload") \/ (StartSlept /\ request[c].cmd = "start")
<1>0. ClientTypes /\ Queued /\ ClientsKnown
  BY DEF DaemonInv, ServedInv
<1>1. ASSUME NEW d \in Client, Ctl(d) PROVE FALSE
  <2>1. ASSUME NEW q \in Ask(d), Connect(d, q) PROVE FALSE
    BY <1>0, <2>1 DEF Connect, Leave, ClientTypes
  <2>2. CASE Receive(d)
    BY <1>0, <2>2 DEF Receive, ClientTypes
  <2>3. CASE Send(d) \/ Timeout(d) \/ Interrupt(d)
    BY <2>3 DEF Send, Timeout, Interrupt
  <2> QED
    BY <1>1, <2>1, <2>2, <2>3 DEF Ctl
<1>2. CASE Accept \/ LeaveLoop \/ Stop \/ Start
  BY <1>2 DEF Accept, LeaveLoop, Stop, Start, clientVars
<1>3. CASE ReadRequest
  BY <1>0, <1>3 DEF ReadRequest, ClientTypes
<1>4. ASSUME NEW b \in BOOLEAN, Answer(b), spc \in Occupied \ {"read"}
      PROVE  cur = c /\ b /\ request[c].cmd \in Command \ Query
  <2>0. cur \in Client
    BY <1>0, <1>4 DEF Queued
  <2>1. cur = c /\ link'[c] = Response(request[c].cmd, b)
    BY <1>0, <1>4, <2>0 DEF Answer, ClientTypes
  <2>2. request[c].cmd \in Command
    BY <1>0, RequestIs DEF ClientsKnown, KnownOf
  <2> QED
    BY <2>1, <2>2, ResponseIs
<1>5. CASE Reload
  <2>1. link' = link \/ (Answer(FALSE) /\ spc = "execute")
    BY <1>5 DEF Reload
  <2> QED
    BY <1>4, <2>1 DEF Occupied
<1>6. CASE Get
  <2>1. Answer(TRUE) /\ spc = "execute" /\ request[cur].cmd \in Query
    BY <1>6 DEF Get
  <2> QED
    BY <1>4, <2>1 DEF Occupied
<1>7. CASE ReloadSaved \/ StopJoined \/ StartSlept
  <2>1. Answer(TRUE) /\ spc \in {"save", "join", "sleep"} /\ (ReloadSaved => spc = "save") /\ (StartSlept => spc = "sleep")
    BY <1>7 DEF ReloadSaved, StopJoined, StartSlept
  <2>2. cur = c
    BY <1>4, <2>1 DEF Occupied
  <2> QED
    BY <1>0, <1>7, <2>1, <2>2 DEF Queued
<1>8. CASE StartInstall \/ StartFinish \/ Boot \/ BootStart \/ Serve \/ Ending
  BY <1>8 DEF StartInstall, StartFinish, Boot, BootStart, Serve, Ending, SaveOnExit, Destroy, Exited, clientVars
<1>9. CASE Quit \/ Crash
  BY <1>9 DEF Quit, Crash
<1>10. CASE UNCHANGED vars
  BY <1>10 DEF vars, clientVars
<1> QED
  BY <1>1, <1>2, <1>3, <1>5, <1>6, <1>7, <1>8, <1>9, <1>10 DEF Next, Server

LEMMA StopLeavesNothing ==
  ASSUME DaemonInv, EngineKnown, [Next]_vars, NEW c \in Client,
         request[c].cmd = "stop", link[c] = "open", link'[c] = "RspOk"
  PROVE  engine' = "Stopped" /\ ~hook' /\ ~handler' /\ thread' = "none"
<1>1. StopJoined
  BY OnlyAnswers
<1>2. spc = "join" /\ thread' = "none" /\ UNCHANGED <<engine, hook, handler>>
  BY <1>1 DEF StopJoined
<1> QED
  BY <1>2 DEF EngineKnown, StateHonest

LEMMA BootIsUseful ==
  ASSUME DaemonInv, [Next]_vars, main # "serving", main' = "serving"
  PROVE  config # NoPath \/ Joinable
<1>1. MainTypes /\ (main = "starting" => config # NoPath \/ thread # "none")
  BY DEF DaemonInv, LifeInv, StartKnown
<1>2. main = "starting"
  <2>1. \A c \in Client : ~Ctl(c)
    BY CtlLives
  <2>2. ~(StartInstall \/ StartFinish \/ Boot \/ BootStart \/ Quit \/ Ending \/ Crash)
    BY DEF StartInstall, StartFinish, Boot, BootStart, Quit, Ending, SaveOnExit, Destroy, Exited, Crash, Fresh
  <2>3. ~Server
    BY DEF Server, Accept, LeaveLoop, ReadRequest, Reload, ReloadSaved, Stop, StopJoined, Start, StartSlept, Get
  <2>4. ~UNCHANGED vars
    BY DEF vars
  <2> QED
    BY <2>1, <2>2, <2>3, <2>4 DEF Next, Serve
<1> QED
  BY <1>1, <1>2 DEF Joinable

\* Exit codes are honest, answers are understood and a daemon that boots does something,
\* however long Engine::start takes.
THEOREM ExitCodesHonest == Spec => [](TypeOK /\ ExitCodeHonest) /\ AnswerUnderstood /\ BootUseful
<1>1. DaemonInv => TypeOK /\ ExitCodeHonest
  <2> SUFFICES ASSUME DaemonInv PROVE TypeOK /\ ExitCodeHonest
    OBVIOUS
  <2>1. TypeOK
    BY ServedTypes DEF DaemonInv, ServedInv, LifeInv
  <2>2. ExitCodeHonest
    BY DEF DaemonInv, ServedInv, ClientsKnown, KnownOf, ExitCodeHonest
  <2> QED
    BY <2>1, <2>2
<1>2. DaemonInv /\ [Next]_vars =>
        [\A c \in Client : Receive(c) /\ link[c] \notin {"closed", "RspError"} => exit'[c] = "SUCCESS"]_vars
  BY ReceiveUnderstood
<1>3. DaemonInv /\ [Next]_vars => [main # "serving" /\ main' = "serving" => config # NoPath \/ Joinable]_vars
  BY BootIsUseful
<1> QED
  BY <1>1, <1>2, <1>3, DaemonInvHolds, PTL DEF Spec, AnswerUnderstood, BootUseful

\* What yamy-ctl and the user are told is so, when Engine::start takes less than the 100 ms
\* that EngineAdapter::start waits.
THEOREM DaemonIsHonest == SlowStart = FALSE => (Spec => DaemonHonest)
<1> SUFFICES ASSUME SlowStart = FALSE PROVE Spec => DaemonHonest
  OBVIOUS
<1>1. EngineKnown => StateHonest
  BY DEF EngineKnown
<1>2. DaemonInv /\ EngineKnown /\ [Next]_vars =>
        [\A c \in Client : request[c].cmd = "stop" /\ link[c] = "open" /\ link'[c] = "RspOk" =>
           engine' = "Stopped" /\ ~hook' /\ ~handler' /\ thread' = "none"]_vars
  BY StopLeavesNothing
<1> QED
  BY <1>1, <1>2, DaemonInvHolds, EngineKnownHolds, ExitCodesHonest, PTL DEF Spec, DaemonHonest, StopAnswered
=============================================================================
