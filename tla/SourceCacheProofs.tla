------------------------- MODULE SourceCacheProofs --------------------------
(***************************************************************************)
(* For any versions, revisions, trees and manifests, any number of writes  *)
(* that fail and any number of restarts: multiCache over memory and bolt   *)
(* is one persistent cache (SourceCacheSpec), and while every write        *)
(* succeeds both levels list the same versions.  And for any number of     *)
(* processes and crashes: whoever uses the directory of the cache still    *)
(* owns its lock, or had it deleted by another process (CacheLock).        *)
(***************************************************************************)
EXTENDS SourceCache, CacheLock, TLAPS

CacheFields == {"listed", "vMap", "rMap", "ptrees", "infos"}
BucketFields == {"vers", "tree", "manifest", "lock"}

(* The versions a list pairs with r *)
VersionsOf(list, r) == {u \in DOMAIN list : list[u] = r}

(* The memory cache: the versions kept with each revision are those of the list. *)
MemTyped(m) ==
  /\ DOMAIN m = CacheFields
  /\ m.listed \in BOOLEAN
  /\ m.vMap \in VersionLists
  /\ ~ m.listed => DOMAIN m.vMap = {}
  /\ \A r \in DOMAIN m.rMap : m.rMap[r] = VersionsOf(m.vMap, r)
  /\ Range(m.vMap) \subseteq DOMAIN m.rMap
  /\ \A r \in DOMAIN m.ptrees : r \in Revs /\ m.ptrees[r] \in TreesOf[r]
  /\ \A k \in DOMAIN m.infos : \E r \in Revs : k = <<r, "dep">> /\ m.infos[k] \in InfosOf[r]

(* A revision's bucket has a manifest with the lock it came with, or neither. *)
BucketTyped(b, r) ==
  /\ DOMAIN b = BucketFields
  /\ b.tree \in TreesOf[r] \union {Miss}
  /\ \/ b.manifest = Miss /\ b.lock = Miss
     \/ \E i \in InfosOf[r] : /\ b.manifest = i.manifest
                              /\ b.lock = IF i.lock = NoLock THEN Miss ELSE i.lock

DiskTyped(d) ==
  /\ DOMAIN d = {"vers", "revs"}
  /\ DOMAIN d.revs \subseteq Revs
  /\ \A r \in Revs : BucketTyped(RevBucket(d, r), r)
  /\ d.vers = Miss \/ d.vers \in [time : Nat, list : VersionLists]

(* The versions kept with each revision on disk are those of the list on disk. *)
DiskPaired(d) ==
  \A r \in Revs :
    RevBucket(d, r).vers =
      IF d.vers # Miss /\ r \in Range(d.vers.list)
      THEN [time |-> d.vers.time, list |-> VersionsOf(d.vers.list, r)] ELSE Miss

Typed ==
  /\ MemTyped(mem) /\ DiskTyped(disk)
  /\ epoch \in Nat /\ clock \in Nat /\ epoch <= clock /\ faults \in Nat

(* The lists of the two levels *)
ListsAgree == faults = 0 /\ mem.listed /\ disk.vers # Miss => disk.vers.list = mem.vMap

CacheInv == Typed /\ DiskPaired(disk) /\ ListsAgree

-----------------------------------------------------------------------------
(* The memory cache *)

LEMMA EmptyList == NoVersions \in VersionLists /\ DOMAIN NoVersions = {}
<1>1. NoVersions \in [{} -> Revs]
  BY DEF NoVersions
<1> QED BY <1>1 DEF VersionLists, NoVersions

LEMMA ListTyped ==
  ASSUME NEW list \in VersionLists
  PROVE  /\ DOMAIN list \subseteq Versions
         /\ \A u \in DOMAIN list : list[u] \in Revs
         /\ Range(list) \subseteq Revs
         /\ \A r : VersionsOf(list, r) \subseteq Versions
         /\ \A r : VersionsOf(list, r) # {} <=> r \in Range(list)
         /\ list # Miss
<1>1. PICK S \in SUBSET Versions : list \in [S -> Revs]
  BY DEF VersionLists
<1>2. DOMAIN list \subseteq Versions /\ \A u \in DOMAIN list : list[u] \in Revs
  BY <1>1
<1> QED BY <1>2, SourceCacheAssumption DEF Range, VersionsOf

LEMMA NewMemory ==
  /\ MemTyped(NewMemoryCache)
  /\ ~ NewMemoryCache.listed
  /\ DOMAIN NewMemoryCache.ptrees = {} /\ DOMAIN NewMemoryCache.infos = {}
<1>1. /\ NewMemoryCache.listed = FALSE /\ NewMemoryCache.vMap = NoVersions
      /\ NewMemoryCache.rMap = NoVersions /\ NewMemoryCache.ptrees = NoVersions
      /\ NewMemoryCache.infos = NoVersions /\ DOMAIN NewMemoryCache = CacheFields
  BY DEF NewMemoryCache, CacheFields
<1> QED BY <1>1, EmptyList DEF MemTyped, Range

LEMMA ListCached ==
  ASSUME NEW m, MemTyped(m), NEW list \in VersionLists
  PROVE  /\ MemTyped(SetVersionMap(m, list))
         /\ SetVersionMap(m, list).listed
         /\ SetVersionMap(m, list).vMap = list
         /\ SetVersionMap(m, list).ptrees = m.ptrees
         /\ SetVersionMap(m, list).infos = m.infos
<1> DEFINE n == SetVersionMap(m, list)
<1>1. /\ DOMAIN n = CacheFields /\ n.listed = TRUE /\ n.vMap = list
      /\ n.ptrees = m.ptrees /\ n.infos = m.infos
      /\ n.rMap = [r \in DOMAIN m.rMap \union Range(list) |-> VersionsOf(list, r)]
  BY DEF SetVersionMap, CacheFields, MemTyped, VersionsOf
<1>2. MemTyped(n)
  BY <1>1 DEF MemTyped
<1> QED BY <1>1, <1>2

LEMMA MarkCached ==
  ASSUME NEW m, MemTyped(m), NEW r \in Revs
  PROVE  /\ MemTyped(MarkRevisionExists(m, r))
         /\ MarkRevisionExists(m, r).listed = m.listed
         /\ MarkRevisionExists(m, r).vMap = m.vMap
         /\ MarkRevisionExists(m, r).ptrees = m.ptrees
         /\ MarkRevisionExists(m, r).infos = m.infos
<1>1. CASE r \in DOMAIN m.rMap
  BY <1>1 DEF MarkRevisionExists
<1>2. CASE r \notin DOMAIN m.rMap
  <2> DEFINE n == MarkRevisionExists(m, r)
  <2>1. /\ DOMAIN n = CacheFields /\ n.listed = m.listed /\ n.vMap = m.vMap
        /\ n.ptrees = m.ptrees /\ n.infos = m.infos
        /\ n.rMap = Set(m.rMap, r, {})
    BY <1>2 DEF MarkRevisionExists, CacheFields, MemTyped
  <2>2. VersionsOf(m.vMap, r) = {}
    BY <1>2 DEF MemTyped, Range, VersionsOf
  <2>3. MemTyped(n)
    BY <2>1, <2>2 DEF MemTyped, Set
  <2> QED BY <2>1, <2>3
<1> QED BY <1>1, <1>2

LEMMA TreeCached ==
  ASSUME NEW m, MemTyped(m), NEW r \in Revs, NEW t \in TreesOf[r]
  PROVE  /\ MemTyped(SetPackageTree(m, r, t))
         /\ SetPackageTree(m, r, t).listed = m.listed
         /\ SetPackageTree(m, r, t).vMap = m.vMap
         /\ SetPackageTree(m, r, t).ptrees = Set(m.ptrees, r, t)
         /\ SetPackageTree(m, r, t).infos = m.infos
<1> DEFINE n == [m EXCEPT !.ptrees = Set(@, r, t)]
<1>1. /\ DOMAIN n = CacheFields /\ n.listed = m.listed /\ n.vMap = m.vMap /\ n.rMap = m.rMap
      /\ n.ptrees = Set(m.ptrees, r, t) /\ n.infos = m.infos
  BY DEF CacheFields, MemTyped
<1>2. SetPackageTree(m, r, t) = MarkRevisionExists(n, r)
  BY DEF SetPackageTree
<1> HIDE DEF n
<1>3. MemTyped(n)
  BY <1>1 DEF MemTyped, Set
<1> QED BY <1>1, <1>2, <1>3, MarkCached

LEMMA InfoCached ==
  ASSUME NEW m, MemTyped(m), NEW r \in Revs, NEW i \in InfosOf[r]
  PROVE  /\ MemTyped(SetManifestAndLock(m, r, "dep", i))
         /\ SetManifestAndLock(m, r, "dep", i).listed = m.listed
         /\ SetManifestAndLock(m, r, "dep", i).vMap = m.vMap
         /\ SetManifestAndLock(m, r, "dep", i).ptrees = m.ptrees
         /\ SetManifestAndLock(m, r, "dep", i).infos = Set(m.infos, <<r, "dep">>, i)
<1> DEFINE n == [m EXCEPT !.infos = Set(@, <<r, "dep">>, i)]
<1>1. /\ DOMAIN n = CacheFields /\ n.listed = m.listed /\ n.vMap = m.vMap /\ n.rMap = m.rMap
      /\ n.infos = Set(m.infos, <<r, "dep">>, i) /\ n.ptrees = m.ptrees
  BY DEF CacheFields, MemTyped
<1>2. SetManifestAndLock(m, r, "dep", i) = MarkRevisionExists(n, r)
  BY DEF SetManifestAndLock
<1> HIDE DEF n
<1>3. MemTyped(n)
  BY <1>1 DEF MemTyped, Set
<1> QED BY <1>1, <1>2, <1>3, MarkCached

-----------------------------------------------------------------------------
(* The bolt cache *)

TreesIn(d) == [r \in {x \in Revs : BoltTree(d, x) # Miss} |-> BoltTree(d, r)]
InfosIn(d) == [r \in {x \in Revs : BoltInfo(d, x) # Miss} |-> BoltInfo(d, r)]

LEMMA OnDisk ==
  ASSUME NEW d, DiskTyped(d)
  PROVE  /\ [r \in {x \in DOMAIN d.revs : BoltTree(d, x) # Miss} |-> BoltTree(d, r)] = TreesIn(d)
         /\ [r \in {x \in DOMAIN d.revs : BoltInfo(d, x) # Miss} |-> BoltInfo(d, r)] = InfosIn(d)
<1>1. \A r \in Revs \ DOMAIN d.revs : BoltTree(d, r) = Miss /\ BoltInfo(d, r) = Miss
  BY DEF BoltTree, BoltInfo, RevBucket, NewRevBucket
<1>2. /\ {x \in DOMAIN d.revs : BoltTree(d, x) # Miss} = {x \in Revs : BoltTree(d, x) # Miss}
      /\ {x \in DOMAIN d.revs : BoltInfo(d, x) # Miss} = {x \in Revs : BoltInfo(d, x) # Miss}
  BY <1>1 DEF DiskTyped
<1> QED BY <1>2 DEF TreesIn, InfosIn

LEMMA NewDisk ==
  /\ DiskTyped(NewBucket) /\ DiskPaired(NewBucket) /\ NewBucket.vers = Miss
  /\ TreesIn(NewBucket) = NoVersions /\ InfosIn(NewBucket) = NoVersions
<1>1. /\ DOMAIN NewBucket = {"vers", "revs"} /\ NewBucket.vers = Miss /\ NewBucket.revs = NoVersions
  BY DEF NewBucket
<1>2. \A r : RevBucket(NewBucket, r) = NewRevBucket
  BY <1>1, EmptyList DEF RevBucket
<1>3. /\ DOMAIN NewRevBucket = BucketFields
      /\ NewRevBucket.vers = Miss /\ NewRevBucket.tree = Miss
      /\ NewRevBucket.manifest = Miss /\ NewRevBucket.lock = Miss
  BY DEF NewRevBucket, BucketFields
<1>4. \A r : BoltTree(NewBucket, r) = Miss /\ BoltInfo(NewBucket, r) = Miss
  BY <1>2, <1>3 DEF BoltTree, BoltInfo
<1>5. TreesIn(NewBucket) = NoVersions /\ InfosIn(NewBucket) = NoVersions
  BY <1>4 DEF TreesIn, InfosIn, NoVersions
<1> QED BY <1>1, <1>2, <1>3, <1>5, EmptyList DEF DiskTyped, DiskPaired, BucketTyped

(* updateRevBucket() *)
LEMMA BucketUpdated ==
  ASSUME NEW d, DiskTyped(d), DiskPaired(d), NEW r \in Revs, NEW b, BucketTyped(b, r),
         b.vers = RevBucket(d, r).vers
  PROVE  LET e == [d EXCEPT !.revs = Set(@, r, b)]
         IN /\ DiskTyped(e) /\ DiskPaired(e) /\ e.vers = d.vers
            /\ \A x : RevBucket(e, x) = IF x = r THEN b ELSE RevBucket(d, x)
<1> DEFINE e == [d EXCEPT !.revs = Set(@, r, b)]
<1>1. /\ DOMAIN e = {"vers", "revs"} /\ e.vers = d.vers /\ e.revs = Set(d.revs, r, b)
  BY DEF DiskTyped
<1>2. /\ DOMAIN e.revs = DOMAIN d.revs \union {r}
      /\ \A x : RevBucket(e, x) = IF x = r THEN b ELSE RevBucket(d, x)
  BY <1>1 DEF RevBucket, Set
<1> HIDE DEF e
<1>3. DiskTyped(e)
  BY <1>1, <1>2 DEF DiskTyped
<1>4. DiskPaired(e)
  BY <1>1, <1>2 DEF DiskPaired
<1> QED BY <1>1, <1>2, <1>3, <1>4 DEF e

LEMMA MarkedOnDisk ==
  ASSUME NEW d, DiskTyped(d), DiskPaired(d), NEW r \in Revs
  PROVE  LET e == BoltMark(d, r)
         IN /\ DiskTyped(e) /\ DiskPaired(e) /\ e.vers = d.vers
            /\ TreesIn(e) = TreesIn(d) /\ InfosIn(e) = InfosIn(d)
<1> DEFINE e == BoltMark(d, r)
<1>1. e = [d EXCEPT !.revs = Set(@, r, RevBucket(d, r))]
  BY DEF BoltMark, UpdateRev
<1>2. BucketTyped(RevBucket(d, r), r)
  BY DEF DiskTyped
<1>3. /\ DiskTyped(e) /\ DiskPaired(e) /\ e.vers = d.vers
      /\ \A x : RevBucket(e, x) = RevBucket(d, x)
  BY <1>1, <1>2, BucketUpdated
<1> HIDE DEF e
<1>4. TreesIn(e) = TreesIn(d) /\ InfosIn(e) = InfosIn(d)
  BY <1>3 DEF TreesIn, InfosIn, BoltTree, BoltInfo
<1> QED BY <1>3, <1>4 DEF e

LEMMA TreeOnDisk ==
  ASSUME NEW d, DiskTyped(d), DiskPaired(d), NEW r \in Revs, NEW t \in TreesOf[r]
  PROVE  LET e == BoltSetTree(d, r, t)
         IN /\ DiskTyped(e) /\ DiskPaired(e) /\ e.vers = d.vers
            /\ TreesIn(e) = Set(TreesIn(d), r, t) /\ InfosIn(e) = InfosIn(d)
<1> DEFINE e == BoltSetTree(d, r, t)
           b == [RevBucket(d, r) EXCEPT !.tree = t]
<1>1. e = [d EXCEPT !.revs = Set(@, r, b)]
  BY DEF BoltSetTree, UpdateRev
<1>2. BucketTyped(RevBucket(d, r), r)
  BY DEF DiskTyped
<1>3. /\ DOMAIN b = BucketFields /\ b.tree = t /\ b.vers = RevBucket(d, r).vers
      /\ b.manifest = RevBucket(d, r).manifest /\ b.lock = RevBucket(d, r).lock
  BY <1>2 DEF BucketTyped, BucketFields
<1> HIDE DEF b
<1>4. BucketTyped(b, r)
  BY <1>2, <1>3 DEF BucketTyped
<1>5. /\ DiskTyped(e) /\ DiskPaired(e) /\ e.vers = d.vers
      /\ \A x : RevBucket(e, x) = IF x = r THEN b ELSE RevBucket(d, x)
  BY <1>1, <1>3, <1>4, BucketUpdated
<1> HIDE DEF e
<1>6. \A x : /\ BoltTree(e, x) = IF x = r THEN t ELSE BoltTree(d, x)
             /\ BoltInfo(e, x) = BoltInfo(d, x)
  BY <1>3, <1>5 DEF BoltTree, BoltInfo
<1>7. TreesIn(e) = Set(TreesIn(d), r, t)
  <2>1. t # Miss
    BY SourceCacheAssumption
  <2>2. {x \in Revs : BoltTree(e, x) # Miss} = {x \in Revs : BoltTree(d, x) # Miss} \union {r}
    BY <1>6, <2>1
  <2> QED BY <1>6, <2>2 DEF TreesIn, Set
<1>8. InfosIn(e) = InfosIn(d)
  BY <1>6 DEF InfosIn
<1> QED BY <1>5, <1>7, <1>8 DEF e

(* A lock that is nil leaves the bucket of the last lock, and there is none. *)
LEMMA InfoOnDisk ==
  ASSUME NEW d, DiskTyped(d), DiskPaired(d), NEW r \in Revs, NEW i \in InfosOf[r]
  PROVE  LET e == BoltSetInfo(d, r, i)
         IN /\ DiskTyped(e) /\ DiskPaired(e) /\ e.vers = d.vers
            /\ InfosIn(e) = Set(InfosIn(d), r, i) /\ TreesIn(e) = TreesIn(d)
<1> DEFINE e == BoltSetInfo(d, r, i)
           a == RevBucket(d, r)
           b == [a EXCEPT !.manifest = i.manifest, !.lock = IF i.lock = NoLock THEN @ ELSE i.lock]
<1>1. e = [d EXCEPT !.revs = Set(@, r, b)]
  BY DEF BoltSetInfo, UpdateRev
<1>2. BucketTyped(a, r)
  BY DEF DiskTyped
<1> HIDE DEF a
<1>3. /\ DOMAIN b = BucketFields /\ b.tree = a.tree /\ b.vers = a.vers
      /\ b.manifest = i.manifest /\ b.lock = IF i.lock = NoLock THEN a.lock ELSE i.lock
  BY <1>2 DEF BucketTyped, BucketFields
<1> HIDE DEF b
<1>4. i.lock = NoLock => a.lock = Miss
  BY <1>2, SourceCacheAssumption DEF BucketTyped
<1>5. b.lock = IF i.lock = NoLock THEN Miss ELSE i.lock
  BY <1>3, <1>4
<1>6. BucketTyped(b, r)
  BY <1>2, <1>3, <1>5 DEF BucketTyped
<1>7. /\ DiskTyped(e) /\ DiskPaired(e) /\ e.vers = d.vers
      /\ \A x : RevBucket(e, x) = IF x = r THEN b ELSE RevBucket(d, x)
  BY <1>1, <1>3, <1>6, BucketUpdated DEF a
<1> HIDE DEF e
<1>8. /\ i.manifest # Miss /\ i.lock # Miss /\ i # Miss
      /\ i = [manifest |-> i.manifest, lock |-> i.lock]
  BY SourceCacheAssumption
<1>9. \A x : /\ BoltInfo(e, x) = IF x = r THEN i ELSE BoltInfo(d, x)
             /\ BoltTree(e, x) = BoltTree(d, x)
  BY <1>3, <1>5, <1>7, <1>8 DEF BoltTree, BoltInfo, a
<1>10. InfosIn(e) = Set(InfosIn(d), r, i)
  <2>1. {x \in Revs : BoltInfo(e, x) # Miss} = {x \in Revs : BoltInfo(d, x) # Miss} \union {r}
    BY <1>8, <1>9
  <2> QED BY <1>9, <2>1 DEF InfosIn, Set
<1>11. TreesIn(e) = TreesIn(d)
  BY <1>9 DEF TreesIn
<1> QED BY <1>7, <1>10, <1>11 DEF e

(* A version list replaces the one before, with the versions of each revision. *)
LEMMA ListOnDisk ==
  ASSUME NEW d, DiskTyped(d), DiskPaired(d), NEW list \in VersionLists, NEW time \in Nat
  PROVE  LET e == BoltSetVersionMap(d, list, time)
         IN /\ DiskTyped(e) /\ DiskPaired(e)
            /\ e.vers # Miss /\ e.vers.time = time /\ e.vers.list = list
            /\ TreesIn(e) = TreesIn(d) /\ InfosIn(e) = InfosIn(d)
<1> DEFINE e == BoltSetVersionMap(d, list, time)
           V(r) == IF r \in Range(list) THEN [time |-> time, list |-> VersionsOf(list, r)] ELSE Miss
           B(r) == [RevBucket(d, r) EXCEPT !.vers = V(r)]
<1>1. /\ DOMAIN e = {"vers", "revs"} /\ e.vers = [time |-> time, list |-> list]
      /\ e.revs = [r \in DOMAIN d.revs \union Range(list) |-> B(r)]
  BY DEF BoltSetVersionMap, VersionsOf
<1>2. \A r \in Revs : BucketTyped(RevBucket(d, r), r)
  BY DEF DiskTyped
<1>3. \A r \in Revs : /\ DOMAIN B(r) = BucketFields /\ B(r).vers = V(r)
                      /\ B(r).tree = RevBucket(d, r).tree /\ B(r).manifest = RevBucket(d, r).manifest
                      /\ B(r).lock = RevBucket(d, r).lock
  BY <1>2 DEF BucketTyped, BucketFields
<1>4. \A r \in Revs : /\ RevBucket(e, r).vers = V(r)
                      /\ RevBucket(e, r).tree = RevBucket(d, r).tree
                      /\ RevBucket(e, r).manifest = RevBucket(d, r).manifest
                      /\ RevBucket(e, r).lock = RevBucket(d, r).lock
                      /\ DOMAIN RevBucket(e, r) = BucketFields
  <2> SUFFICES ASSUME NEW r \in Revs
               PROVE  /\ RevBucket(e, r).vers = V(r)
                      /\ RevBucket(e, r).tree = RevBucket(d, r).tree
                      /\ RevBucket(e, r).manifest = RevBucket(d, r).manifest
                      /\ RevBucket(e, r).lock = RevBucket(d, r).lock
                      /\ DOMAIN RevBucket(e, r) = BucketFields
    OBVIOUS
  <2> HIDE DEF e, B
  <2>1. CASE r \in DOMAIN d.revs \union Range(list)
    <3>1. RevBucket(e, r) = B(r)
      BY <1>1, <2>1 DEF RevBucket
    <3> QED BY <1>3, <3>1
  <2>2. CASE r \notin DOMAIN d.revs \union Range(list)
    <3>1. RevBucket(e, r) = NewRevBucket /\ RevBucket(d, r) = NewRevBucket
      BY <1>1, <2>2 DEF RevBucket
    <3> QED BY <2>2, <3>1 DEF NewRevBucket, BucketFields
  <2> QED BY <2>1, <2>2
<1> HIDE DEF e, B
<1>5. /\ e.vers # Miss /\ e.vers.time = time /\ e.vers.list = list
      /\ e.vers \in [time : Nat, list : VersionLists]
  BY <1>1, SourceCacheAssumption
<1>6. DiskTyped(e)
  <2>1. DOMAIN e.revs \subseteq Revs
    BY <1>1, ListTyped DEF DiskTyped
  <2>2. \A r \in Revs : BucketTyped(RevBucket(e, r), r)
    BY <1>2, <1>4 DEF BucketTyped
  <2> QED BY <1>1, <1>5, <2>1, <2>2 DEF DiskTyped
<1>7. DiskPaired(e)
  BY <1>4, <1>5 DEF DiskPaired
<1>8. \A r \in Revs : BoltTree(e, r) = BoltTree(d, r) /\ BoltInfo(e, r) = BoltInfo(d, r)
  BY <1>4 DEF BoltTree, BoltInfo
<1>9. TreesIn(e) = TreesIn(d) /\ InfosIn(e) = InfosIn(d)
  BY <1>8 DEF TreesIn, InfosIn
<1> QED BY <1>5, <1>6, <1>7, <1>9 DEF e

-----------------------------------------------------------------------------
(* The refinement mapping *)

InfosKept(m) == [r \in {k[1] : k \in DOMAIN m.infos} |-> m.infos[<<r, "dep">>]]

LEMMA Mapped ==
  ASSUME CacheInv
  PROVE  /\ AbsStore = [vers |-> DiskVersions, trees |-> TreesIn(disk), infos |-> InfosIn(disk)]
         /\ AbsNow = [vers |-> IF mem.listed THEN mem.vMap ELSE Valid(disk.vers),
                      trees |-> Over(mem.ptrees, TreesIn(disk)),
                      infos |-> Over(InfosKept(mem), InfosIn(disk))]
<1>1. DiskTrees = TreesIn(disk) /\ DiskInfos = InfosIn(disk)
  BY OnDisk DEF CacheInv, Typed, DiskTrees, DiskInfos
<1> QED BY <1>1 DEF AbsStore, AbsNow, MemInfos, InfosKept

LEMMA MappedNext ==
  ASSUME CacheInv'
  PROVE  /\ AbsStore' = [vers |-> DiskVersions', trees |-> TreesIn(disk'), infos |-> InfosIn(disk')]
         /\ AbsNow' = [vers |-> IF mem'.listed THEN mem'.vMap ELSE Valid(disk.vers)',
                       trees |-> Over(mem'.ptrees, TreesIn(disk')),
                       infos |-> Over(InfosKept(mem'), InfosIn(disk'))]
<1>1. DiskTrees' = TreesIn(disk') /\ DiskInfos' = InfosIn(disk')
  BY OnDisk DEF CacheInv, Typed, DiskTrees, DiskInfos
<1> QED BY <1>1 DEF AbsStore, AbsNow, MemInfos, InfosKept

(* A value is set in memory, and on disk or not. *)
LEMMA SetOver ==
  ASSUME NEW f, NEW g, NEW x, NEW y
  PROVE  /\ Over(Set(f, x, y), g) = Set(Over(f, g), x, y)
         /\ Over(Set(f, x, y), Set(g, x, y)) = Set(Over(f, g), x, y)
<1>1. Over(Set(f, x, y), g) = Set(Over(f, g), x, y)
  BY DEF Over, Set
<1>2. Over(Set(f, x, y), Set(g, x, y)) = Set(Over(f, g), x, y)
  BY DEF Over, Set
<1> QED BY <1>1, <1>2

(* A value that is only on disk is put in memory too. *)
LEMMA RaisedOver ==
  ASSUME NEW f, NEW g, NEW x, x \notin DOMAIN f, x \in DOMAIN g
  PROVE  Over(Set(f, x, g[x]), g) = Over(f, g)
  BY DEF Over, Set

LEMMA InfoKept ==
  ASSUME NEW m, MemTyped(m)
  PROVE  /\ DOMAIN InfosKept(m) = {r \in Revs : <<r, "dep">> \in DOMAIN m.infos}
         /\ \A r \in DOMAIN InfosKept(m) : InfosKept(m)[r] = m.infos[<<r, "dep">>]
<1>1. {k[1] : k \in DOMAIN m.infos} = {r \in Revs : <<r, "dep">> \in DOMAIN m.infos}
  <2>1. \A k \in DOMAIN m.infos : \E r \in Revs : k = <<r, "dep">>
    BY DEF MemTyped
  <2> QED BY <2>1
<1> QED BY <1>1 DEF InfosKept

LEMMA InfoSet ==
  ASSUME NEW m, MemTyped(m), NEW r \in Revs, NEW i, NEW n, MemTyped(n),
         n.infos = Set(m.infos, <<r, "dep">>, i)
  PROVE  InfosKept(n) = Set(InfosKept(m), r, i)
<1>1. /\ DOMAIN n.infos = DOMAIN m.infos \union {<<r, "dep">>}
      /\ \A k \in DOMAIN n.infos : n.infos[k] = IF k = <<r, "dep">> THEN i ELSE m.infos[k]
  BY DEF Set
<1>2. DOMAIN InfosKept(n) = DOMAIN InfosKept(m) \union {r}
  <2>1. DOMAIN InfosKept(n) = {x \in Revs : <<x, "dep">> \in DOMAIN n.infos}
    BY InfoKept
  <2>2. DOMAIN InfosKept(m) = {x \in Revs : <<x, "dep">> \in DOMAIN m.infos}
    BY InfoKept
  <2> HIDE DEF InfosKept
  <2>3. \A x : <<x, "dep">> \in DOMAIN n.infos <=> <<x, "dep">> \in DOMAIN m.infos \/ x = r
    BY <1>1
  <2> QED BY <2>1, <2>2, <2>3
<1>3. \A x \in DOMAIN InfosKept(n) : InfosKept(n)[x] = IF x = r THEN i ELSE InfosKept(m)[x]
  BY <1>1, <1>2, InfoKept
<1>4. InfosKept(n) = [x \in DOMAIN InfosKept(n) |-> InfosKept(n)[x]]
  BY DEF InfosKept
<1> HIDE DEF InfosKept
<1> QED BY <1>2, <1>3, <1>4 DEF Set

-----------------------------------------------------------------------------
(* The setters *)

LEMMA SetterKeeps ==
  ASSUME CacheInv, NEW m, NEW d, Setter(m, d), MemTyped(m), DiskTyped(d), DiskPaired(d),
         \/ m.listed = mem.listed /\ m.vMap = mem.vMap /\ d.vers = disk.vers
         \/ d.vers # Miss /\ d.vers.list = m.vMap
  PROVE  /\ CacheInv'
         /\ mem' = m /\ disk' \in {d, disk} /\ epoch' = epoch /\ clock' = clock
         /\ ret' = <<"none", Miss>>
<1>1. mem' = m /\ epoch' = epoch /\ clock' = clock /\ ret' = <<"none", Miss>>
  BY DEF Setter
<1>2. \/ disk' = d /\ faults' = faults
      \/ disk' = disk /\ faults' = faults + 1
  BY DEF Setter
<1>3. Typed'
  BY <1>1, <1>2 DEF CacheInv, Typed
<1>4. DiskPaired(disk)'
  BY <1>2 DEF CacheInv, DiskPaired
<1>5. ListsAgree'
  <2>1. faults' = 0 => disk' = d /\ faults = 0
    BY <1>2 DEF CacheInv, Typed
  <2>2. m.listed \in BOOLEAN /\ mem.listed \in BOOLEAN
    BY DEF CacheInv, Typed, MemTyped
  <2> QED BY <1>1, <2>1, <2>2 DEF CacheInv, ListsAgree
<1> QED BY <1>1, <1>2, <1>3, <1>4, <1>5 DEF CacheInv

LEMMA SetVersionsSimulated ==
  ASSUME CacheInv, SetVersions
  PROVE  CacheInv' /\ Abstract!SetVersions
<1>1. PICK list \in VersionLists : Setter(SetVersionMap(mem, list), BoltSetVersionMap(disk, list, clock))
  BY DEF SetVersions
<1> DEFINE m == SetVersionMap(mem, list)
           d == BoltSetVersionMap(disk, list, clock)
<1>2. MemTyped(m) /\ m.listed /\ m.vMap = list /\ m.ptrees = mem.ptrees /\ m.infos = mem.infos
  BY ListCached DEF CacheInv, Typed
<1>3. /\ DiskTyped(d) /\ DiskPaired(d)
      /\ d.vers # Miss /\ d.vers.time = clock /\ d.vers.list = list
      /\ TreesIn(d) = TreesIn(disk) /\ InfosIn(d) = InfosIn(disk)
  BY ListOnDisk DEF CacheInv, Typed
<1> HIDE DEF m, d
<1>4. /\ CacheInv'
      /\ mem' = m /\ disk' \in {d, disk} /\ epoch' = epoch /\ clock' = clock
      /\ ret' = <<"none", Miss>>
  BY <1>1, <1>2, <1>3, SetterKeeps DEF m, d
<1>5. AbsNow' = [AbsNow EXCEPT !.vers = list]
  <2>1. TreesIn(disk') = TreesIn(disk) /\ InfosIn(disk') = InfosIn(disk)
    BY <1>3, <1>4
  <2>2. InfosKept(mem') = InfosKept(mem)
    BY <1>2, <1>4 DEF InfosKept
  <2> QED BY <1>2, <1>4, <2>1, <2>2, Mapped, MappedNext
<1>6. \/ AbsStore' = [AbsStore EXCEPT !.vers = list] /\ AbsShown'
      \/ AbsStore' = AbsStore /\ AbsShown' = AbsShown
  <2>1. CASE disk' = disk
    <3>1. DiskVersions' = DiskVersions
      BY <2>1 DEF DiskVersions
    <3> QED BY <1>4, <2>1, <3>1, Mapped, MappedNext DEF AbsShown
  <2>2. CASE disk' = d
    <3>1. DiskVersions' = list
      BY <1>3, <2>2 DEF DiskVersions
    <3>2. AbsShown'
      BY <1>3, <1>4, <2>2 DEF AbsShown, CacheInv, Typed
    <3>3. AbsStore' = [AbsStore EXCEPT !.vers = list]
      BY <1>3, <1>4, <2>2, <3>1, Mapped, MappedNext
    <3> QED BY <3>2, <3>3
  <2> QED BY <1>4, <2>1, <2>2
<1>7. list \in Abstract!VersionLists
  BY DEF VersionLists, Abstract!VersionLists
<1>8. AbsStore' = [AbsStore EXCEPT !.vers = list] => AbsStore'.vers = list
  <2>1. [AbsStore EXCEPT !.vers = list].vers = list
    BY DEF AbsStore
  <2> QED BY <2>1
<1> QED BY <1>4, <1>5, <1>6, <1>7, <1>8 DEF Abstract!SetVersions, Abstract!Write, Abstract!NoAnswer

LEMMA SetTreeSimulated ==
  ASSUME CacheInv, SetTree
  PROVE  CacheInv' /\ Abstract!SetTree
<1>0. PICK r \in Revs :
        \E t \in TreesOf[r] : Setter(SetPackageTree(mem, r, t), BoltSetTree(disk, r, t))
  BY DEF SetTree
<1>1. PICK t \in TreesOf[r] : Setter(SetPackageTree(mem, r, t), BoltSetTree(disk, r, t))
  BY <1>0
<1> DEFINE m == SetPackageTree(mem, r, t)
           d == BoltSetTree(disk, r, t)
<1>2. /\ MemTyped(m) /\ m.listed = mem.listed /\ m.vMap = mem.vMap
      /\ m.ptrees = Set(mem.ptrees, r, t) /\ m.infos = mem.infos
  BY TreeCached DEF CacheInv, Typed
<1>3. /\ DiskTyped(d) /\ DiskPaired(d) /\ d.vers = disk.vers
      /\ TreesIn(d) = Set(TreesIn(disk), r, t) /\ InfosIn(d) = InfosIn(disk)
  BY TreeOnDisk DEF CacheInv, Typed
<1> HIDE DEF m, d
<1>4. /\ CacheInv'
      /\ mem' = m /\ disk' \in {d, disk} /\ epoch' = epoch /\ clock' = clock
      /\ ret' = <<"none", Miss>>
  BY <1>1, <1>2, <1>3, SetterKeeps DEF m, d
<1>5. /\ InfosIn(disk') = InfosIn(disk) /\ InfosKept(mem') = InfosKept(mem)
      /\ disk'.vers = disk.vers /\ Valid(disk.vers)' = Valid(disk.vers)
      /\ DiskVersions' = DiskVersions /\ AbsShown' = AbsShown
  BY <1>2, <1>3, <1>4 DEF InfosKept, Valid, DiskVersions, AbsShown
<1>6. Over(mem'.ptrees, TreesIn(disk')) = Set(Over(mem.ptrees, TreesIn(disk)), r, t)
  BY <1>2, <1>3, <1>4, SetOver
<1>7. AbsNow' = [AbsNow EXCEPT !.trees = Set(@, r, t)]
  BY <1>2, <1>4, <1>5, <1>6, Mapped, MappedNext
<1>8. AbsStore' \in {[AbsStore EXCEPT !.trees = Set(@, r, t)], AbsStore}
  BY <1>3, <1>4, <1>5, Mapped, MappedNext
<1>9. t \in UNION Range(TreesOf)
  BY SourceCacheAssumption DEF Range
<1> QED BY <1>4, <1>5, <1>7, <1>8, <1>9 DEF Abstract!SetTree, Abstract!Write, Abstract!NoAnswer, Abstract!Set, Set

LEMMA SetInfoSimulated ==
  ASSUME CacheInv, SetInfo
  PROVE  CacheInv' /\ Abstract!SetInfo
<1>0. PICK r \in Revs :
        \E i \in InfosOf[r] : Setter(SetManifestAndLock(mem, r, "dep", i), BoltSetInfo(disk, r, i))
  BY DEF SetInfo
<1>1. PICK i \in InfosOf[r] : Setter(SetManifestAndLock(mem, r, "dep", i), BoltSetInfo(disk, r, i))
  BY <1>0
<1> DEFINE m == SetManifestAndLock(mem, r, "dep", i)
           d == BoltSetInfo(disk, r, i)
<1>2. /\ MemTyped(m) /\ m.listed = mem.listed /\ m.vMap = mem.vMap
      /\ m.infos = Set(mem.infos, <<r, "dep">>, i) /\ m.ptrees = mem.ptrees
  BY InfoCached DEF CacheInv, Typed
<1>3. /\ DiskTyped(d) /\ DiskPaired(d) /\ d.vers = disk.vers
      /\ InfosIn(d) = Set(InfosIn(disk), r, i) /\ TreesIn(d) = TreesIn(disk)
  BY InfoOnDisk DEF CacheInv, Typed
<1> HIDE DEF m, d
<1>4. /\ CacheInv'
      /\ mem' = m /\ disk' \in {d, disk} /\ epoch' = epoch /\ clock' = clock
      /\ ret' = <<"none", Miss>>
  BY <1>1, <1>2, <1>3, SetterKeeps DEF m, d
<1>5. /\ TreesIn(disk') = TreesIn(disk)
      /\ disk'.vers = disk.vers /\ Valid(disk.vers)' = Valid(disk.vers)
      /\ DiskVersions' = DiskVersions /\ AbsShown' = AbsShown
  BY <1>2, <1>3, <1>4 DEF Valid, DiskVersions, AbsShown
<1>6. InfosKept(mem') = Set(InfosKept(mem), r, i)
  BY <1>2, <1>4, InfoSet DEF CacheInv, Typed
<1>7. Over(InfosKept(mem'), InfosIn(disk')) = Set(Over(InfosKept(mem), InfosIn(disk)), r, i)
  BY <1>3, <1>4, <1>6, SetOver
<1>8. AbsNow' = [AbsNow EXCEPT !.infos = Set(@, r, i)]
  BY <1>2, <1>4, <1>5, <1>7, Mapped, MappedNext
<1>9. AbsStore' \in {[AbsStore EXCEPT !.infos = Set(@, r, i)], AbsStore}
  BY <1>3, <1>4, <1>5, Mapped, MappedNext
<1>10. i \in UNION Range(InfosOf)
  BY SourceCacheAssumption DEF Range
<1> QED BY <1>4, <1>5, <1>8, <1>9, <1>10 DEF Abstract!SetInfo, Abstract!Write, Abstract!NoAnswer, Abstract!Set, Set

LEMMA MarkSimulated ==
  ASSUME CacheInv, Mark
  PROVE  CacheInv' /\ Abstract!Mark
<1>1. PICK r \in Revs : Setter(MarkRevisionExists(mem, r), BoltMark(disk, r))
  BY DEF Mark
<1> DEFINE m == MarkRevisionExists(mem, r)
           d == BoltMark(disk, r)
<1>2. /\ MemTyped(m) /\ m.listed = mem.listed /\ m.vMap = mem.vMap
      /\ m.infos = mem.infos /\ m.ptrees = mem.ptrees
  BY <1>1, MarkCached DEF CacheInv, Typed
<1>3. /\ DiskTyped(d) /\ DiskPaired(d) /\ d.vers = disk.vers
      /\ InfosIn(d) = InfosIn(disk) /\ TreesIn(d) = TreesIn(disk)
  BY MarkedOnDisk DEF CacheInv, Typed
<1> HIDE DEF m, d
<1>4. /\ CacheInv'
      /\ mem' = m /\ disk' \in {d, disk} /\ epoch' = epoch /\ clock' = clock
      /\ ret' = <<"none", Miss>>
  BY <1>1, <1>2, <1>3, SetterKeeps DEF m, d
<1>5. /\ TreesIn(disk') = TreesIn(disk) /\ InfosIn(disk') = InfosIn(disk)
      /\ InfosKept(mem') = InfosKept(mem)
      /\ disk'.vers = disk.vers /\ Valid(disk.vers)' = Valid(disk.vers)
      /\ DiskVersions' = DiskVersions /\ AbsShown' = AbsShown
  BY <1>2, <1>3, <1>4 DEF InfosKept, Valid, DiskVersions, AbsShown
<1>6. AbsNow' = AbsNow /\ AbsStore' = AbsStore
  BY <1>2, <1>4, <1>5, Mapped, MappedNext
<1> QED BY <1>4, <1>5, <1>6 DEF Abstract!Mark, Abstract!NoAnswer

-----------------------------------------------------------------------------
(* The getters *)

LEMMA GetterKeeps ==
  ASSUME CacheInv, NEW what, NEW x, Answer(what, x), MemTyped(mem'),
         \/ mem'.listed = mem.listed /\ mem'.vMap = mem.vMap
         \/ disk.vers # Miss /\ mem'.vMap = disk.vers.list
  PROVE  /\ CacheInv'
         /\ disk' = disk /\ AbsStore' = AbsStore /\ AbsShown' = AbsShown /\ ret' = <<what, x>>
         /\ DiskTrees' = DiskTrees /\ DiskInfos' = DiskInfos /\ Valid(disk.vers)' = Valid(disk.vers)
<1>1. UNCHANGED <<disk, epoch, clock, faults>> /\ ret' = <<what, x>>
  BY DEF Answer
<1>2. Typed' /\ DiskPaired(disk)'
  BY <1>1 DEF CacheInv, Typed
<1>3. ListsAgree'
  <2>1. mem'.listed \in BOOLEAN /\ mem.listed \in BOOLEAN
    BY DEF CacheInv, Typed, MemTyped
  <2> QED BY <1>1, <2>1 DEF CacheInv, ListsAgree
<1>4. AbsStore' = AbsStore /\ AbsShown' = AbsShown
  BY <1>1 DEF AbsStore, AbsShown, DiskVersions, DiskTrees, DiskInfos
<1>5. DiskTrees' = DiskTrees /\ DiskInfos' = DiskInfos /\ Valid(disk.vers)' = Valid(disk.vers)
  BY <1>1 DEF DiskTrees, DiskInfos, Valid
<1> QED BY <1>1, <1>2, <1>3, <1>4, <1>5 DEF CacheInv

(* The value of a key is the one in memory, or else the one on disk. *)
LEMMA GetOver ==
  ASSUME NEW f, NEW g, NEW x, x \in DOMAIN f => f[x] # Miss
  PROVE  Get(Over(f, g), x) = IF Get(f, x) # Miss THEN Get(f, x) ELSE Get(g, x)
  BY DEF Get, Over

LEMMA TreeSimulated ==
  ASSUME CacheInv, Tree
  PROVE  CacheInv' /\ Abstract!AnswerTree
<1>1. PICK r \in Revs :
        LET m == GetPackageTree(mem, r) d == BoltTree(disk, r)
        IN /\ Answer("tree", IF m # Miss THEN m ELSE d)
           /\ mem' = IF m = Miss /\ d # Miss THEN SetPackageTree(mem, r, d) ELSE mem
  BY DEF Tree
<1> DEFINE m == Get(mem.ptrees, r)
           d == BoltTree(disk, r)
<1>2. /\ Answer("tree", IF m # Miss THEN m ELSE d)
      /\ mem' = IF m = Miss /\ d # Miss THEN SetPackageTree(mem, r, d) ELSE mem
  BY <1>1 DEF GetPackageTree
<1>3. /\ MemTyped(mem)
      /\ d \in TreesOf[r] \union {Miss}
      /\ r \in DOMAIN mem.ptrees => mem.ptrees[r] # Miss
  BY SourceCacheAssumption DEF CacheInv, Typed, DiskTyped, BucketTyped, BoltTree, MemTyped
<1>4. Get(TreesIn(disk), r) = d /\ (d # Miss => r \in DOMAIN TreesIn(disk) /\ TreesIn(disk)[r] = d)
  BY DEF TreesIn, Get
<1> HIDE DEF d
<1>5. /\ MemTyped(mem') /\ mem'.listed = mem.listed /\ mem'.vMap = mem.vMap /\ mem'.infos = mem.infos
      /\ mem'.ptrees = IF m = Miss /\ d # Miss THEN Set(mem.ptrees, r, d) ELSE mem.ptrees
  BY <1>2, <1>3, TreeCached
<1>6. /\ CacheInv'
      /\ disk' = disk /\ AbsStore' = AbsStore /\ AbsShown' = AbsShown
      /\ ret' = <<"tree", IF m # Miss THEN m ELSE d>> /\ Valid(disk.vers)' = Valid(disk.vers)
  BY <1>2, <1>5, GetterKeeps
<1>7. Over(mem'.ptrees, TreesIn(disk)) = Over(mem.ptrees, TreesIn(disk))
  <2>1. CASE m = Miss /\ d # Miss
    <3>1. r \notin DOMAIN mem.ptrees
      BY <1>3, <2>1 DEF Get
    <3> QED BY <1>4, <1>5, <2>1, <3>1, RaisedOver
  <2>2. CASE ~(m = Miss /\ d # Miss)
    BY <1>5, <2>2
  <2> QED BY <2>1, <2>2
<1>8. InfosKept(mem') = InfosKept(mem)
  BY <1>5 DEF InfosKept
<1>9. AbsNow' = AbsNow
  BY <1>5, <1>6, <1>7, <1>8, Mapped, MappedNext
<1>10. Get(AbsNow.trees, r) = IF m # Miss THEN m ELSE d
  <2>1. AbsNow.trees = Over(mem.ptrees, TreesIn(disk))
    BY Mapped
  <2> QED BY <1>3, <1>4, <2>1, GetOver
<1>11. Abstract!Answers("tree", Abstract!Get(AbsNow.trees, r))
  BY <1>6, <1>9, <1>10 DEF Abstract!Answers, Abstract!Get, Get
<1> QED BY <1>6, <1>11 DEF Abstract!AnswerTree

LEMMA InfoSimulated ==
  ASSUME CacheInv, Info
  PROVE  CacheInv' /\ Abstract!AnswerInfo
<1>1. PICK r \in Revs :
        LET m == GetManifestAndLock(mem, r, "dep") d == BoltInfo(disk, r)
        IN /\ Answer("info", IF m # Miss THEN m ELSE d)
           /\ mem' = IF m = Miss /\ d # Miss THEN SetManifestAndLock(mem, r, "dep", d) ELSE mem
  BY DEF Info
<1> DEFINE m == Get(mem.infos, <<r, "dep">>)
           d == BoltInfo(disk, r)
           f == InfosKept(mem)
<1>2. /\ Answer("info", IF m # Miss THEN m ELSE d)
      /\ mem' = IF m = Miss /\ d # Miss THEN SetManifestAndLock(mem, r, "dep", d) ELSE mem
  BY <1>1 DEF GetManifestAndLock
<1>3. MemTyped(mem)
  BY DEF CacheInv, Typed
<1>4. d \in InfosOf[r] \union {Miss}
  <2> DEFINE b == RevBucket(disk, r)
  <2>1. BucketTyped(b, r)
    BY DEF CacheInv, Typed, DiskTyped
  <2>2. CASE b.manifest = Miss
    BY <2>2 DEF BoltInfo
  <2>3. CASE b.manifest # Miss
    <3>1. PICK i \in InfosOf[r] : /\ b.manifest = i.manifest
                                 /\ b.lock = IF i.lock = NoLock THEN Miss ELSE i.lock
      BY <2>1, <2>3 DEF BucketTyped
    <3>2. i = [manifest |-> i.manifest, lock |-> i.lock] /\ i.lock # Miss
      BY SourceCacheAssumption
    <3>3. d = [manifest |-> i.manifest, lock |-> i.lock]
      BY <2>3, <3>1, <3>2 DEF BoltInfo
    <3> QED BY <3>2, <3>3
  <2> QED BY <2>2, <2>3
<1>5. Get(InfosIn(disk), r) = d /\ (d # Miss => r \in DOMAIN InfosIn(disk) /\ InfosIn(disk)[r] = d)
  BY DEF InfosIn, Get
<1>6. /\ r \in DOMAIN f <=> <<r, "dep">> \in DOMAIN mem.infos
      /\ r \in DOMAIN f => f[r] = mem.infos[<<r, "dep">>]
  BY <1>3, InfoKept
<1>7. <<r, "dep">> \in DOMAIN mem.infos => mem.infos[<<r, "dep">>] # Miss
  <2> SUFFICES ASSUME <<r, "dep">> \in DOMAIN mem.infos PROVE mem.infos[<<r, "dep">>] # Miss
    OBVIOUS
  <2>1. PICK x \in Revs : <<r, "dep">> = <<x, "dep">> /\ mem.infos[<<r, "dep">>] \in InfosOf[x]
    BY <1>3 DEF MemTyped
  <2> QED BY <2>1, SourceCacheAssumption
<1> HIDE DEF d, f
<1>8. Get(f, r) = m /\ (r \in DOMAIN f => f[r] # Miss)
  BY <1>6, <1>7 DEF Get
<1>9. /\ MemTyped(mem') /\ mem'.listed = mem.listed /\ mem'.vMap = mem.vMap /\ mem'.ptrees = mem.ptrees
      /\ mem'.infos = IF m = Miss /\ d # Miss THEN Set(mem.infos, <<r, "dep">>, d) ELSE mem.infos
  BY <1>2, <1>3, <1>4, InfoCached
<1>10. /\ CacheInv'
       /\ disk' = disk /\ AbsStore' = AbsStore /\ AbsShown' = AbsShown
       /\ ret' = <<"info", IF m # Miss THEN m ELSE d>> /\ Valid(disk.vers)' = Valid(disk.vers)
  BY <1>2, <1>9, GetterKeeps
<1>11. Over(InfosKept(mem'), InfosIn(disk)) = Over(f, InfosIn(disk))
  <2>1. CASE m = Miss /\ d # Miss
    <3>1. InfosKept(mem') = Set(f, r, d)
      BY <1>3, <1>9, <2>1, InfoSet DEF f
    <3>2. r \notin DOMAIN f
      BY <1>8, <2>1 DEF Get
    <3> QED BY <1>5, <2>1, <3>1, <3>2, RaisedOver
  <2>2. CASE ~(m = Miss /\ d # Miss)
    BY <1>9, <2>2 DEF InfosKept, f
  <2> QED BY <2>1, <2>2
<1>12. AbsNow' = AbsNow
  BY <1>9, <1>10, <1>11, Mapped, MappedNext DEF f
<1>13. Get(AbsNow.infos, r) = IF m # Miss THEN m ELSE d
  <2>1. AbsNow.infos = Over(f, InfosIn(disk))
    BY Mapped DEF f
  <2> QED BY <1>5, <1>8, <2>1, GetOver
<1>14. Abstract!Answers("info", Abstract!Get(AbsNow.infos, r))
  BY <1>10, <1>12, <1>13 DEF Abstract!Answers, Abstract!Get, Get
<1> QED BY <1>10, <1>14 DEF Abstract!AnswerInfo

(* What the version lists are *)
LEMMA ListsNow ==
  ASSUME CacheInv
  PROVE  /\ AbsNow.vers = IF mem.listed THEN mem.vMap ELSE Valid(disk.vers)
         /\ Abstract!Behind = Valid(disk.vers)
         /\ Valid(disk.vers) # Miss =>
              disk.vers # Miss /\ Valid(disk.vers) = disk.vers.list /\ disk.vers.list \in VersionLists
<1>1. AbsNow.vers = IF mem.listed THEN mem.vMap ELSE Valid(disk.vers)
  BY DEF AbsNow
<1>2. AbsStore.vers = IF disk.vers = Miss THEN Miss ELSE disk.vers.list
  BY DEF AbsStore, DiskVersions
<1>3. Abstract!Behind = Valid(disk.vers)
  BY <1>2 DEF Abstract!Behind, AbsShown, Valid
<1>4. Valid(disk.vers) # Miss =>
        disk.vers # Miss /\ Valid(disk.vers) = disk.vers.list /\ disk.vers.list \in VersionLists
  BY DEF CacheInv, Typed, DiskTyped, Valid
<1> QED BY <1>1, <1>3, <1>4

LEMMA AllVersionsSimulated ==
  ASSUME CacheInv, AllVersions
  PROVE  CacheInv' /\ Abstract!AnswerAllVersions
<1> DEFINE m == IF mem.listed THEN mem.vMap ELSE Miss
           d == IF Valid(disk.vers) = NoVersions THEN Miss ELSE Valid(disk.vers)
<1>1. /\ Answer("all", IF m # Miss THEN m ELSE d)
      /\ mem' = IF m = Miss /\ d # Miss THEN SetVersionMap(mem, d) ELSE mem
  BY DEF AllVersions, GetAllVersions, BoltAllVersions
<1>2. MemTyped(mem) /\ mem.listed \in BOOLEAN /\ (mem.listed => mem.vMap # Miss)
  BY ListTyped DEF CacheInv, Typed, MemTyped
<1>3. d # Miss => d \in VersionLists /\ disk.vers # Miss /\ disk.vers.list = d /\ d = Valid(disk.vers)
  BY ListsNow
<1>4. m = Miss <=> ~ mem.listed
  BY <1>2
<1>5. CASE ~ mem.listed /\ d # Miss
  <2>1. mem' = SetVersionMap(mem, d)
    BY <1>1, <1>4, <1>5
  <2> HIDE DEF d
  <2>2. /\ MemTyped(mem') /\ mem'.listed /\ mem'.vMap = d /\ mem'.ptrees = mem.ptrees
        /\ mem'.infos = mem.infos
    BY <1>2, <1>3, <1>5, <2>1, ListCached
  <2>3. Answer("all", d)
    BY <1>1, <1>4, <1>5
  <2>4. /\ CacheInv'
        /\ disk' = disk /\ AbsStore' = AbsStore /\ AbsShown' = AbsShown /\ ret' = <<"all", d>>
    BY <1>3, <1>5, <2>2, <2>3, GetterKeeps
  <2>5. InfosKept(mem') = InfosKept(mem)
    BY <2>2 DEF InfosKept
  <2>6. AbsNow' = AbsNow
    BY <1>3, <1>5, <2>2, <2>4, <2>5, Mapped, MappedNext
  <2>7. AbsNow.vers = d
    BY <1>3, <1>5, ListsNow
  <2> QED BY <2>4, <2>6, <2>7 DEF Abstract!AnswerAllVersions, Abstract!Answers
<1>6. CASE mem.listed \/ d = Miss
  <2>1. mem' = mem
    BY <1>1, <1>4, <1>6
  <2> DEFINE x == IF m # Miss THEN m ELSE d
  <2>2. /\ CacheInv'
        /\ disk' = disk /\ AbsStore' = AbsStore /\ AbsShown' = AbsShown /\ ret' = <<"all", x>>
        /\ Valid(disk.vers)' = Valid(disk.vers)
    BY <1>1, <1>2, <2>1, GetterKeeps
  <2>3. AbsNow' = AbsNow
    BY <2>1, <2>2, Mapped, MappedNext
  <2>4. x = AbsNow.vers \/ (AbsNow.vers = NoVersions /\ x = Miss)
    BY <1>2, <1>4, <1>6, ListsNow
  <2> HIDE DEF x
  <2> QED BY <2>2, <2>3, <2>4
          DEF Abstract!AnswerAllVersions, Abstract!Answers, Abstract!NoVersions, NoVersions
<1> QED BY <1>2, <1>5, <1>6

(* A getter that leaves memory as it is. *)
LEMMA OnlyAnswers ==
  ASSUME CacheInv, NEW what, NEW x, Answer(what, x), UNCHANGED mem
  PROVE  CacheInv' /\ Abstract!Answers(what, x)
<1>1. MemTyped(mem') /\ mem' = mem
  BY DEF CacheInv, Typed
<1>2. /\ CacheInv'
      /\ disk' = disk /\ AbsStore' = AbsStore /\ AbsShown' = AbsShown /\ ret' = <<what, x>>
      /\ Valid(disk.vers)' = Valid(disk.vers)
  BY <1>1, GetterKeeps
<1>3. AbsNow' = AbsNow
  BY <1>1, <1>2, Mapped, MappedNext
<1> QED BY <1>2, <1>3 DEF Abstract!Answers

(* The versions of a revision, on disk and in memory *)
LEMMA VersionsOnDisk ==
  ASSUME CacheInv, NEW r \in Revs
  PROVE  BoltVersionsFor(disk, r) =
           IF Abstract!Of(Valid(disk.vers), r) # {} THEN Abstract!Of(Valid(disk.vers), r) ELSE Miss
<1> DEFINE b == RevBucket(disk, r).vers
<1>1. b = IF disk.vers # Miss /\ r \in Range(disk.vers.list)
          THEN [time |-> disk.vers.time, list |-> VersionsOf(disk.vers.list, r)] ELSE Miss
  BY DEF CacheInv, DiskPaired
<1>2. BoltVersionsFor(disk, r) = Valid(b)
  BY DEF BoltVersionsFor
<1> HIDE DEF b
<1>3. CASE Valid(disk.vers) = Miss
  <2>1. disk.vers = Miss \/ ~(disk.vers.time >= epoch)
    BY <1>3, ListTyped DEF Valid, CacheInv, Typed, DiskTyped
  <2>2. Valid(b) = Miss
    BY <1>1, <2>1 DEF Valid
  <2> QED BY <1>2, <1>3, <2>2 DEF Abstract!Of
<1>4. CASE Valid(disk.vers) # Miss
  <2> DEFINE list == disk.vers.list
  <2>1. /\ disk.vers # Miss /\ disk.vers.time >= epoch
        /\ Valid(disk.vers) = list /\ list \in VersionLists
        /\ disk.vers.time \in Nat
    BY <1>4 DEF Valid, CacheInv, Typed, DiskTyped
  <2>2. Abstract!Of(Valid(disk.vers), r) = VersionsOf(list, r)
    BY <1>4, <2>1 DEF Abstract!Of, VersionsOf
  <2>3. VersionsOf(list, r) # {} <=> r \in Range(list)
    BY <2>1, ListTyped
  <2>4. VersionsOf(list, r) \subseteq Versions
    BY <2>1, ListTyped
  <2>5. CASE r \in Range(list)
    <3>1. b = [time |-> disk.vers.time, list |-> VersionsOf(list, r)]
      BY <1>1, <2>1, <2>5
    <3>2. b \in [time : Nat, list : VersionLists \union SUBSET Versions]
      BY <2>1, <2>4, <3>1
    <3>3. b # Miss /\ b.time >= epoch /\ b.list = VersionsOf(list, r)
      BY <2>1, <3>1, <3>2, SourceCacheAssumption
    <3> QED BY <1>2, <2>2, <2>3, <2>5, <3>3 DEF Valid
  <2>6. CASE r \notin Range(list)
    BY <1>1, <1>2, <2>2, <2>3, <2>6 DEF Valid
  <2> QED BY <2>5, <2>6
<1> QED BY <1>3, <1>4

LEMMA VersionsInMemory ==
  ASSUME CacheInv, NEW r \in Revs
  PROVE  /\ GetVersionsFor(mem, r) # Miss => GetVersionsFor(mem, r) = VersionsOf(mem.vMap, r)
         /\ GetVersionsFor(mem, r) = Miss => VersionsOf(mem.vMap, r) = {}
         /\ VersionsOf(mem.vMap, r) \subseteq Versions
         /\ mem.listed => Abstract!Of(AbsNow.vers, r) = VersionsOf(mem.vMap, r)
         /\ ~ mem.listed => VersionsOf(mem.vMap, r) = {} /\ AbsNow.vers = Valid(disk.vers)
<1>1. MemTyped(mem) /\ mem.vMap \in VersionLists
  BY DEF CacheInv, Typed, MemTyped
<1>2. /\ VersionsOf(mem.vMap, r) # {} <=> r \in Range(mem.vMap)
      /\ VersionsOf(mem.vMap, r) \subseteq Versions /\ mem.vMap # Miss
  BY <1>1, ListTyped
<1>3. \A us \in SUBSET Versions : us # Miss
  BY SourceCacheAssumption
<1>4. CASE r \in DOMAIN mem.rMap
  <2>1. GetVersionsFor(mem, r) = VersionsOf(mem.vMap, r)
    BY <1>1, <1>4 DEF MemTyped, GetVersionsFor, Get
  <2>2. GetVersionsFor(mem, r) # Miss
    BY <1>2, <1>3, <2>1
  <2> QED BY <1>1, <1>2, <2>1, <2>2, ListsNow DEF Abstract!Of, VersionsOf, MemTyped
<1>5. CASE r \notin DOMAIN mem.rMap
  <2>1. GetVersionsFor(mem, r) = Miss /\ VersionsOf(mem.vMap, r) = {}
    BY <1>1, <1>2, <1>5 DEF MemTyped, GetVersionsFor, Get
  <2> QED BY <1>1, <1>2, <2>1, ListsNow DEF Abstract!Of, VersionsOf, MemTyped
<1> QED BY <1>4, <1>5

LEMMA VersionsForSimulated ==
  ASSUME CacheInv, VersionsFor
  PROVE  CacheInv' /\ Abstract!AnswerVersions
<1>1. PICK r \in Revs :
        LET m == GetVersionsFor(mem, r)
        IN Answer("versions", IF m # Miss THEN m ELSE BoltVersionsFor(disk, r)) /\ UNCHANGED mem
  BY DEF VersionsFor
<1> DEFINE m == GetVersionsFor(mem, r)
           x == IF m # Miss THEN m ELSE BoltVersionsFor(disk, r)
           now == Abstract!Of(AbsNow.vers, r)
           behind == Abstract!Of(Abstract!Behind, r)
<1>2. CacheInv' /\ Abstract!Answers("versions", x)
  BY <1>1, OnlyAnswers
<1>3. x \in {now, {}} \/ (now = {} /\ x \in {Miss, behind})
  <2>1. BoltVersionsFor(disk, r) = IF behind # {} THEN behind ELSE Miss
    BY VersionsOnDisk, ListsNow
  <2>2. ~ mem.listed => now = behind
    BY VersionsInMemory, ListsNow
  <2> HIDE DEF behind
  <2> QED BY <2>1, <2>2, VersionsInMemory
<1> HIDE DEF x
<1> QED BY <1>2, <1>3 DEF Abstract!AnswerVersions

LEMMA RevisionForSimulated ==
  ASSUME CacheInv, RevisionFor
  PROVE  CacheInv' /\ Abstract!AnswerRevision
<1>1. PICK u \in Versions :
        LET m == ToRevision(mem, [u |-> u, r |-> Miss])
        IN Answer("revision", IF m # Miss THEN m ELSE BoltRevisionFor(disk, u)) /\ UNCHANGED mem
  BY DEF RevisionFor
<1> DEFINE m == Get(mem.vMap, u)
           x == IF m # Miss THEN m ELSE BoltRevisionFor(disk, u)
           now == Abstract!In(AbsNow.vers, u)
           behind == Abstract!In(Abstract!Behind, u)
<1>2. ToRevision(mem, [u |-> u, r |-> Miss]) = m
  BY DEF ToRevision, GetRevisionFor
<1>3. CacheInv' /\ Abstract!Answers("revision", x)
  BY <1>1, <1>2, OnlyAnswers
<1>4. BoltRevisionFor(disk, u) = behind
  BY ListsNow DEF BoltRevisionFor, Abstract!In, Abstract!Get, Get
<1>5. mem.listed => m = now
  <2>1. mem.vMap # Miss
    BY ListTyped DEF CacheInv, Typed, MemTyped
  <2> QED BY <2>1, ListsNow DEF Abstract!In, Abstract!Get, Get
<1>6. ~ mem.listed => m = Miss /\ now = behind
  BY ListsNow DEF CacheInv, Typed, MemTyped, Get
<1> HIDE DEF m, now, behind
<1>7. x = IF now # Miss THEN now ELSE behind
  BY <1>4, <1>5, <1>6
<1> QED BY <1>3, <1>7 DEF Abstract!AnswerRevision, now, behind

LEMMA UnpairedSimulated ==
  ASSUME CacheInv, Unpaired
  PROVE  CacheInv' /\ Abstract!AnswerUnpaired
<1>1. PICK r \in Revs :
        LET m == ToUnpaired(mem, [u |-> Miss, r |-> r])
        IN /\ \E x \in IF m # {Miss} THEN m ELSE BoltUnpaired(disk, r) : Answer("unpaired", x)
           /\ UNCHANGED mem
  BY DEF Unpaired
<1> DEFINE own == VersionsOf(mem.vMap, r)
           m == IF own = {} THEN {Miss} ELSE own
           now == Abstract!Of(AbsNow.vers, r)
           behind == Abstract!Of(Abstract!Behind, r)
           us == IF now # {} THEN now ELSE behind
<1>2. ToUnpaired(mem, [u |-> Miss, r |-> r]) = m
  <2>1. GetVersionsFor(mem, r) \in {Miss, {}} <=> own = {}
    BY VersionsInMemory, SourceCacheAssumption
  <2>2. GetVersionsFor(mem, r) \notin {Miss, {}} => GetVersionsFor(mem, r) = own
    BY VersionsInMemory
  <2> HIDE DEF own
  <2> QED BY <2>1, <2>2 DEF ToUnpaired
<1>3. PICK x \in IF m # {Miss} THEN m ELSE BoltUnpaired(disk, r) : Answer("unpaired", x) /\ UNCHANGED mem
  BY <1>1, <1>2
<1>4. BoltUnpaired(disk, r) = IF behind = {} THEN {Miss} ELSE behind
  <2>1. BoltVersionsFor(disk, r) = IF behind # {} THEN behind ELSE Miss
    BY VersionsOnDisk, ListsNow
  <2>2. behind \subseteq Versions
    BY ListsNow, ListTyped DEF Abstract!Of, VersionsOf
  <2>3. behind # Miss
    BY <2>2, SourceCacheAssumption
  <2> HIDE DEF behind
  <2> QED BY <2>1, <2>3 DEF BoltUnpaired
<1>5. Miss \notin own /\ (mem.listed => now = own) /\ (~ mem.listed => own = {} /\ now = behind)
  BY VersionsInMemory, ListsNow, SourceCacheAssumption
<1> HIDE DEF own, now, behind
<1>6. (IF m # {Miss} THEN m ELSE BoltUnpaired(disk, r)) = IF us = {} THEN {Miss} ELSE us
  <2>1. CASE own = {}
    BY <1>4, <1>5, <2>1
  <2>2. CASE own # {}
    BY <1>5, <2>2
  <2> QED BY <2>1, <2>2
<1>7. CacheInv' /\ Abstract!Answers("unpaired", x)
  BY <1>3, OnlyAnswers
<1> QED BY <1>3, <1>6, <1>7 DEF Abstract!AnswerUnpaired, now, behind

-----------------------------------------------------------------------------
(* The clock, and a new process *)

LEMMA TickSimulated ==
  ASSUME CacheInv, Tick
  PROVE  CacheInv' /\ UNCHANGED Abstract!vars
<1>1. UNCHANGED <<mem, disk, epoch, ret, faults>> /\ clock' = clock + 1
  BY DEF Tick
<1>2. CacheInv'
  BY <1>1 DEF CacheInv, Typed, ListsAgree
<1>3. Valid(disk.vers)' = Valid(disk.vers) /\ DiskVersions' = DiskVersions
  BY <1>1 DEF Valid, DiskVersions
<1>4. AbsShown' = AbsShown
  BY <1>1 DEF AbsShown
<1>5. AbsNow' = AbsNow /\ AbsStore' = AbsStore
  BY <1>1, <1>2, <1>3, Mapped, MappedNext
<1> QED BY <1>1, <1>2, <1>4, <1>5 DEF Abstract!vars

LEMMA StutterSimulated ==
  ASSUME CacheInv, UNCHANGED vars
  PROVE  CacheInv' /\ UNCHANGED Abstract!vars
<1>1. UNCHANGED <<mem, disk, epoch, clock, ret, faults>>
  BY DEF vars
<1>2. CacheInv'
  BY <1>1 DEF CacheInv, Typed, ListsAgree
<1>3. Valid(disk.vers)' = Valid(disk.vers) /\ DiskVersions' = DiskVersions
  BY <1>1 DEF Valid, DiskVersions
<1>4. AbsShown' = AbsShown
  BY <1>1 DEF AbsShown
<1>5. AbsNow' = AbsNow /\ AbsStore' = AbsStore
  BY <1>1, <1>2, <1>3, Mapped, MappedNext
<1> QED BY <1>1, <1>2, <1>4, <1>5 DEF Abstract!vars

LEMMA RestartSimulated ==
  ASSUME CacheInv, Restart
  PROVE  CacheInv' /\ Abstract!Restart
<1>1. /\ mem' = NewMemoryCache /\ epoch' \in 0..clock /\ ret' = <<"none", Miss>>
      /\ UNCHANGED <<disk, clock, faults>>
  BY DEF Restart
<1>2. /\ MemTyped(mem') /\ ~ mem'.listed
      /\ DOMAIN mem'.ptrees = {} /\ DOMAIN mem'.infos = {}
  BY <1>1, NewMemory
<1>3. CacheInv'
  <2>1. Typed'
    BY <1>1, <1>2 DEF CacheInv, Typed
  <2>2. DiskPaired(disk)' /\ ListsAgree'
    BY <1>1, <1>2 DEF CacheInv, ListsAgree
  <2> QED BY <2>1, <2>2 DEF CacheInv
<1>4. Over(mem'.ptrees, TreesIn(disk)) = TreesIn(disk)
  BY <1>2 DEF Over, TreesIn
<1>5. Over(InfosKept(mem'), InfosIn(disk)) = InfosIn(disk)
  <2>1. DOMAIN InfosKept(mem') = {}
    BY <1>2 DEF InfosKept
  <2> HIDE DEF InfosKept
  <2> QED BY <2>1 DEF Over, InfosIn
<1>6. AbsShown' \in BOOLEAN
  BY DEF AbsShown
<1>7. Valid(disk.vers)' = IF AbsShown' THEN DiskVersions ELSE Miss
  BY <1>1 DEF Valid, AbsShown, DiskVersions
<1>8. AbsNow' = [AbsStore EXCEPT !.vers = IF AbsShown' THEN @ ELSE Miss]
  BY <1>1, <1>2, <1>3, <1>4, <1>5, <1>7, Mapped, MappedNext
<1>9. AbsStore' = AbsStore
  BY <1>1 DEF AbsStore, DiskVersions, DiskTrees, DiskInfos
<1> QED BY <1>1, <1>3, <1>6, <1>8, <1>9 DEF Abstract!Restart, Abstract!NoAnswer

LEMMA InitSimulated == Init => CacheInv /\ Abstract!Init
<1> SUFFICES ASSUME Init PROVE CacheInv /\ Abstract!Init
  OBVIOUS
<1>1. /\ mem = NewMemoryCache /\ disk = NewBucket /\ epoch = 0 /\ clock = 0 /\ faults = 0
      /\ ret = <<"none", Miss>>
  BY DEF Init
<1>2. CacheInv
  BY <1>1, NewMemory, NewDisk DEF CacheInv, Typed, ListsAgree
<1>3. DiskVersions = Miss /\ Valid(disk.vers) = Miss /\ AbsShown = TRUE
  BY <1>1, NewDisk DEF DiskVersions, Valid, AbsShown
<1>4. TreesIn(disk) = NoVersions /\ InfosIn(disk) = NoVersions
  BY <1>1, NewDisk
<1>5. Over(mem.ptrees, NoVersions) = NoVersions
  BY <1>1, NewMemory DEF Over, NoVersions
<1>6. Over(InfosKept(mem), NoVersions) = NoVersions
  <2>1. DOMAIN InfosKept(mem) = {}
    BY <1>1, NewMemory DEF InfosKept
  <2> HIDE DEF InfosKept
  <2> QED BY <2>1 DEF Over, NoVersions
<1>7. AbsNow = Abstract!Empty /\ AbsStore = Abstract!Empty
  BY <1>1, <1>2, <1>3, <1>4, <1>5, <1>6, NewMemory, Mapped
     DEF Abstract!Empty, Abstract!NoVersions, NoVersions
<1> QED BY <1>1, <1>2, <1>3, <1>7 DEF Abstract!Init, Abstract!NoAnswer

LEMMA NextSimulated ==
  ASSUME CacheInv, [Next]_vars
  PROVE  CacheInv' /\ [Abstract!Next]_Abstract!vars
<1>1. CASE SetVersions \/ SetTree \/ SetInfo \/ Mark \/ Restart
  BY <1>1, SetVersionsSimulated, SetTreeSimulated, SetInfoSimulated, MarkSimulated, RestartSimulated
     DEF Abstract!Next
<1>2. CASE Tree \/ Info \/ AllVersions \/ VersionsFor \/ RevisionFor \/ Unpaired
  BY <1>2, TreeSimulated, InfoSimulated, AllVersionsSimulated, VersionsForSimulated,
     RevisionForSimulated, UnpairedSimulated DEF Abstract!Next
<1>3. CASE Tick \/ UNCHANGED vars
  BY <1>3, TickSimulated, StutterSimulated
<1> QED BY <1>1, <1>2, <1>3 DEF Next

-----------------------------------------------------------------------------
(* The inductive invariant: the bolt file and the memory cache are each in one
   piece after every setter, getter, failed write and restart. *)
THEOREM CacheInvariant == Spec => []CacheInv
<1>1. CacheInv /\ [Next]_vars => CacheInv'
  BY NextSimulated
<1> QED BY <1>1, InitSimulated, PTL DEF Spec

(* Both levels have the same version list while every write succeeds, and the
   versions that setVersionMap() of gps/source_cache_bolt.go keeps with each
   revision are those of the list. *)
THEOREM LevelsAlwaysAgree == Spec => []LevelsAgree
<1>1. CacheInv => LevelsAgree
  <2> SUFFICES ASSUME CacheInv, faults = 0 PROVE LevelsAgree
    BY DEF LevelsAgree
  <2>1. ASSUME NEW r \in DOMAIN disk.revs, disk.revs[r].vers # Miss
        PROVE  /\ disk.vers # Miss /\ disk.revs[r].vers.time = disk.vers.time
               /\ disk.revs[r].vers.list = VersionsOf(disk.vers.list, r)
    <3>1. disk.revs[r].vers =
            IF disk.vers # Miss /\ r \in Range(disk.vers.list)
            THEN [time |-> disk.vers.time, list |-> VersionsOf(disk.vers.list, r)] ELSE Miss
      BY DEF CacheInv, Typed, DiskTyped, DiskPaired, RevBucket
    <3>2. /\ disk.vers # Miss
          /\ disk.revs[r].vers = [time |-> disk.vers.time, list |-> VersionsOf(disk.vers.list, r)]
      BY <2>1, <3>1
    <3> QED BY <3>2
  <2>2. mem.listed /\ disk.vers # Miss => disk.vers.list = mem.vMap
    BY DEF CacheInv, ListsAgree
  <2> QED BY <2>1, <2>2 DEF LevelsAgree, VersionsOf
<1> QED BY <1>1, CacheInvariant, PTL

(* multiCache (gps/source_cache_multi.go) implements the persistent cache that
   SourceCacheSpec describes: every step of the two levels is a step of the one
   cache or leaves it as it is.  What that cache promises of versions its current
   list does not have is said there. *)
THEOREM MultiCacheIsPersistent == Spec => IsPersistentCache
<1>1. CacheInv /\ [Next]_vars => [Abstract!Next]_Abstract!vars
  BY NextSimulated
<1> QED BY <1>1, InitSimulated, CacheInvariant, PTL DEF Spec, IsPersistentCache, Abstract!Spec

-----------------------------------------------------------------------------
(* sm.lock *)

(* A process that TryLock() gave the cache to owns sm.lock until another   *)
(* process deletes it.                                                     *)
OwnsOrRobbed == \A p \in Holders : file = p \/ p \in robbed

LockInv == TypeOK /\ OwnsOrRobbed

-----------------------------------------------------------------------------
(* The pcs after a step of one process: only its own changes.              *)
LEMMA OnlyOnePc ==
  ASSUME NEW p \in Procs, NEW there \in States, pc \in [Procs -> States], GoTo(p, there)
  PROVE  /\ pc' \in [Procs -> States]
         /\ pc'[p] = there
         /\ \A q \in Procs \ {p} : pc'[q] = pc[q]
  BY DEF GoTo

(* NewSourceManager() starts without a lock and without a pid read.        *)
LEMMA LockStarts == LockInit => LockInv
  BY CacheLockAssumption DEF LockInit, LockInv, TypeOK, OwnsOrRobbed, Holders, States

(* TryLock() keeps the types: each of its steps goes to one of its states, *)
(* and CheckOwner() is reached with a pid.                                 *)
LEMMA TryLockTyped ==
  ASSUME NEW p \in Procs, TypeOK,
         Link(p) \/ Stat(p) \/ ReadOwner(p) \/ CheckOwner(p) \/ Clean(p)
  PROVE  TypeOK'
<1>1. CASE Link(p)
  BY <1>1 DEF Link, TypeOK, GoTo, States
<1>2. CASE Stat(p)
  BY <1>2 DEF Stat, TypeOK, GoTo, States
<1>3. CASE ReadOwner(p)
  <2>1. file \in Procs \/ file = None
    BY DEF TypeOK
  <2>2. CASE file = None
    BY <1>3, <2>2 DEF ReadOwner, TypeOK, GoTo, States
  <2>3. CASE file \in Procs
    BY <1>3, <2>3, CacheLockAssumption DEF ReadOwner, TypeOK, GoTo, States
  <2> QED BY <2>1, <2>2, <2>3
<1>4. CASE CheckOwner(p)
  BY <1>4 DEF CheckOwner, TypeOK, GoTo, States
<1>5. CASE Clean(p)
  BY <1>5 DEF Clean, Remove, TypeOK, GoTo, States
<1> QED BY <1>1, <1>2, <1>3, <1>4, <1>5

(* Release(), the end of a process and a crash keep the types.             *)
LEMMA ReleaseTyped ==
  ASSUME NEW p \in Procs, TypeOK,
         Unlock(p) \/ Unlink(p) \/ RemoveLock(p) \/ Exit(p) \/ Crash(p)
  PROVE  TypeOK'
<1>1. CASE Unlock(p)
  BY <1>1 DEF Unlock, TypeOK, GoTo, States
<1>2. CASE Unlink(p)
  BY <1>2 DEF Unlink, Remove, TypeOK, GoTo, States
<1>3. CASE RemoveLock(p)
  BY <1>3 DEF RemoveLock, Remove, TypeOK, GoTo, States
<1>4. CASE Exit(p)
  BY <1>4 DEF Exit, TypeOK, GoTo, States
<1>5. CASE Crash(p)
  BY <1>5 DEF Crash, TypeOK, GoTo, States
<1> QED BY <1>1, <1>2, <1>3, <1>4, <1>5

(* os.Remove() by a process that is not left using the cache: every other  *)
(* holder whose file it was is counted as robbed.                          *)
LEMMA RemoveRobs ==
  ASSUME NEW p \in Procs, NEW there \in States \ {"holding", "unlink"},
         LockInv, Remove(p), GoTo(p, there)
  PROVE  OwnsOrRobbed'
<1>1. SUFFICES ASSUME NEW q \in Procs, q \in Holders'
               PROVE  file' = q \/ q \in robbed'
  BY DEF OwnsOrRobbed, Holders
<1>2. q # p /\ q \in Holders
  BY <1>1, OnlyOnePc DEF Holders, LockInv, TypeOK
<1>3. file = q \/ q \in robbed
  BY <1>2 DEF LockInv, OwnsOrRobbed
<1>4. CASE file = q
  BY <1>2, <1>4, CacheLockAssumption DEF Remove
<1>5. CASE q \in robbed
  BY <1>5 DEF Remove
<1> QED BY <1>3, <1>4, <1>5

(* A step that leaves sm.lock and robbed alone and gives the cache to      *)
(* nobody.                                                                 *)
LEMMA NobodyServed ==
  ASSUME NEW p \in Procs, NEW there \in States, LockInv, GoTo(p, there),
         there \in {"holding", "unlink"} => p \in Holders \/ file = p,
         UNCHANGED <<file, robbed>>
  PROVE  OwnsOrRobbed'
<1>1. SUFFICES ASSUME NEW q \in Procs, q \in Holders'
               PROVE  file = q \/ q \in robbed
  BY DEF OwnsOrRobbed, Holders
<1>2. q \in Holders \/ file = q
  BY <1>1, OnlyOnePc DEF Holders, LockInv, TypeOK
<1> QED BY <1>2 DEF LockInv, OwnsOrRobbed

(* Every step of TryLock() leaves each holder with its file, or robbed.    *)
LEMMA TryLockOwns ==
  ASSUME NEW p \in Procs, LockInv,
         Link(p) \/ Stat(p) \/ ReadOwner(p) \/ CheckOwner(p) \/ Clean(p)
  PROVE  OwnsOrRobbed'
<1>1. CASE Link(p)
  <2>1. SUFFICES ASSUME NEW q \in Procs, q \in Holders'
                 PROVE  file' = q \/ q \in robbed'
    BY DEF OwnsOrRobbed, Holders
  <2>2. q \in Holders
    BY <1>1, <2>1 DEF Link, GoTo, Holders, LockInv, TypeOK
  <2>3. file = q \/ q \in robbed
    BY <2>2 DEF LockInv, OwnsOrRobbed
  <2> QED BY <1>1, <2>3, CacheLockAssumption DEF Link
<1>2. CASE Stat(p)
  <2>1. PICK there \in {"link", "holding", "owner"} :
          GoTo(p, there) /\ (there = "holding" => file = p)
    BY <1>2 DEF Stat
  <2> QED BY <1>2, <2>1, NobodyServed DEF Stat, States
<1>3. CASE ReadOwner(p)
  <2>1. PICK there \in {"error", "check"} : GoTo(p, there)
    BY <1>3 DEF ReadOwner
  <2> QED BY <1>3, <2>1, NobodyServed DEF ReadOwner, States
<1>4. CASE CheckOwner(p)
  <2>1. PICK there \in {"clean", "link"} : GoTo(p, there)
    BY <1>4 DEF CheckOwner
  <2> QED BY <1>4, <2>1, NobodyServed DEF CheckOwner, States
<1>5. CASE Clean(p)
  BY <1>5, RemoveRobs DEF Clean, States
<1> QED BY <1>1, <1>2, <1>3, <1>4, <1>5

(* So does every step of Release(), and the end of a process.              *)
LEMMA ReleaseOwns ==
  ASSUME NEW p \in Procs, LockInv,
         Unlock(p) \/ Unlink(p) \/ RemoveLock(p) \/ Exit(p) \/ Crash(p)
  PROVE  OwnsOrRobbed'
<1>1. CASE Unlock(p)
  <2>1. PICK there \in {"unlink", "remove"} : GoTo(p, there)
    BY <1>1 DEF Unlock
  <2>2. p \in Holders
    BY <1>1 DEF Unlock, Holders
  <2> QED BY <1>1, <2>1, <2>2, NobodyServed DEF Unlock, States
<1>2. CASE Unlink(p)
  BY <1>2, RemoveRobs DEF Unlink, States
<1>3. CASE RemoveLock(p)
  BY <1>3, RemoveRobs DEF RemoveLock, States
<1>4. CASE Exit(p)
  BY <1>4, NobodyServed DEF Exit, States
<1>5. CASE Crash(p)
  BY <1>5, NobodyServed DEF Crash, States
<1> QED BY <1>1, <1>2, <1>3, <1>4, <1>5

(* No step of any process breaks the invariant.                            *)
LEMMA LockSteps ==
  ASSUME LockInv, [LockNext]_lockVars
  PROVE  LockInv'
<1>1. ASSUME NEW p \in Procs, Step(p) \/ Exit(p) \/ Crash(p)
      PROVE  LockInv'
  <2>1. \/ Link(p) \/ Stat(p) \/ ReadOwner(p) \/ CheckOwner(p) \/ Clean(p)
        \/ Unlock(p) \/ Unlink(p) \/ RemoveLock(p) \/ Exit(p) \/ Crash(p)
    BY <1>1 DEF Step
  <2>2. TypeOK'
    BY <2>1, TryLockTyped, ReleaseTyped DEF LockInv
  <2>3. OwnsOrRobbed'
    BY <2>1, TryLockOwns, ReleaseOwns
  <2> QED BY <2>2, <2>3 DEF LockInv
<1>2. CASE UNCHANGED lockVars
  BY <1>2 DEF lockVars, LockInv, TypeOK, OwnsOrRobbed, Holders
<1> QED BY <1>1, <1>2 DEF LockNext

(* Two holders cannot both own sm.lock.                                    *)
LEMMA OneOwner == LockInv => ExclusiveUnlessRobbed
  BY DEF LockInv, OwnsOrRobbed, ExclusiveUnlessRobbed, Holders

(* With any number of processes and crashes, two processes use the cache   *)
(* at once only after sm.lock was deleted from under one of them: linking  *)
(* and comparing files in TryLock() is sound, deleting by name is not.     *)
THEOREM CacheSharedOnlyWhenRobbed == LockSpec => []ExclusiveUnlessRobbed
<1>1. LockInv /\ [LockNext]_lockVars => LockInv'
  BY LockSteps
<1> QED BY <1>1, LockStarts, OneOwner, PTL DEF LockSpec
=============================================================================
