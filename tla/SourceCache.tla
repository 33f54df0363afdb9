---------------------------- MODULE SourceCache -----------------------------
(***************************************************************************)
(* The two-level cache of a source: multiCache (gps/source_cache_multi.go) *)
(* over a memory cache and a bolt cache (gps/source_cache_bolt.go), with   *)
(* processes that end and begin again over the same file.                  *)
(*                                                                         *)
(* A bolt update is a transaction: it is all on disk or, when it fails,    *)
(* which is only logged, nothing is.  A process that is killed in the      *)
(* middle of a setter is one whose write failed and that ended.  Buckets   *)
(* are records; a version list is kept under the time it was written.      *)
(* What is stored of a tree, a manifest or a lock stands for what it       *)
(* means; how it is encoded in buckets and messages is left out.           *)
(***************************************************************************)
EXTENDS Naturals, MemoryCache

CONSTANTS Versions, Revs,
          TreesOf,    \* the package trees that may be stored for each revision
          InfosOf,    \* the manifests with locks that may be stored for each revision
          NoLock,     \* the lock of a project that has none
          MaxClock, MaxFaults

VersionLists == UNION {[S -> Revs] : S \in SUBSET Versions}

(* Miss is no value that is stored.  What a revision is does not change: it has
   a lock or it has none. *)
ASSUME SourceCacheAssumption ==
  /\ MaxClock \in Nat /\ MaxFaults \in Nat
  /\ Miss \notin Versions \union Revs \union VersionLists
  /\ \A us \in SUBSET Versions : us # Miss
  /\ Miss \notin [time : Nat, list : VersionLists \union SUBSET Versions]
  /\ DOMAIN TreesOf = Revs /\ DOMAIN InfosOf = Revs
  /\ \A r \in Revs :
       /\ Miss \notin TreesOf[r] \union InfosOf[r]
       /\ \A i \in InfosOf[r] : /\ i = [manifest |-> i.manifest, lock |-> i.lock]
                                /\ Miss \notin {i.manifest, i.lock}
       /\ \A i, j \in InfosOf[r] : i.lock = NoLock <=> j.lock = NoLock

VARIABLES
  mem,     \* a memory cache
  disk,    \* the source's bucket: [vers, revs]
  epoch,   \* version lists written before it do not count
  clock,   \* seconds, as the file's timestamps have them
  ret,     \* the last answer
  faults

vars == <<mem, disk, epoch, clock, ret, faults>>

-----------------------------------------------------------------------------
(* The bolt cache.  A bucket that is not there is Miss. *)

NewRevBucket == [vers |-> Miss, tree |-> Miss, manifest |-> Miss, lock |-> Miss]

NewBucket == [vers |-> Miss, revs |-> NoVersions]

RevBucket(d, r) == IF r \in DOMAIN d.revs THEN d.revs[r] ELSE NewRevBucket

(* updateRevBucket(): the revision's bucket is made if need be, and changed. *)
UpdateRev(d, r, f(_)) ==
  [d EXCEPT !.revs = Set(@, r, f(RevBucket(d, r)))]

BoltMark(d, r) == UpdateRev(d, r, LAMBDA b : b)

BoltSetTree(d, r, t) == UpdateRev(d, r, LAMBDA b : [b EXCEPT !.tree = t])

(* A lock that is nil leaves the bucket of the last one as it is. *)
BoltSetInfo(d, r, i) ==
  UpdateRev(d, r, LAMBDA b : [b EXCEPT !.manifest = i.manifest,
                                       !.lock = IF i.lock = NoLock THEN @ ELSE i.lock])

(* Mutant: the lists of revisions that are no longer listed stay. *)
BoltSetVersionMapKeeps(d, list, time) ==
  [vers |-> [time |-> time, list |-> list],
   revs |-> [r \in DOMAIN d.revs \union Range(list) |->
              IF r \in Range(list)
              THEN [RevBucket(d, r) EXCEPT
                      !.vers = [time |-> time, list |-> {u \in DOMAIN list : list[u] = r}]]
              ELSE RevBucket(d, r)]]

(* setVersionMap(): the lists before go away, the source's and each revision's. *)
BoltSetVersionMap(d, list, time) ==
  [vers |-> [time |-> time, list |-> list],
   revs |-> [r \in DOMAIN d.revs \union Range(list) |->
              [RevBucket(d, r) EXCEPT !.vers =
                 IF r \in Range(list) THEN [time |-> time, list |-> {u \in DOMAIN list : list[u] = r}]
                 ELSE Miss]]]

(* cacheFindLatestValid() *)
Valid(bucket) == IF bucket # Miss /\ bucket.time >= epoch THEN bucket.list ELSE Miss

BoltTree(d, r) == RevBucket(d, r).tree

BoltInfo(d, r) ==
  LET b == RevBucket(d, r)
  IN IF b.manifest = Miss THEN Miss
     ELSE [manifest |-> b.manifest, lock |-> IF b.lock = Miss THEN NoLock ELSE b.lock]

BoltVersionsFor(d, r) == Valid(RevBucket(d, r).vers)

(* An empty list is not found. *)
BoltAllVersions(d) == IF Valid(d.vers) = NoVersions THEN Miss ELSE Valid(d.vers)

BoltRevisionFor(d, u) == IF Valid(d.vers) = Miss THEN Miss ELSE Get(Valid(d.vers), u)

BoltUnpaired(d, r) == IF BoltVersionsFor(d, r) = Miss THEN {Miss} ELSE BoltVersionsFor(d, r)


-----------------------------------------------------------------------------
(* multiCache *)

Init ==
  /\ mem = NewMemoryCache /\ disk = NewBucket
  /\ epoch = 0 /\ clock = 0
  /\ ret = <<"none", Miss>> /\ faults = 0

(* A setter sets both; an error on disk is logged. *)
Setter(m, d) ==
  /\ mem' = m
  /\ \/ disk' = d /\ UNCHANGED faults
     \/ faults < MaxFaults /\ faults' = faults + 1 /\ UNCHANGED disk
  /\ ret' = <<"none", Miss>>
  /\ UNCHANGED <<epoch, clock>>

(* Mutant: what is on disk is not replaced. *)
SetVersionsOnce ==
  \E list \in VersionLists :
    Setter(SetVersionMap(mem, list),
           IF disk.vers = Miss THEN BoltSetVersionMap(disk, list, clock) ELSE disk)

SetVersions ==
  \E list \in VersionLists :
    Setter(SetVersionMap(mem, list), BoltSetVersionMap(disk, list, clock))

SetTree ==
  \E r \in Revs : \E t \in TreesOf[r] : Setter(SetPackageTree(mem, r, t), BoltSetTree(disk, r, t))

SetInfo ==
  \E r \in Revs : \E i \in InfosOf[r] :
    Setter(SetManifestAndLock(mem, r, "dep", i), BoltSetInfo(disk, r, i))

Mark == \E r \in Revs : Setter(MarkRevisionExists(mem, r), BoltMark(disk, r))

Answer(what, x) == ret' = <<what, x>> /\ UNCHANGED <<disk, epoch, clock, faults>>

(* A getter answers from memory or else from disk.  A tree, an information or a
   version list that was on disk is put in memory. *)
Tree ==
  \E r \in Revs :
    LET m == GetPackageTree(mem, r) d == BoltTree(disk, r)
    IN /\ Answer("tree", IF m # Miss THEN m ELSE d)
       /\ mem' = IF m = Miss /\ d # Miss THEN SetPackageTree(mem, r, d) ELSE mem

Info ==
  \E r \in Revs :
    LET m == GetManifestAndLock(mem, r, "dep") d == BoltInfo(disk, r)
    IN /\ Answer("info", IF m # Miss THEN m ELSE d)
       /\ mem' = IF m = Miss /\ d # Miss THEN SetManifestAndLock(mem, r, "dep", d) ELSE mem

AllVersions ==
  LET m == GetAllVersions(mem) d == BoltAllVersions(disk)
  IN /\ Answer("all", IF m # Miss THEN m ELSE d)
     /\ mem' = IF m = Miss /\ d # Miss THEN SetVersionMap(mem, d) ELSE mem

VersionsFor ==
  \E r \in Revs :
    LET m == GetVersionsFor(mem, r)
    IN Answer("versions", IF m # Miss THEN m ELSE BoltVersionsFor(disk, r)) /\ UNCHANGED mem

(* getRevisionFor(), and toRevision() of an unpaired version *)
RevisionFor ==
  \E u \in Versions :
    LET m == ToRevision(mem, [u |-> u, r |-> Miss])
    IN Answer("revision", IF m # Miss THEN m ELSE BoltRevisionFor(disk, u)) /\ UNCHANGED mem

(* toUnpaired() of a revision; which version of several is open. *)
Unpaired ==
  \E r \in Revs :
    LET m == ToUnpaired(mem, [u |-> Miss, r |-> r])
    IN (\E x \in IF m # {Miss} THEN m ELSE BoltUnpaired(disk, r) : Answer("unpaired", x)) /\ UNCHANGED mem

Tick == clock < MaxClock /\ clock' = clock + 1 /\ UNCHANGED <<mem, disk, epoch, ret, faults>>

(* The process ends; the next opens the file, with an epoch of its own. *)
Restart ==
  /\ mem' = NewMemoryCache
  /\ epoch' \in 0..clock
  /\ ret' = <<"none", Miss>>
  /\ UNCHANGED <<disk, clock, faults>>

Next ==
  \/ SetVersions \/ SetTree \/ SetInfo \/ Mark \/ Restart \/ Tick
  \/ Tree \/ Info \/ AllVersions \/ VersionsFor \/ RevisionFor \/ Unpaired

Spec == Init /\ [][Next]_vars

-----------------------------------------------------------------------------
(* The two levels are one persistent cache: its values are those in memory, and
   where there is none those on disk. *)

Over(m, d) == [k \in DOMAIN m \union DOMAIN d |-> IF k \in DOMAIN m THEN m[k] ELSE d[k]]

DiskTrees == [r \in {x \in DOMAIN disk.revs : BoltTree(disk, x) # Miss} |-> BoltTree(disk, r)]
DiskInfos == [r \in {x \in DOMAIN disk.revs : BoltInfo(disk, x) # Miss} |-> BoltInfo(disk, r)]
DiskVersions == IF disk.vers = Miss THEN Miss ELSE disk.vers.list
MemInfos == [r \in {k[1] : k \in DOMAIN mem.infos} |-> mem.infos[<<r, "dep">>]]

AbsStore == [vers |-> DiskVersions, trees |-> DiskTrees, infos |-> DiskInfos]
AbsNow ==
  [vers |-> IF mem.listed THEN mem.vMap ELSE Valid(disk.vers),
   trees |-> Over(mem.ptrees, DiskTrees), infos |-> Over(MemInfos, DiskInfos)]
AbsShown == disk.vers = Miss \/ disk.vers.time >= epoch

Abstract == INSTANCE SourceCacheSpec
  WITH now <- AbsNow, store <- AbsStore, shown <- AbsShown,
       Trees <- UNION Range(TreesOf), Infos <- UNION Range(InfosOf)

(* multiCache over memory and bolt implements SourceCacheSpec: whatever was set,
   read, written to disk or not, and however often the process began again, a
   getter answers the value last set, or after a restart the one last written;
   and reading never changes a value.  A version or revision that the list last set
   does not have may be answered from an older list that a failed write left on
   disk, and the versions of a revision may be answered as the empty set. *)
IsPersistentCache == Abstract!Spec

(* While every write has reached the disk, both levels have the same version list,
   and the versions kept with each revision are those of the list. *)
LevelsAgree ==
  faults = 0 => /\ mem.listed /\ disk.vers # Miss => disk.vers.list = mem.vMap
                /\ \A r \in DOMAIN disk.revs :
                     disk.revs[r].vers # Miss =>
                       /\ disk.vers # Miss /\ disk.revs[r].vers.time = disk.vers.time
                       /\ disk.revs[r].vers.list = {u \in DOMAIN disk.vers.list : disk.vers.list[u] = r}

(* Not so: a tree that is read from disk enters its revision in memory without
   versions, and hides the versions on disk. *)
VersionsForComplete ==
  [][\A r \in Revs : GetVersionsFor(mem', r) = {} /\ ~ mem'.listed => BoltVersionsFor(disk, r) \in {Miss, {}}]_vars

=============================================================================
