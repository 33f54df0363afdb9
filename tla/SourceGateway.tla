--------------------------- MODULE SourceGateway ----------------------------
(***************************************************************************)
(* sourceGateway of gps/source.go with the source behind it: maybeSource   *)
(* (gps/maybe_source.go), the git, gopkg.in, bzr and hg sources            *)
(* (gps/vcs_source.go) and their repositories (gps/vcs_repo.go).           *)
(*                                                                         *)
(* Every method holds sg.mu from beginning to end, so one call at a time   *)
(* is inside.  While it is, the upstream repository changes, commands fail *)
(* or are interrupted, and the process is killed; the clone on disk        *)
(* outlives it, and the next process makes a new gateway for it.           *)
(*                                                                         *)
(* A command of git, bzr or hg is one step.  Versions are what is listed,  *)
(* revisions what is immutable.  The working copy of the clone has the     *)
(* files of one revision, or is soiled: an interrupted checkout or export  *)
(* left something else in it, and what a command then makes of it is open. *)
(***************************************************************************)
EXTENDS Naturals, FiniteSets, TLC, MemoryCache

CONSTANTS Versions,      \* unpaired versions
          Revs,          \* revisions
          Roots,         \* the project roots the source is asked about
          GopkginMajor,  \* the versions that gopkg.in's rules let through
          Kinds,         \* the kinds of source, of "git", "gopkgin", "bzr", "hg"
          MaxChanges, MaxFaults, MaxCrashes

ASSUME SourceGatewayAssumption ==
  /\ GopkginMajor \subseteq Versions
  /\ Kinds \subseteq {"git", "gopkgin", "bzr", "hg"}
  /\ Miss \notin Versions \union Revs \union {"empty"}
  /\ {MaxChanges, MaxFaults, MaxCrashes} \subseteq Nat

VARIABLES
  kind,      \* what sort of source this is
  upstream,  \* what the remote repository has: [vers, revs]
  clone,     \* what is on disk: [exists, valid, vers, revs, copy]
  srcState,  \* the bits that are set
  cache,     \* a memory cache
  call,      \* the call inside: [op, v, root, r, pc, todo, then, res]
  since,     \* of this process: what upstream mapped and what it lacked at some time,
             \* and whether a command failed: [mapped, lacked, hurt]
  past,      \* the working copy was soiled at some time
  changes, faults, crashes

vars == <<kind, upstream, clone, srcState, cache, call, since, past, changes, faults, crashes>>

-----------------------------------------------------------------------------
(* sourceState, in the order of the bits *)
Bits == <<"isSetUp", "existsUpstream", "existsLocally", "hasLatestVersionList", "hasLatestLocally">>
AllBits == Range(Bits)

(* What the methods ask for. *)
Ops == {"syncLocal", "existsInCache", "existsUpstream", "export", "manifest", "packages",
        "listVersions", "revisionPresentIn", "disambiguate", "sourceURL"}

VersionArgs == {v \in [u : Versions \union {Miss}, r : Revs \union {Miss}] : v.u # Miss \/ v.r # Miss}
RevisionArgs == {v \in VersionArgs : v.u = Miss}

Args(op) ==
  CASE op \in {"export", "manifest", "packages"} -> VersionArgs
    [] op \in {"revisionPresentIn", "disambiguate"} -> RevisionArgs
    [] OTHER -> {[u |-> Miss, r |-> Miss]}

(* The bits each method begins with; manifest and packages convert the version
   first. *)
Wanted(op) ==
  CASE op = "syncLocal" -> {"isSetUp", "existsLocally", "hasLatestLocally"}
    [] op = "existsUpstream" -> {"isSetUp", "existsUpstream"}
    [] op = "listVersions" -> {"isSetUp", "existsUpstream", "hasLatestVersionList"}
    [] op = "sourceURL" -> {"isSetUp"}
    [] OTHER -> {"isSetUp", "existsLocally"}

(* The project analyzer is one.  What is read of a revision is the root it was
   asked for and the files that were in the working copy: those of a revision,
   or Miss if it was soiled. *)
Analyzer == "dep"
Read(root, files) == [root |-> root, files |-> files]

Nothing == [u |-> Miss, r |-> Miss]

Idle == [op |-> "none", v |-> Nothing, root |-> Miss, r |-> Miss, pc |-> "idle",
         todo |-> {}, then |-> "idle", res |-> "none"]

(* The version maps of a repository with these revisions; it has a branch. *)
VersionMaps(revs) == UNION {[S -> revs] : S \in (SUBSET Versions) \ {{}}}

(* Every version with the revision upstream maps it to, or Miss *)
Mapping(up) == {<<v, Get(up.vers, v)>> : v \in Versions}

Upstreams == UNION {[vers : VersionMaps(revs), revs : {revs}] : revs \in (SUBSET Revs) \ {{}}}

NoClone == [exists |-> FALSE, valid |-> TRUE, vers |-> NoVersions, revs |-> {}, copy |-> Miss]

(* A complete clone, with some revision checked out *)
Clones(up) ==
  {[exists |-> TRUE, valid |-> TRUE, vers |-> up.vers, revs |-> up.revs, copy |-> r] : r \in up.revs}

(* What a clone that was interrupted leaves: nothing, a directory that is not a
   repository, or a repository without revisions. *)
Remains ==
  {NoClone, [NoClone EXCEPT !.exists = TRUE, !.valid = FALSE], [NoClone EXCEPT !.exists = TRUE]}

Soiled(c) == c.exists /\ c.copy = Miss

Fresh(up) == [mapped |-> Mapping(up), lacked |-> Revs \ up.revs, hurt |-> FALSE]

(* An earlier process may have left a clone of any age. *)
Init ==
  /\ kind \in Kinds
  /\ upstream \in Upstreams
  /\ clone \in {NoClone} \union UNION {Clones(up) : up \in Upstreams}
  /\ srcState = {} /\ cache = NewMemoryCache /\ call = Idle
  /\ since = Fresh(upstream)
  /\ past = FALSE
  /\ changes = 0 /\ faults = 0 /\ crashes = 0

-----------------------------------------------------------------------------
(* Steps of a call *)

Return(res) == call' = [Idle EXCEPT !.res = res]

(* require() of these bits; when there is none to see to, on to there, where
   "answer" is the end of a method that answers with what require() saw to. *)
Requiring(c, todo) ==
  IF todo # {} THEN call' = [c EXCEPT !.pc = "require", !.todo = todo]
  ELSE IF c.then = "answer" THEN Return("ok")
  ELSE call' = [c EXCEPT !.pc = c.then, !.todo = {}]

Demand(wanted, there) == Requiring([call EXCEPT !.then = there], wanted \ srcState)

(* The command succeeds. *)
Succeed == UNCHANGED <<since, faults>>

(* The command fails for a reason of its own, or is interrupted. *)
Fail ==
  /\ faults < MaxFaults
  /\ faults' = faults + 1
  /\ since' = [since EXCEPT !.hurt = TRUE]

(* The repository is now this. *)
Disk(c) ==
  /\ clone' = c
  /\ past' = (past \/ Soiled(c))

world == <<kind, upstream, changes, crashes>>
disk  == <<clone, past>>
known == <<srcState, cache>>

(* Where a method goes when it has what it wants first *)
After(op) ==
  CASE op = "export" -> "convert"
    [] op \in {"revisionPresentIn", "disambiguate"} -> op
    [] OTHER -> "answer"

Begin(op, v, root) ==
  /\ call.pc = "idle"
  /\ LET new == [Idle EXCEPT !.op = op, !.v = v, !.root = root, !.r = v.r, !.then = After(op)]
     IN IF op \in {"manifest", "packages"} THEN call' = [new EXCEPT !.pc = "convert"]
        ELSE Requiring(new, Wanted(op) \ srcState)
  /\ UNCHANGED <<world, disk, known, since, faults>>

(* The first bit of todo that is still to be seen to *)
Flag == Bits[CHOOSE i \in DOMAIN Bits : Bits[i] \in call.todo /\ \A j \in 1..(i - 1) : Bits[j] \notin call.todo]

AtFlag(bit) == call.pc = "require" /\ call.todo # {} /\ Flag = bit

(* The bit is seen to, and those that came with it. *)
Checked(bits) ==
  /\ srcState' = srcState \union bits
  /\ Requiring(call, call.todo \ bits)

(* An error of any bit ends require(), and with it the method; the bits set until
   then stay. *)
RequireFails ==
  /\ Fail
  /\ Return("error")
  /\ UNCHANGED <<world, known>>

(* maybeSource.try().  newCtxRepo() removes a directory that is not a repository.
   For git, listing the versions takes the place of a ping, and a clone that is
   there is cleaned up; for gopkg.in it is not. *)
AfterNewRepo == IF clone.valid THEN clone ELSE NoClone

LocalBit == IF AfterNewRepo.exists THEN {"existsLocally"} ELSE {}

GitBits == {"isSetUp", "existsUpstream", "hasLatestVersionList"} \union LocalBit

(* Mutant: the versions of a clone that is there are taken for upstream's. *)
TryGitFromClone ==
  /\ AtFlag("isSetUp") /\ kind = "git"
  /\ Succeed
  /\ Disk(AfterNewRepo)
  /\ cache' = SetVersionMap(cache, IF clone.exists THEN clone.vers ELSE upstream.vers)
  /\ Checked(GitBits)
  /\ UNCHANGED world

(* Mutant: a clone that is there is not cleaned up. *)
TryGitUnclean ==
  /\ AtFlag("isSetUp") /\ kind = "git"
  /\ Succeed
  /\ Disk(AfterNewRepo)
  /\ cache' = SetVersionMap(cache, upstream.vers)
  /\ Checked(GitBits)
  /\ UNCHANGED world

TryGit ==
  /\ AtFlag("isSetUp") /\ kind = "git"
  /\ \/ /\ Succeed
        /\ IF Soiled(AfterNewRepo)      \* ensureClean(): reset --hard and clean
           THEN \E r \in IF clone.revs = {} THEN {"empty"} ELSE clone.revs :
                  Disk([clone EXCEPT !.copy = r])
           ELSE Disk(AfterNewRepo)
        /\ cache' = SetVersionMap(cache, upstream.vers)
        /\ Checked(GitBits)
     \/ /\ RequireFails
        /\ Disk(AfterNewRepo)
  /\ UNCHANGED world

(* listVersions() of gopkg.in lets through what its major version asks for. *)
GopkginVersions == Restrict(upstream.vers, DOMAIN upstream.vers \cap GopkginMajor)

TryGopkgin ==
  /\ AtFlag("isSetUp") /\ kind = "gopkgin"
  /\ Disk(AfterNewRepo)
  /\ \/ /\ Succeed
        /\ cache' = SetVersionMap(cache, GopkginVersions)
        /\ Checked(GitBits)
     \/ RequireFails
  /\ UNCHANGED world

TryOther ==
  /\ AtFlag("isSetUp") /\ kind \in {"bzr", "hg"}
  /\ Disk(AfterNewRepo)
  /\ \/ /\ Succeed
        /\ Checked({"isSetUp", "existsUpstream"} \union LocalBit)
        /\ UNCHANGED cache
     \/ RequireFails
  /\ UNCHANGED world

(* Mutant: a clone that was there before counts as the latest. *)
RequireLocallyLatest ==
  /\ AtFlag("existsLocally") /\ clone.exists
  /\ Checked({"existsLocally", "hasLatestLocally"})
  /\ Succeed
  /\ UNCHANGED <<world, disk, cache>>

(* sourceExistsLocally: what is not there is cloned, and is then the latest too. *)
RequireLocally ==
  /\ AtFlag("existsLocally")
  /\ \/ /\ clone.exists
        /\ Checked({"existsLocally"})
        /\ Succeed
        /\ UNCHANGED <<disk, cache>>
     \/ /\ ~ clone.exists
        /\ \E c \in Clones(upstream) : Disk(c)
        /\ Checked({"existsLocally", "hasLatestLocally"})
        /\ Succeed
        /\ UNCHANGED cache
     \/ /\ ~ clone.exists
        /\ RequireFails
        /\ \E c \in Remains : Disk(c)
  /\ UNCHANGED world

(* listVersions() of bzr and hg: the tags and branches of the clone. *)
LocalVersions(c) == c.vers

(* sourceHasLatestVersionList: git has it from being set up.  bzr and hg list the
   versions of the clone, which they make if there is none. *)
RequireVersionList ==
  /\ AtFlag("hasLatestVersionList")
  /\ \/ /\ \E c \in IF clone.exists THEN {clone} ELSE Clones(upstream) :
             /\ Disk(c)
             /\ cache' = SetVersionMap(cache, LocalVersions(c))
        /\ Checked({"hasLatestVersionList"})
        /\ Succeed
     \/ /\ RequireFails
        /\ \E c \in IF clone.exists THEN {clone} ELSE Remains : Disk(c)
  /\ UNCHANGED world

(* What a fetch adds; no revision goes away. *)
Fetched == [clone EXCEPT !.vers = upstream.vers, !.revs = @ \union upstream.revs]

RequireLatest ==
  /\ AtFlag("hasLatestLocally")
  /\ \/ /\ clone.valid
        /\ Disk(Fetched)
        /\ Checked({"hasLatestLocally"})
        /\ Succeed
        /\ UNCHANGED cache
     \/ /\ RequireFails
        /\ UNCHANGED disk
     \/ /\ ~ clone.valid
        /\ Return("error")
        /\ UNCHANGED <<disk, known, since, faults>>
  /\ UNCHANGED world

-----------------------------------------------------------------------------
(* What is cached for a revision *)
Cached(r) ==
  IF call.op = "packages" THEN GetPackageTree(cache, r) ELSE GetManifestAndLock(cache, r, Analyzer)

(* With the revision known, an export can begin; the others look in the cache. *)
Converted(r) ==
  LET c == [call EXCEPT !.r = r, !.then = "work"]
  IN IF call.op = "export" THEN Requiring(c, {})
     ELSE IF Cached(r) # Miss THEN Return("ok")
     ELSE Requiring(c, {"isSetUp", "existsLocally"} \ srcState)

(* convertToRevision() *)
Convert ==
  /\ call.pc \in {"convert", "convertAgain"}
  /\ LET r == ToRevision(cache, call.v)
     IN IF r # Miss THEN Converted(r)
        ELSE IF call.pc = "convertAgain" \/ "hasLatestVersionList" \in srcState
             THEN Return("error")
             ELSE Demand({"isSetUp", "hasLatestVersionList"}, "convertAgain")
  /\ UNCHANGED <<world, disk, known, since, faults>>

(* Mutant: an error is final. *)
RetryNever == Return("error")

(* The source's answer is an error: once more after an update, unless the clone
   is the latest already. *)
Retry ==
  IF call.pc = "work" /\ "hasLatestLocally" \notin srcState
  THEN Demand({"hasLatestLocally"}, "workAgain")
  ELSE Return("error")

Has(r) == clone.valid /\ r \in clone.revs

AtWork(ops) == call.pc \in {"work", "workAgain"} /\ call.op \in ops

Spoilt == [clone EXCEPT !.copy = Miss]

(* A checkout of r: from a soiled copy it may fail, or keep some of what is there. *)
CheckedOut(r) ==
  {[clone EXCEPT !.copy = x] : x \in IF Soiled(clone) THEN {r, Miss} ELSE {r}}

Store(c, files) ==
  IF call.op = "packages" THEN SetPackageTree(c, call.r, Read(call.root, files))
  ELSE SetManifestAndLock(c, call.r, Analyzer, Read(call.root, files))

(* getManifestAndLock() and listPackages() of the source check the revision out
   and read the working copy; the answer is cached. *)
WorkRead ==
  /\ AtWork({"manifest", "packages"})
  /\ \/ /\ Has(call.r)
        /\ \E c \in CheckedOut(call.r) :
             /\ Disk(c)
             /\ cache' = Store(cache, c.copy)
        /\ Return("ok") /\ Succeed
        /\ UNCHANGED srcState
     \/ /\ ~ Has(call.r) \/ Soiled(clone)
        /\ Retry /\ Succeed
        /\ UNCHANGED <<disk, known>>
     \/ /\ Fail /\ Retry
        /\ \E c \in {clone, Spoilt} : Disk(c)
        /\ UNCHANGED known
  /\ UNCHANGED world

(* exportRevisionTo() of git reads the revision into an index of its own and
   leaves the working copy alone; the index is put back when that is done, and
   an error of putting it back is ignored. *)
WorkExportGit ==
  /\ AtWork({"export"}) /\ kind \in {"git", "gopkgin"}
  /\ \/ /\ Has(call.r)
        /\ Return("ok") /\ Succeed
        /\ UNCHANGED disk
     \/ /\ ~ Has(call.r) \/ Soiled(clone)
        /\ Retry /\ Succeed
        /\ UNCHANGED disk
     \/ /\ Fail /\ Retry
        /\ UNCHANGED disk
     \/ /\ Has(call.r)
        /\ Fail /\ Return("ok")
        /\ Disk(Spoilt)
  /\ UNCHANGED <<world, known>>

(* exportRevisionTo() of the others checks the revision out and copies the files. *)
WorkExportCopy ==
  /\ AtWork({"export"}) /\ kind \in {"bzr", "hg"}
  /\ \/ /\ Has(call.r)
        /\ \E c \in CheckedOut(call.r) : Disk(c)
        /\ Return("ok") /\ Succeed
     \/ /\ ~ Has(call.r) \/ Soiled(clone)
        /\ Retry /\ Succeed
        /\ UNCHANGED disk
     \/ /\ Fail /\ Retry
        /\ \E c \in {clone, Spoilt} : Disk(c)
  /\ UNCHANGED <<world, known>>

(* revisionPresentIn(): what the cache knows of, or the clone as it is now. *)
RevisionPresentIn ==
  /\ call.pc = "revisionPresentIn"
  /\ IF GetVersionsFor(cache, call.r) # Miss
     THEN Return("ok") /\ UNCHANGED cache
     ELSE \/ /\ Has(call.r)
             /\ Return("ok")
             /\ cache' = MarkRevisionExists(cache, call.r)
          \/ /\ ~ Has(call.r)
             /\ Return("absent") /\ UNCHANGED cache
  /\ UNCHANGED <<world, disk, srcState, since, faults>>

DisambiguateRevision ==
  /\ call.pc = "disambiguate"
  /\ Return(IF Has(call.r) THEN "ok" ELSE "error")
  /\ UNCHANGED <<world, disk, known, since, faults>>

-----------------------------------------------------------------------------
(* Somebody pushes to the remote repository, with or without force. *)
UpstreamChanges ==
  /\ changes < MaxChanges
  /\ changes' = changes + 1
  /\ \E up \in Upstreams \ {upstream} :
       /\ upstream' = up
       /\ since' = [since EXCEPT !.mapped = @ \union Mapping(up), !.lacked = @ \union (Revs \ up.revs)]
  /\ UNCHANGED <<kind, disk, known, call, faults, crashes>>

(* What being killed in the middle of a command leaves on disk *)
Interrupted ==
  CASE call.pc \in {"work", "workAgain"} -> {clone, Spoilt}
    [] call.pc = "require" /\ call.todo # {} /\ ~ clone.exists
       /\ Flag \in {"existsLocally", "hasLatestVersionList"} -> Remains
    [] OTHER -> {clone}

(* The process ends or is killed, and the next one makes a new gateway. *)
Restart ==
  /\ crashes < MaxCrashes
  /\ crashes' = crashes + 1
  /\ \E c \in Interrupted : Disk(c)
  /\ srcState' = {} /\ cache' = NewMemoryCache /\ call' = Idle
  /\ since' = Fresh(upstream)
  /\ UNCHANGED <<kind, upstream, changes, faults>>

Method == \E op \in Ops : \E v \in Args(op), root \in Roots : Begin(op, v, root)

Step ==
  \/ TryGit \/ TryGopkgin \/ TryOther
  \/ RequireLocally \/ RequireVersionList \/ RequireLatest
  \/ Convert \/ WorkRead \/ WorkExportGit \/ WorkExportCopy
  \/ RevisionPresentIn \/ DisambiguateRevision

Next == Method \/ Step \/ UpstreamChanges \/ Restart

Spec == Init /\ [][Next]_vars

Symmetry == Permutations(Revs)

-----------------------------------------------------------------------------
(* The bits say what is so.  A clone that is marked as there is there; one that is
   marked as the latest has every revision that upstream had all the time; the
   version list is the cache's.  No bit is set before the source is set up, and
   no ping is needed after that (existsUpstream() of gps/vcs_source.go, which
   has its answer the wrong way round, is never asked). *)
BitsTrue ==
  /\ "existsLocally" \in srcState => clone.exists
  /\ "hasLatestLocally" \in srcState =>
       "existsLocally" \in srcState /\ Revs \ since.lacked \subseteq clone.revs
  /\ "hasLatestVersionList" \in srcState <=> cache.listed
  /\ srcState # {} => {"isSetUp", "existsUpstream"} \subseteq srcState

(* The version list a git gateway has cached pairs no version with a revision that
   upstream did not pair it with at some time since the process began, whatever
   is on disk from before. *)
ListFresh ==
  kind \in {"git", "gopkgin"} /\ cache.listed =>
    \A u \in Versions :
      \/ <<u, Get(cache.vMap, u)>> \in since.mapped
      \/ kind = "gopkgin" /\ u \notin GopkginMajor /\ Get(cache.vMap, u) = Miss

(* What is cached for a revision was read from that revision's files, unless a
   checkout went wrong in this very process; for sources other than git, whose
   working copy is not cleaned up when they are set up, in any process. *)
Spoiling == IF kind = "git" THEN since.hurt ELSE past

TreesTrue ==
  ~ Spoiling =>
    /\ \A r \in DOMAIN cache.ptrees : cache.ptrees[r].files = r
    /\ \A k \in DOMAIN cache.infos : cache.infos[k].files = k[1]

(* A process in which no command failed answers every request for the files of a
   version that upstream had all the time, however old the clone is and however
   it was left behind: a revision the clone lacks is fetched.  (bzr and hg look
   a version up in the clone as it is; what is not repaired when they, or
   gopkg.in, are set up may fail later.) *)
Obtainable ==
  IF call.r # Miss THEN call.r \notin since.lacked
  ELSE /\ <<call.v.u, Miss>> \notin since.mapped
       /\ kind \in {"git", "gopkgin"}
       /\ kind = "gopkgin" => call.v.u \in GopkginMajor

Answered ==
  [][call.op \in {"export", "manifest", "packages"} /\ call'.res = "error" /\ call'.pc = "idle"
     /\ Obtainable => since'.hurt \/ (kind # "git" /\ past)]_vars

(* Not so: what is answered for a root is what was first read for any root
   (the FIXME of listPackages()). *)
TreeRooted ==
  [][call.pc \in {"convert", "convertAgain"} /\ call'.res = "ok"
       => Cached(ToRevision(cache, call.v)).root = call.root]_vars

(* Not so for bzr and hg: the list that counts as the latest is that of the clone. *)
ListFreshForAll ==
  cache.listed => \A u \in Versions : <<u, Get(cache.vMap, u)>> \in since.mapped

=============================================================================
