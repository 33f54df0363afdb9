# A TLA+ model of dep

dep is a dependency manager for Go. `dep ensure` reads the project's manifest and imports, lets the
solver of `gps` choose one version of every project that is needed, and writes `Gopkg.lock` and
`vendor/` in a way that is meant to leave the old ones intact when something goes wrong. Sources are
kept in a cache on disk that several dep processes share.

This directory holds TLA+ modules for the parts of it where state is shared, undone, retried or left
half done: the solver's search, the transactional writer, the lock on the cache, the `SourceMgr` with
its supervisor and signal handling, the coordinator that hands out one gateway per source, the
gateway over its clone, the two-level cache, deduction of project roots, and `dep ensure` from command
to command. The algorithms they use (versions and constraints, reach maps, lock differences, pruning)
are operators checked against reference definitions. TLC checks all of it on small instances, and
TLAPS proves every safety property of the passing runs for instances of any size.

Paths below are relative to the repository. `PROJECT.json` maps every definition to the lines it
models.

## 1. Inventory

### Components, their state and their operations

| Component | Code | State it keeps | Operations |
|---|---|---|---|
| Solver | `gps/solver.go`, `satisfy.go`, `selection.go`, `version_queue.go`, `identifier.go` | `sel` (selected atoms, dependers of each project, case-folded roots), `unsel` (a heap of what is still to be selected), `vqs` (a version queue for each selected project) | `solve`, `selectRoot`, `createVersionQueue`, `findValidVersion`, `check`, `selectAtom`, `backtrack`, `unselectLast` |
| Root data, `Prepare()` | `gps/rootdata.go`, `solver.go`, `hash.go` | manifest, overrides, ignored and required packages, root lock | validation, the root's dependencies |
| Bridge | `gps/bridge.go` | version lists per project | sorting, matching, existence checks |
| Versions and constraints | `gps/version.go`, `constraints.go`, `version_unifier.go` | none | compare, match, intersect, pair |
| `SourceMgr`, supervisor | `gps/source_manager.go` | `releasing`, `running`, the condition, `qch`, the lock file | every exported method, `Release`, `HandleSignals`, `StopSignalHandling` |
| Source coordinator | `gps/source.go` | `nameToURL`, `srcs`, `protoSrcs` | `getSourceGatewayFor` |
| Source gateway | `gps/source.go` | `srcState` bits, its cache | `require` and the methods that call it |
| Source caches | `gps/source_cache*.go` | maps, a bolt file with epochs, both together | get and set of manifests, trees, versions |
| Deduction | `gps/deduce.go`, `discovery.go`, `typed_radix.go` | the trie of roots, a `sync.Once` per HTTP lookup | `deduceRootPath` |
| VCS sources | `gps/maybe_source.go`, `vcs_*.go` | clones on disk | try, list, export |
| Commands | `gps/cmd*.go` | a child process | run, interrupt, kill |
| Package trees | `gps/pkgtree/` | none | reach map, ignored rules, digests, verification |
| Pruning | `gps/prune.go`, `filesystem.go`, `strings.go` | files of a project | prune |
| Locks, diffs | `gps/lock.go`, `lockdiff.go`, `manifest.go` | none | compare |
| Writing a tree | `gps/solution.go` | `vendor/` being written | `WriteDepTree` with concurrent writers |
| SafeWriter | `txn_writer.go`, `internal/fs/` | manifest, lock and vendor on disk, a temp dir, backups | `NewSafeWriter`, `Write` |
| Project files | `project.go`, `manifest.go`, `lock.go`, `context.go`, `analyzer.go` | `Gopkg.toml`, `Gopkg.lock` | load, save |
| Commands of dep | `cmd/dep/` | none of their own | ensure, init, status, prune |
| Importers, feedback | `internal/importers/`, `internal/feedback/` | none | convert |
| Traces, metrics, messages | `gps/trace.go`, `metrics.go`, `solve_failures.go` | timings | print |

### How they interact

`dep ensure` opens a `SourceMgr`, which takes the lock file of the cache and starts a signal handler.
The solver asks the bridge for versions and packages; the bridge asks the `SourceMgr`; that asks the
coordinator for a gateway; the gateway runs the VCS and fills its caches. Everything that touches a
source runs under the supervisor, which counts it, so that `Release()`, called at the end or by the
signal handler, can cancel the context and wait before it gives up the cache. The solution goes to
`SafeWriter`, which calls `WriteDepTree()` into a temp dir and then moves the results into place.

### What is hard

- The search keeps four structures in step (atoms, dependers, queue of work, version queues) while it
  goes forwards one atom and backwards many. Undoing is by popping, and nothing but the order of the
  pushes makes it right.
- The lock file, the signal channel and the two maps of the coordinator are used by several processes
  or goroutines, each with checks and uses under different locks.
- A gateway works on a clone that an earlier process left in any state, for a repository that others
  push to, and remembers in five bits what it need not do again. Its caches outlive the process or not.
- Concurrent deductions share a trie, a request and its failure, and overwrite each other's entries.
- `dep ensure` decides from a digest in the lock whether there is anything to solve, whatever happened
  to `vendor/` since that lock was written.
- Reach maps, intersections and differences are computed by loops over maps and sorted lists whose
  result must not depend on an order nobody fixed.
- The writer has a dozen disk operations, each of which may fail, on one device or two, and may be
  killed between any two of them.

What has to hold: a solution satisfies every rule and a failure means there is none; the search ends;
its structures agree. At most one process works in the cache; a waiting one gets in. `Release()`
returns, after every operation, and no channel is closed twice. Whoever asks for a source gets an
answer, and the same gateway as everybody else. Nothing that was on disk is lost by a failed write,
and a successful one wrote everything. The gateway's bits are true, and what is cached for a revision
is of that revision; the caches behave as one. A deduced root is the repository's. A successful
`dep ensure` leaves imports, rules, lock and `vendor/` in agreement. `PROJECT.json` lists the hazards line by line.

## 2. Modules

| Module | What it is |
|---|---|
| `Solver` | the solve loop: state, actions, specification, `TypeOK` |
| `SolverProperties` | what a run promises, defined from the universe alone, and how the run's state hangs together |
| `SolverInductive` | the inductive invariant `SolveInv`: `IInv`, on which the search rests, and `SoundInv`, on which its solutions do |
| `SolverWorlds` | helpers that build universes for TLC |
| `MCSolver` | the families of universes the runs use |
| `SolverProofs` | lemmas on sequences, sets and cardinality, the proof that `IInv` is an invariant, its corollaries, the proof of `SoundInv`, and from it that solutions are sound |
| `SafeWriter`, `SafeWriterProofs` | `NewSafeWriter()` and `Write()`, one disk operation a step, and the proofs of its invariants |
| `CacheLock` | `sm.lock`, one system call a step |
| `SourceManager`, `SourceManagerProofs` | methods, supervisor, `Release()`, signals, and the proofs about the supervisor |
| `SourceCoordinator`, `MCSourceCoordinator` | `getSourceGatewayFor()`, and names for TLC |
| `MemoryCache` | `singleSourceCacheMemory` as operators, used by the next two |
| `SourceGateway` | `sourceGateway` with the maybe-source, the VCS source, the clone and upstream |
| `SourceProofs` | the proofs about the coordinator, and about the bits and the cache of a gateway |
| `SourceCacheSpec` | what a cache of a source promises: the abstract specification |
| `SourceCache`, `SourceCacheProofs`, `MCSourceCache` | `multiCache` over memory and bolt, with the mapping to `SourceCacheSpec`, the proof of that refinement, and values for TLC; `SourceCacheProofs` has the proof of exclusion by `CacheLock` too |
| `KnownHosts` | what is deduced from a path alone: hosts, extensions, schemes |
| `Deduction`, `DeductionProofs`, `MCDeduction` | the deduction coordinator, extending `KnownHosts`, its proofs, and paths and pages for TLC |
| `WriteTree` | `WriteDepTree()`'s writers |
| `Ensure`, `EnsureProofs`, `MCEnsure` | `dep ensure` on a project, extending `WriteTree`, its proofs, and projects for TLC |
| `Sorting` | what the `sort` package promises: the elements of a set in order of a key |
| `Packages`, `ReachMap` | `ListPackages()` and ignored rules; `ToReachMap()` as a walk, extending `Packages` |
| `Versions`, `LockDiff`, `Prune` | pure algorithms; `LockDiff` extends `Versions` and `Sorting` |
| `Algorithms`, `MCAlgorithms` | `ReachMap`, `LockDiff` and `Prune` over inputs chosen in `Init`, and those inputs for TLC |
| `AlgorithmProofs` | the proofs that these computations agree with their references |

A module that extends another one and has a specification of its own leaves `Spec` to one of them: the
others are `LockSpec` (`CacheLock`), `CoordinatorSpec` (`SourceCoordinator`), `ReachSpec` (`ReachMap`) and
`ASpec` (`Algorithms`).

Operators such as `BacktrackKeepsQueue` or `DoneNoSignal`, placed before the definition they vary, are
that definition with a plausible mistake in it. They are used by no specification; each shows that
the property `PROJECT.json` names with it notices the mistake.

### Solver

`sel`, `deps` and `foldRoots` are the three fields of `selection`; `unsel` is the heap as an array,
with `container/heap`'s sift-up given by the path an entry rises along (`Rises`) and its result
(`Risen`), because ties and a heap whose order changed under it decide what is selected next. `vqs` is the stack of version queues. `pc` says
where in the loop the run is, and `awp`, `todo`, `newq` and `retry` are locals that live across
steps. The universe (`w`) is chosen in `Init` and never changes.

| Action | Code |
|---|---|
| `SelectRoot`, `SelectAtom`, `SelectAtomDep`, `DepsPushed` | `selectRoot()`, `selectAtom()`: the atom, then its dependencies one at a time in any order, as Go ranges over a map |
| `CreateVersionQueue`, `AddPackages` | the two branches of the loop in `solve()`, for a project not yet selected and for packages of one that is |
| `ValidVersion`, `NextVersion`, `NoVersion` | an iteration of `findValidVersion()`, its end, and the marking of failed queues |
| `Backtrack`, `UnselectLast`, `UnselectDep`, `Unselected` | `backtrack()` and `unselectLast()` |
| `Solved`, `Canceled` | the ends of `solve()` |

Each check of `satisfy.go` is an operator of its own (`AtomAllowable`, `RequiredPackagesExist`,
`IdentMatches`, ...); `CheckBlames` and `Blamed` say which queues it marks as failed.

Data is abstracted to what the checks tell apart: a constraint is the set of versions it matches, a
project root is a number whose order is the order of names, a list of packages is a set. A bare
revision in a root lock stands for the version it is paired with. Version lists have no duplicates and
are empty only for a source that does not exist. Lock hints are kept per project root. A failing call
of the `SourceManager` ends a run as cancellation does, so `Canceled` stands for both; it is looked
at where the loops look at the context, at their heads. Prefetching changes nothing the solver reads
and is left out here; its effect on `Release()` is in `SourceManager`, where any call may be in flight.

### SafeWriter

`disk` says of each path whether it holds nothing, what was there before, what this call writes, or
part of something, and of a vendor directory whether it has `.git`. `Init` picks the arguments, the
disk and the device of the temp dir. `New` is `NewSafeWriter()` with its refusals; `Stage` writes the
manifest, the lock and, by `WriteDepTree()`, vendor into the temp dir; `DotGit`, `MoveOut`, `MoveIn`,
`RemoveBak`, `Restore` and `Cleanup` are the moves, the rollback and the deferred `RemoveAll()`.
`MoveOk` and `MoveFails` are `RenameWithFallback()`: within a device a rename is atomic; across, it is
a copy and a delete, and can leave part of a copy. `Killed` ends the process anywhere, also in the
middle of a copy.

### CacheLock

Each process is one dep with one `SourceMgr`. `Link`, `Stat`, `ReadOwner`, `CheckOwner` and `Clean` are the
system calls of `TryLock()` in `vendor/github.com/nightlyone/lockfile`; `Unlock`, `Unlink` and
`RemoveLock` are `Release()`, which unlocks and then deletes the path again; `Exit` and `Crash` end a
process. `robbed` remembers whose file was deleted by somebody else. The `GetOwner()` at the start of
`NewSourceManager()` refuses only a second manager in the same process and is left out; pids are not
reused.

### SourceManager

`Enter` and `Gate` are the check of `releasing` at the head of every method; `Start` and `Done` are
`supervisor.do()` up to and after the operation, with a counter per key and the condition that
`wait()` parks on; `Bare` is an operation that is not supervised. `Store`, `Once`, `Wait`, `Unlock`,
`CheckQch` and `CloseQch` are `Release()`, which the main goroutine and every signal handler may run
(`MainReleases`, `Signal`). `HandleSignals`, `NewHandler`, `StopSignalHandling` and `ClearQch` follow the code in
closing a channel before replacing it. Only the main goroutine uses `sigmut`, so that mutex does not
appear. `srcCoord.close()` is empty in this version.

### SourceCoordinator

Each thread asks for one name. `Lookup` is the part under the read lock, `Upgrade` the one under the
write lock, `Proto` and `Await` the folding together of attempts, `Deduce`, `Recheck`, `Try` and
`Register` the work of the first thread. The answer to those that wait (`DoReturn`) is one step with
what precedes it, since the two touch disjoint state. Deductions and gateways fail when they like.

### SourceGateway

`upstream` maps versions to revisions and changes by pushes; `clone` is the directory in the cache,
which may be absent, not a repository, or a repository whose working copy holds the files of one
revision or is soiled. `srcState` are the bits, `cache` the memory cache `createSingleSourceCache()`
makes, `call` the method inside, with its place. Every method holds `sg.mu` throughout, so there is one.

| Action | Code |
|---|---|
| `Begin` | the head of a method; which bits it requires is `Wanted` |
| `TryGit`, `TryGopkgin`, `TryOther` | `maybeSource.try()`: `newCtxRepo()`, list or ping, and for git `ensureClean()` |
| `RequireLocally`, `RequireVersionList`, `RequireLatest` | the other cases of `require()` |
| `Convert` | `convertToRevision()`, from the cache, then after a list |
| `WorkRead`, `WorkExportGit`, `WorkExportCopy` | the source's answer, `Retry` after an update when it fails, and what is cached |
| `RevisionPresentIn`, `DisambiguateRevision` | the two that look at the clone as it is |
| `UpstreamChanges`, `Restart` | a push; the end of the process, at any point of a call |

`since` and `past` are history: what upstream mapped and lacked in this process, whether a command
failed in it, and whether the working copy was ever soiled. `existsUpstream` is set by every `try()`, so
its own case of `require()`, which would ask the inverted `baseVCSSource.existsUpstream()`
(`gps/vcs_source.go:35`), is never reached; `BitsTrue` checks that. The URLs of a list of maybe-sources are
tried as one, which fails or does not; and a git clone that was made but whose submodules could not be
updated counts as one that was not made.

### SourceCacheSpec and SourceCache

The abstract cache has one store on disk and what this process has seen of it; a getter answers with
what was last stored, or with nothing if it is too old or was lost by a failed write. Of a version or a
revision that the current list does not have it may answer what an older list on disk says, which a failed
write can leave there in the same process, and the versions of a revision may be answered as none. `SourceCache` is
the code: `mem`, and `disk` with a bucket per revision and time-stamped version lists. A bolt update is
a transaction. `IsPersistentCache` is the refinement, with the store read off the disk and the memory
laid over it. In this version the gateway creates a memory cache only, so `multiCache` and the bolt
cache are exercised by tests alone.

### KnownHosts and Deduction

A path is the sequence of its elements; of an element matters whether its characters are allowed,
which VCS extension and which gopkg.in version it has. `rootxt` is the trie, whose longest *literal*
prefix may be no prefix of the path: "Begins" lists the pairs of elements of which one starts with the
other. `hmds` are the deducers with their `sync.Once`. `deduceRootPath` is the part under the read lock,
`InsertKnown` and `InsertDeducer` those under the write lock, `Once`, `Request` and `returnFunc` the
HTTP deducer. `HostsAssumption` says what is so of the world: no repository is inside another, a path
on a known host, or with a VCS extension, that can be deduced is inside the repository that host or
extension says. `DeductionAssumption` says that a page with tags has the one of the repository its path
is in. `AskedInside` says that nobody asks for a path above the root of a repository that is found by
its page; the run assumes it, and `RootsAreRight` has it as its hypothesis (section 3).

### WriteTree and Ensure

`writer` says where each goroutine of `WriteDepTree()` is (queued, exporting, pruning, written,
failed). `Ensure` runs command after command on `disk` (imports, rules, lock, vendor): `Run` loads the
project, `runDefault`, `runVendorOnly`, `runUpdate` and `runAdd` choose, `AddArg` is a goroutine of
`-add` under its mutex, `Args` the barrier after them, `Solve` returns any solution the rules allow
(`Solver` is about how), `Write`, `TreeStep`, `TreeDone`, `MoveLock` and `MoveVendor` are `Write()`, `RestoreLock`
and `RestoreVendor` its rollback, `Append` the rules `-add` puts at the end of the manifest. `Edit` is the
user, who also removes a lock that dep cannot read, and `Crash` a kill.

A move is one step here, the old artifact out and the new one in; `SafeWriter` has each rename and the
names of the backups. But the temp dir may be on another device (`txn_writer.go:285`), where a move is a copy,
so a move that fails or is killed leaves part of the old or of the new tree in `vendor/` (`PartsOf`) and any
part of a lock: one that does not parse (`Torn`) or, cut between two projects, one that is read as a lock
of the projects before the cut, without a digest (`Cuts`). The rollback puts back only what was moved out
(`p.lock` and `vendorbak`), and nothing over a directory that is not empty. What it leaves is what the
next commands start from.

The digest is the set of what is hashed: hashing writes its inputs without separators, and that two
inputs have the same bytes is left out. So are a manifest or a lock cut in the middle of a stanza that still
parses, a `vendor.orig` left by a kill (in `SafeWriter` it is there from the start), and `vendor/.git`.

### Packages, ReachMap, Versions, LockDiff, Prune

`ReachMap` keeps the colours, reach sets, error map and the stack of calls of `wmToReach()`; the next
package and the next import are any of those left, as maps are ranged over. The others are operators.
Their references (`Reached`, `Revisions`, `Content`, ...) are written without following the code.

- *Ignored rules.* The trie of `NewIgnoredRuleset()` is filled rule by rule in sorted order, and a rule
  under a wildcard that is there already is left out. Of the order only what matters is kept: a path
  comes before those it is a prefix of, and before its own wildcard (`SortKey`). Wildcards are taken at
  the end of an element only. The rule `*` alone is passed over. `Matched` asks the rules one by one.
- *Import comments* are compared with the root as text (`HasPrefix`), so the last element of the root may be
  the beginning of a longer one (`LongerNames`).
- *Reach map.* `Reached` is the least set with the package that is closed under imports.
- *Versions.* A range is the set of semantic versions it admits, a union is given by its members'
  places in the list. Lists satisfy `OneName`: no branch, tag or semantic version is in them twice; a source
  that lists both `v1.0.0` and `1.0.0` is outside it. That the source cannot be listed, which makes a union
  empty, is left out. Constraints are those a manifest can have; a pair as a constraint, and `none` against `any`, are outside them.
- *Lock differences.* Names are numbers in their order. `IsLock` says that a project is in a lock once
  and a package in a project once; dep writes such locks, an edited one may be different.
- *Pruning.* A file is what the phases ask of it. `deleteEmptyDirs()` is the set of directories left when
  each is looked at after those in it. `IsTree` says what every directory tree satisfies. `Condemned` is what
  goes although it may be a legal notice: nested vendor directories and tests, where the options name them.

## 3. Runs

Every specification stops when its processes are done or its bounds are used up, so deadlock is not
checked; where the code has to get to an end, that it does is a liveness property.

### Passing

| Run | Instance | What it shows |
|---|---|---|
| `solver` | 5104 universes of up to 4 projects (two differ in case, and an importer may mix them), 3 versions (one a revision), 2 sources | `SolutionSound`: a solution satisfies the rules of `docs/the-solver.md`. `SelectedAllowed`, `DepsMirrorSelection`, `RequiredCovered`, `OneCaseVariant`: after any backjump no constraint is violated or left behind, no work is lost, and one spelling of a root is in use unless one importer mixes them. `Termination`. `SolveInv`, which the proofs rest on and which has `StacksAligned` (queues match atoms) and `NoCanary` among its parts |
| `safewriter` | 2 faults, one device and two, killed anywhere | `SuccessMeansWritten`, `OldBackInPlace`, `OldSurvives`, `DotGitFollows` |
| `cachelock` | 3 processes, 2 crashes | `ExclusiveUnlessRobbed`, `EveryoneServed` |
| `sourcemanager` | 2 callers, 2 keys, two handlers, stopping | `CountsExact`, `ReleaseWaits`, `ReleaseReturns` however signal handling is changed; `NoPanic`, `HandlersEnd` while it is left alone once set up |
| `sourcecoordinator` | 3 threads, 4 names of a repository | `NoPanic`, `WaitedFor`, `OneGateway`, `EveryoneAnswered` |
| `sourcegateway` | git, gopkg.in and hg; 1 version, 2 revisions; a push, a fault, a restart; any clone at the start | `BitsTrue`: the bits say what is so. `ListFresh`: a git list is upstream's of this process. `TreesTrue`: what is cached for a revision was read from it, also after an interrupted checkout. `Answered`: without a failing command, what upstream has is found |
| `sourcecache` | 1 version, 2 revisions, a fault, 2 times, any number of restarts | `IsPersistentCache`: the two levels implement the abstract cache. `LevelsAgree`: while every write reached the disk, both levels have the same version list, and the versions of each revision are those of the list |
| `deduction` | 2 threads, 3 calls, 2 losses; a mixed family of 7 inputs, and six of 5 or 6 for the hosts and the VCS extensions | `RootRight`: a call that succeeds names the root of the repository its path is in, with sources of a kind it may be. `SchemeHonored`: a scheme that was asked for is kept, also through the trie. `EveryCallReturns` |
| `ensure` | 2 projects, 2 versions, 3 commands, 2 kills or failures, 1 place at the semaphore; 1.1 million states | `EnsureGetsInSync`: a default run that succeeds leaves imports, rules, lock and `vendor/` in agreement, whatever is left of earlier ones. `AddTakesEffect`. `VendorWhole`: `vendor/` is part of a tree only after a move that failed or was killed, and then the command does not succeed. `LockPutBack`: a failure has the old lock put back. `CommandsEnd` |
| `algorithms` | some 1,000,000 states: package trees in every order of visits, lists of versions, pairs of locks, directory trees | `ReachRight`: closure of the imports among sound packages, and trimming hidden packages keeps what the visible ones reach. `VersionsRight`: the unifier agrees with sets of revisions, and the orders are total. `DiffRight`: the difference applied to the old lock gives the new one. `PruneRight`: what a build needs and legal notices stay, except for what goes with nested vendor directories and tests; what the options name goes |

### Disagreements between the code and what it says of itself

Each of these runs checks one statement of the documentation or a comment, and TLC finds a behaviour
of the code that contradicts it. `PROJECT.json` quotes the statements.

| Run | Statement | What happens |
|---|---|---|
| `solver_complete` | a reported failure means no combination of versions exists (`docs/failure-modes.md`) | only the first depender's queue is marked when a project's versions run out; if that is the root, nothing is retried |
| `solver_panic` | `Solve()` aborts, succeeds or fails with an error (`gps/solver.go`) | an entry pushed back with more packages than its importer asked for is not found again; it has no dependers, and the first one is indexed |

TLC refutes these statements as well. They have no run of their own; the definition named can be
given to TLC as an invariant, or a property if it is about steps, of the run named.

| Definition | With | Statement | What happens |
|---|---|---|---|
| `PackagesFirst` | `solver` | package additions come before project additions (`gps/solver.go:1162`) | selecting a project turns its queued entries into package additions where they are in the heap |
| `SolutionMinimal` | `solver_panic` | packages in the lock are necessary for the build (`docs/Gopkg.lock.md:42`) | the entry without dependers is selected |
| `FailureJustified` | `solver`, the family `Sourcing` | one dependency may name a source and others play along (`docs/the-solver.md:28`) | `equiv()` accepts that only if the one with a source comes first |
| `SolutionOneCase` | `solver`, the family `Spelling` | one casing per import path (`docs/the-solver.md:16`) | `selectRoot()` has no case check (its test, `gps/solve_bimodal_test.go:726`, is marked broken), and `check()` looks at each import of an atom before any of them is recorded (`gps/satisfy.go:54`), so one importer of both spellings passes |
| `DotGitPreserved` | `safewriter` | `vendor/.git` is preserved (`txn_writer.go:328`) | it is moved to the temp dir before all else and not moved back when a later move fails |
| `Exclusive` | `cachelock` | the lock file protects the cache from multiple processes (`gps/source_manager.go:182`) | the second deletion in `Release()` (`:398`) hits the next owner's file, and a third process gets in |
| `OneGateway` | `sourcecoordinator`, with the vanity name among `Asked` | a path and a URL lead to one gateway (`gps/source.go:195`) | the URL is folded for some names only (`:214`) |
| `RollbackComplete` | `safewriter` | roll back if any move fails (`txn_writer.go:266`) | what was moved in where nothing was is not in `restore` and stays |
| `WaitingSpins` | `cachelock` | a busy lock gives a temporary error to spin on (`gps/source_manager.go:209`) | not if it is released between the stat and the read |
| `NoLateCall` | `sourcemanager` | wait until all active calls have terminated (`gps/source_manager.go:731`) | `revisionPresentIn()` and `disambiguateRevision()` are not supervised |
| `SignalsReconfigurable` | `sourcemanager` | `HandleSignals()` may be called again (`gps/source_manager.go:314`) | `Release()` closes the channel and leaves it there, to be closed again |
| `ListFreshForAll` | `sourcegateway` | the bit for the latest version list (`gps/source.go:26`) | bzr and hg list the versions of the clone, which may be from an earlier process |
| `TreeRooted` | `sourcegateway`, two roots | the tree is that of the root asked for (FIXME at `gps/source.go:391`) | trees are cached by revision only |
| `VersionsForComplete` | `sourcecache` | `getVersionsFor()` gives the versions of a revision | a tree read from disk enters its revision in memory without versions and hides the versions on disk (`gps/source_cache_multi.go:71`) |
| `FailureForgotten` | `deduction` | a later call can still find out | the failed `sync.Once` stays in the trie (`gps/deduce.go:710`) |
| `RootKept` | `deduction` | a root that was found stays | a thread that missed earlier enters its deducer over it (`:643`) |
| `PlainIndependent` | `deduction` | a plain path is offered with all schemes (FIXME at `:612`) | it gets what a URL with a scheme left in the trie |
| `DeducerRemoved` | `deduction` | the call "will also remove the reference to this hmd" (`:775`) | only if the root is the path it was entered under |
| `NoVendorHeeded` | `ensure` | `-no-vendor` updates no vendor (`cmd/dep/ensure.go:140`) | `-add` writes it (`:696`) |
| `VendorFromWholeLock` | `ensure` | `-vendor-only` populates `vendor/` from the lock (`cmd/dep/ensure.go:139`) | a lock whose copy was cut between two projects by a kill is read as a whole one (`lock.go:58`) |
| `FailureLeavesLock` | `ensure` | roll back if any move fails (`txn_writer.go:267`) | where there was no lock the new one stays, and `-add` fails with the new lock and `vendor/` in place if it cannot append to the manifest (`cmd/dep/ensure.go:714`) |
| `VendorPopulated` | `ensure` | all modes but `-no-vendor` leave vendor as the lock says | `-update` and `-add` leave it as it is when the lock does not change |
| `LegalKept` | `algorithms` | "dep non-optionally preserves files that may have legal significance" (`docs/Gopkg.toml.md:193`) | a nested vendor directory is removed with the notices in it (`gps/prune.go:180-200`), and a `_test.go` file with the tests though its name is that of a notice (`:337-353`); `PruneRight` excepts both |
| `ErrorKnown` | `algorithms` | a poisoned package has its error | one that was met only through a missing package has none to pass on (`gps/pkgtree/pkgtree.go:815`) |
| `ReachIsClosure` | `algorithms`, packages that import each other | reach sets are transitive | a grey package is passed over, so a cycle's sets depend on where it was entered |
| `NoDifferenceMissed` | `algorithms` | the difference of two locks (`gps/lockdiff.go:64`) | a branch at the same revision is not one |

What else was seen on the way and is not a property of a run:

- `anyConstraint.MatchesAny(none)` is true and `noneConstraint.MatchesAny(any)` false; a branch met with
  a pair gives the branch.
- The example in `SortForDowngrade()`'s comment is in another order than the code's, and the comment of
  `TrimHiddenPackages()` on `main` says the opposite of what the code does.
- `docs/ensure-mechanics.md:70` says that `-no-vendor` runs the solver unconditionally; with a lock whose
  memo matches the code returns before it solves (`cmd/dep/ensure.go:265-274`).
- Setting a manifest with a nil lock leaves the bucket of an earlier lock in the bolt cache; a version
  map that could not be written leaves the old pairing there for the next process.
- gopkg.in, bzr and hg sources do not clean the working copy when they are set up, as git does; the
  error of putting git's index back after an export is dropped.
- `bzr` lists its branches by cutting off the last line of the tags, of which there may be none.
- `revisionPresentIn()` and `disambiguateRevision()` answer from a clone that may be behind.
- A path above a root (`example.org`, with the repository at `example.org/lib`) gets a deducer of its own,
  and a path below the root that is asked for next finds it by its prefix (`gps/deduce.go:594-602`, `:643`)
  and shares its request, and so its failure or its root. `RootRight` is about callers that do not do that
  (`AskedInside`).

### Bounds, and why they are enough

- *Universes.* A backjump over an unmarked queue takes three projects and two versions of one of them;
  package additions take a project with two packages that different projects import; cycles, missing
  packages and conflicts are all among the 3840 combinations of `General`. The other families vary one
  feature at a time around a chain of three projects, the shortest in which a feature of the middle
  one is set up by one project, met by another and undone by a backjump. The bounds are the sets
  `Projects`, `Versions`, `PkgNames`, `Sources` and the family `Worlds`; runs are otherwise unbounded.
- *`MaxFaults = 2`.* One failure starts the rollback and a second one hits it.
- *`MaxCrashes = 2`, three processes.* One dies with the lock, a second while taking it over, and a
  third has to get in; the double entry needs three.
- *`MaxHandlers = 2`, two callers, two keys.* A channel is replaced while the handler of the first
  still runs; two calls share a key or do not, and one may still be before its gate when `Release()`
  waits for the other.
- *Three threads, four names.* One works, one joins it, one arrives when it is done.
- *`sourcegateway`.* One push makes a clone or a list stale, one fault interrupts a command, one
  restart meets what it left. Two revisions are what a stale pairing and a wrong working copy need. bzr
  differs from hg in nothing the model sees, so `Kinds` has one of them.
- *`sourcecache`.* `MaxClock = 1` gives a list before the epoch and one after it; one failed write sets
  the levels apart.
- *`deduction`.* Two threads and three calls: two meet in one request, and a third finds what they
  left. The mixed family has siblings
  that begin alike, a vanity repository asked for at and below its root, and schemes that its page
  contradicts; the others have what each host's deducer tells apart and what it turns down.
- *`ensure`.* A first command writes, a second is killed or told to leave something, a third has to
  repair it. `MaxFaults = 2` has a move fail and then its rollback, or two commands killed one after the
  other. One place at the semaphore and two writers make one wait.
- *`algorithms`.* Import graphs without cycles of four packages, of which one may import itself and
  one may be missing, with one package that is broken or special: a diamond with a poisoned or hidden
  member needs no more. Lists of five versions on two revisions; locks of two projects; directory trees
  with a nested vendor directory, an empty one and a link.

### Fairness

- Solver: `WF(Step)`. One goroutine that nothing blocks; cancellation is never forced.
- CacheLock: `WF` of each process's steps. A command of dep that has the cache comes to its end and
  releases it, unless it is killed; being killed is never forced, and neither is leaving after that.
- SourceManager: `WF` of `Done` (operations return, or are canceled and return), of the steps of each
  `Release()`, and of handlers and `HandleSignals()` once begun. Nobody has to call anything.
- SourceCoordinator: `WF` of each thread's steps; the locks are held for one step only.
- Deduction: `WF` of each thread's steps. Requests have an answer or an error; nobody has to call,
  cancel or release.
- Ensure: `WF(Step)`. The goroutines of a command run, and disk and network return; being killed,
  failing and running another command are never forced.
- SafeWriter, SourceGateway, SourceCache, Algorithms: none; their properties are about states and steps.

## 4. Proofs

TLAPS checks these for every value of the constants that satisfies the assumptions named: any number of
projects, versions, processes, threads, faults, restarts.

| Theorem | States |
|---|---|
| `SolverProofs!RunStateConsistent` | `Spec => []IInv` |
| `SolverProofs!RunStateTyped` | `Spec => []TypeOK` (of `Solver`) |
| `SolverProofs!QueuesAlignWithSelection` | `Spec => []StacksAligned` |
| `SolverProofs!SelectionKeepsConstraints` | `Spec => []SelectedAllowed` |
| `SolverProofs!CanariesSilent` | `Spec => []NoCanary` |
| `SolverProofs!SolveInvariant` | `Spec => []SolveInv` |
| `SolverProofs!DepsAlwaysMirrorSelection` | `Spec => []DepsMirrorSelection` |
| `SolverProofs!RequiredAlwaysCovered` | `Spec => []RequiredCovered` |
| `SolverProofs!OneCaseVariantAlways` | `Spec => []OneCaseVariant` |
| `SolverProofs!SolutionsAreSound` | `Spec => []SolutionSound` |
| `SafeWriterProofs!WriterInvariant` | `Spec => []WriterInv` |
| `SafeWriterProofs!SuccessAlwaysWritten` | `Spec => []SuccessMeansWritten` |
| `SafeWriterProofs!OldAlwaysBack` | `Spec => []OldBackInPlace` |
| `SafeWriterProofs!OldAlwaysSurvives` | `Spec => []OldSurvives` |
| `SafeWriterProofs!LeftoverAlwaysKept` | `Spec => []LeftoverKept` |
| `SafeWriterProofs!DotGitAlwaysFollows` | `Spec => []DotGitFollows` |
| `SourceCacheProofs!CacheSharedOnlyWhenRobbed` | `LockSpec => []ExclusiveUnlessRobbed` |
| `SourceManagerProofs!LockOutlivesCalls` | `Spec => []ReleaseWaits` |
| `SourceManagerProofs!SupervisorCounts` | `Spec => []CountsExact` |
| `SourceManagerProofs!NeverPanics` | `Spec => []NoPanic` |
| `SourceProofs!GatewayAlwaysThere` | `CoordinatorSpec => []NoPanic` |
| `SourceProofs!NobodyForgotten` | `CoordinatorSpec => []WaitedFor` |
| `SourceProofs!OneForEachSource` | `CoordinatorSpec => []OneGateway`, assuming `URLsFolded` |
| `SourceProofs!GatewayInvariant` | `Spec => []GatewayInv` |
| `SourceProofs!BitsAlwaysTrue` | `Spec => []BitsTrue` |
| `SourceProofs!ListAlwaysFresh` | `Spec => []ListFresh` |
| `SourceProofs!TreesAlwaysTrue` | `Spec => []TreesTrue` |
| `SourceProofs!AlwaysAnswered` | `Spec => Answered`, an action property |
| `SourceCacheProofs!CacheInvariant` | `Spec => []CacheInv` |
| `SourceCacheProofs!LevelsAlwaysAgree` | `Spec => []LevelsAgree` |
| `SourceCacheProofs!MultiCacheIsPersistent` | `Spec => IsPersistentCache`, the refinement of `SourceCacheSpec` |
| `DeductionProofs!SchemesAreHonored` | `Spec => []SchemeHonored` |
| `DeductionProofs!RootsAreRight` | `Spec => []RootRight`, assuming `AskedInside` |
| `EnsureProofs!EnsureSyncs` | `Spec => []EnsureGetsInSync` |
| `EnsureProofs!AddsTakeEffect` | `Spec => []AddTakesEffect` |
| `EnsureProofs!VendorIsWhole` | `Spec => VendorWhole`, an action property |
| `EnsureProofs!LockIsPutBack` | `Spec => LockPutBack`, an action property |
| `AlgorithmProofs!ReachMapIsRight` | `ReachSpec => []ReachRight`, assuming `AcyclicImports` |
| `AlgorithmProofs!VersionOrders` | `OrdersTotal` of any set of versions |
| `AlgorithmProofs!VersionsAreRight` | `ASpec => []VersionsRight` |
| `AlgorithmProofs!LockDiffIsRight` | `ASpec => []DiffRight` |
| `AlgorithmProofs!PruningIsRight` | `ASpec => []PruneRight` |

**Solver.** `SolverAssumption` gives the constants their types and says of a universe what the code
that makes it guarantees: reach maps are closed under internal imports and list only packages that are
there, dependencies are on projects and list packages of their own project, and the root has one
dependency for each project it imports, with the packages it imports of it (`dmap` in
`intersectConstraintsWithImports()` is keyed by project root). `IInv` is the conjunction of `TypeOK`,
`SelectionSane`, `FirstIsFirst`, `OneVersion`, `DepsSane`, `TodoSane`, `PackagesOwned`, `QueuesSane`,
`SearchSane`, `StacksAligned`, `SelectedAllowed` and `NoCanary`. None of the interesting parts is
inductive alone. `StacksAligned` needs `SearchSane` (a retried queue is that of the project being
searched for) and `FirstIsFirst`. `SelectedAllowed` needs `OneVersion`, because the checks look at the
first atom of a project only, and the part of `TodoSane` on dependencies still to be pushed, which were
checked before the first of them was. `NoCanary` needs that no queue is empty and that what was
selected can be listed again. There is one lemma per action, and under it one step per conjunct the
action disturbs; the lemmas at the head of `SolverProofs` count projects in the stack (`Rank`) when one
is pushed or popped.

`SoundInv` is what a solution takes. Its centre is `DepsMirrored`: the dependers on a project are the
root and the selections that import it, in order, *but for* what is half pushed or half popped. Stated
between iterations only (`DepsMirrorSelection`) it is not inductive, since `selectAtom()` pushes and
`unselectLast()` pops one dependency at a time, in any order; with `TodoKept`, which ties what is still
to do to the imports of the atom in hand, the entry that `popDep()` drops is that atom's, because it is
the last selection and so last in every list it is in. `Covered` (required packages are selected or
queued) needs `DepsMirrored` for the case that `unselectLast()` removes an entry when the last depender
is gone, `SourcesAgree` and `CasesAgree` need that checks made before the first push hold until the
last, and `PackagesKept` says that what is selected is closed under internal imports and was found
there. `SolutionSound` then follows in the state in which the queue is empty (`NothingLeft`): every
import of a selection is recorded, everything recorded is selected, at a version every record admits.

Two conditions in `SolutionSound` and `OneCaseVariant` came out of these proofs, with a counterexample
by TLC for each. The rule on the casing of imports holds only where neither the root nor an atom itself
imports both spellings (`SpeltOnce`): `check()` compares each import with what was recorded before the
atom. And a solution may have a project nobody depends on, the entry `SolutionMinimal` is about, with
another spelling admitted after it; so it holds where every project of the solution has a depender.
The other rules hold without either.

**SafeWriter.** `WriterInv` follows the call: what is staged, which of the artifacts are moved aside and
on the list of moves to undo, and where each old artifact is meanwhile (`Recoverable`); from the first
failure on, that everything on the list can be put back and the rest is in place (`Failing`, `RolledBack`);
that a `vendor.orig` from before is spared, and where `.git` is while nothing failed. Kills are allowed in
every state, so that the old artifacts survive has to be part of it. `MaxFaults` is any number.

**CacheLock.** A holder whose file was not deleted by another owns `sm.lock`, so two holders that
were not robbed are the same (`OwnsOrRobbed`).

**SourceManager.** `SupInv` adds to the counts that the context is canceled before anybody waits, and
that once somebody is past waiting no operation runs: `do()` checks the context and counts in one
critical section, so nothing can start after the counts were seen at zero. `QuitInv` adds that one
goroutine at a time is inside `relonce` and that, while signal handling is left alone, the quit channel
is open until that one closes it.

**SourceCoordinator.** `CoordInv` says that the two maps agree (a URL that is recorded has a
gateway), that every folded name being worked on has one worker, and that whoever waits is on the
list of a worker. `OneForEachSource` has the hypothesis `URLsFolded`: a name in lower case leads to a URL
in lower case. It holds for the hosts the deducer knows and in the instance the run checks; a vanity
path can break it, and then the code does hand out two gateways (section 3).

**SourceGateway.** The bits are true between calls; within one the proof has to know which bits each
place of a method may rely on (`Held`), what the place says of the revision in hand (`RequestAt`), and
that a set-up source has a sound clone unless a command failed (`SetUpSound`). The history variables
cover what is so now (`Remembered`), so a fetch that succeeds brings whatever upstream had all the time,
from which `Answered` follows for each step that ends a call in an error. The assumption is that a miss
is no version and no revision.

**SourceCache.** `CacheInv` types the two levels and says that the bolt pairing of revisions is that of the
list beside it, and that both levels have the same list while no write failed. The refinement has one
lemma per operation: a setter is the abstract one, a getter answers from the overlay of memory over disk
and leaves the overlay as it was though it copies entries up, a restart forgets the memory only.
`SourceCacheAssumption` says that a miss is no stored value, and that a revision has a lock or has none:
revisions are immutable, and `setManifestAndLock()` would else leave the earlier lock in its bucket.

**Deduction.** A call gets what another call left in the trie under a prefix of its own path, so
`RootRight` and `SchemeHonored` are not inductive alone. `DeductionInv` says that an entry with sources is
under a plain path, the root of a repository, and has kinds of source it may be (`TrieRight`); that every
deducer was entered for one key, whose scheme is that of every call that shares its request, and that
what its `sync.Once` found is right for that key (`EveryDeducerHasKey`); and that every answer is right for
its caller (`CallsRight`). An answer that is right for a key is right for a path below it only if the key
is inside the repository, which is where `AskedInside` is needed; the scheme needs no such thing.

**Ensure.** The centre of `EnsureInv` is `LocksInv`: a lock, wherever it is, has versions within the rules
its digest names. A lock whose digest matches the project is then a solution for the project as it is,
though edits, crashes and other commands came between, and a command that skips solving leaves project
and lock in agreement. `TreeInv` follows the writers, so that what is moved in is `Whole`; `LoadedInv` says
how far the project in memory is that on disk; `AddInv` that the rules given to `-add` are among those solved
for, and those of the manifest untouched; `EndInv` is what holds when a command is through.
A lock that was cut has no digest, so `LocksInv` says nothing of it and it never matches; that is why
`EnsureSyncs` holds although any part of a lock or a tree may be left. `LockIsPutBack` is not inductive
alone: `RollbackInv` adds that a rollback begins after a failure that was counted, so that a move back that
fails is a second one, and that between the two moves back the old lock is in place unless there was none.
`EnsureAssumption` types the constants.

**Ignored rules.** That the trie and the rules agree for every path is the lemma `RulesIgnore`. Its
invariant over the rules added so far: no key is under another key's wildcard, and each rule has its key
or a wildcard above it. It is kept only because rules are added in sorted order, a wildcard before all
that is under it.

**Reach map.** The set found for a package on the stack counts every package found below it, except
those that wait in a `todo` of the stack at or above it (`CountedInv`); sets of finished packages
are closed (`BlackInv`) and have nothing but what is reached (`FoundInv`), so they are the least closed
set. A poisoned package has a chain of imports to one that is broken (`ErrInv`). `AcyclicImports` says that
every set of packages has one that imports no other of it, as `go build` asks; a package may import
itself. It is needed once, to show that a grey import is the importer
itself; without it `ReachIsClosure` is refuted (section 3). Any order of ranging over the maps is allowed.

**Versions and unifier.** `vLess()` is a total order of any versions, in both directions. Each version has
one revision in a list, or none; a union of versions is then that of one revision, or of one unlisted
version, and matching, intersecting and `MatchesAny()` through the unifier agree with sets of revisions, case by case
of the types of version and constraint.

**Lock differences.** A sorted sequence of any finite set exists (by induction on its size), so `SortedBy`
chooses one. `WalkInv` of the two-index walk: the elements before `next` are those not greater than what
was walked. Added, removed and matched are then the differences and the intersection, and applying
them (`Patched`) gives, project by project, the second lock.

**Pruning.** What a phase leaves is again a tree, so phases compose; a directory is left by
`deleteEmptyDirs()` iff a file or a link is somewhere below it, by induction on the directories looked at.
The theorem excepts exactly what `Condemned` names; without it, it is `LegalKept`, which is refuted.

Inductions over data are done on sets of natural numbers: a non-empty set has a least element, from the
well-founded order of the naturals, and the set is the one of the lengths or sizes at which the claim
fails. So no theorem with an operator as a parameter is needed. Recursion is written as recursive
functions on naturals, each shown to exist by building it up to any bound.

*Only model-checked:* the liveness properties `Termination`, `EveryoneServed`,
`ReleaseReturns`, `HandlersEnd`, `EveryoneAnswered`, `EveryCallReturns` and `CommandsEnd`, as the prover has
no rules for fairness. The refuted statements of section 3 are counterexamples, which are TLC's.

## 5. Plan

What is left, in this order:

1. An abstract solver that picks any solution, with `Solver` shown to implement it where it succeeds
   (`SolutionsAreSound` is the heart of it); `Ensure` then takes its `Solutions` from it.
2. Reach maps with cycles, as test packages have them: what the sets still guarantee when a grey package is
   passed over.
3. `Prepare()` with overrides, and the checks of a manifest in `manifest.go`.

## 6. What is not modelled

- Parsing what git, hg and bzr print, HTTP and HTML, TOML, versions and import paths as text. They are
  conversions without state; what depends on their result takes it as data.
- How manifests, locks and trees are encoded in bolt buckets and protocol buffers.
- `gps/pkgtree/digest.go` and `dirwalk.go`: hashes of bytes, called by no command in this version.
- `gps/cmd*.go`: the grace period between interrupt and kill is real time.
- `Prepare()`'s validation of its parameters, and overrides.
- `dep init`, `status`, `prune` and `hash-inputs`, the importers, feedback, traces, metrics and failure
  messages. They read and print, or convert once.

`PROJECT.json` gives the reason for each component.

## 7. Running

    tlc -config MCSafeWriter.cfg SafeWriter
    tlapm SolverProofs.tla

`PROJECT.json` names the module and the configuration of each run.
