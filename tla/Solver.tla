------------------------------- MODULE Solver -------------------------------
(***************************************************************************)
(* The bimodal solver of gps: gps/solver.go, gps/satisfy.go,               *)
(* gps/selection.go and gps/version_queue.go.                              *)
(*                                                                         *)
(* A run of solve() is modelled one loop iteration at a time.  The solver  *)
(* is a single goroutine; what is nondeterministic is the universe it runs *)
(* in (chosen once, in Init, from Worlds), the order in which Go ranges    *)
(* over the map of dependencies an atom has, and cancellation.             *)
(*                                                                         *)
(* Abstractions: a project root is a number, whose order is the order of   *)
(* names; a package is a pair <<project, name>>; a constraint is the set   *)
(* of the versions it matches (the version unifier's verdict); sorted      *)
(* slices of packages are sets; metrics, traces and the error values kept  *)
(* for reporting are left out, and so is prefetching, which changes no     *)
(* state of the solver.                                                    *)
(***************************************************************************)
EXTENDS Integers, FiniteSets, SequencesExt

CONSTANTS Projects,    \* the dependency projects, positive numbers
          Versions,    \* the versions and revisions there are, positive numbers
          Revisions,   \* those of Versions that are bare revisions
          PkgNames,    \* the names of packages inside a project
          Sources,     \* alternate network sources; NoSource is "none given"
          CaseFold,    \* toFold() on project roots
          Worlds       \* the universes a solve run may meet

Root == 0
RootVersion == 0
None == -1
NoSource == 0

ProjectRoots == Projects \cup {Root}
AtomVersions == Versions \cup {RootVersion}
Packages == ProjectRoots \X PkgNames
AnyVersion == AtomVersions

Idents       == [pr: ProjectRoots, src: Sources]
DepIdents    == [pr: Projects, src: Sources]
Atoms        == [id: Idents, v: AtomVersions]
CompleteDeps == [id: Idents, c: SUBSET AtomVersions, pl: SUBSET Packages]
Dependencies == [depender: Atoms, dep: CompleteDeps]
Bmis         == [id: DepIdents, pl: SUBSET Packages,
                 prefv: Versions \cup {None}, fromRoot: BOOLEAN]
Selecteds    == [a: Atoms, pl: SUBSET Packages, first: BOOLEAN]
Queues       == [id: DepIdents, pi: Seq(Versions),
                 lockv: Versions \cup {None}, prefv: Versions \cup {None},
                 failed: BOOLEAN, allLoaded: BOOLEAN]

(* What the SourceManager reports of the projects, and the root's data:    *)
(*   vers  - listVersions(), already sorted; empty when no source exists    *)
(*   has   - the packages ListPackages() finds without an error             *)
(*   reach - ToReachMap() with errors propagated back: packages missing     *)
(*           from the map or importing what cannot be deduced are not ok    *)
(*   cons  - DependencyConstraints() after overrides, on other projects     *)
(*   lock  - the versions the project's own lock prefers                    *)
(*   root  - the root's dependencies; rlm, chng - root lock, forced changes *)
WorldType ==
  [vers:  [Projects -> Seq(Versions)],
   has:   [Versions -> SUBSET Packages],
   reach: [Packages -> [Versions ->
             [ok: BOOLEAN, in: SUBSET Packages, ex: SUBSET Packages]]],
   cons:  [Projects -> [Versions ->
             [ProjectRoots -> [c: SUBSET AtomVersions, src: Sources]]]],
   lock:  [Projects -> [Versions -> [ProjectRoots -> Versions \cup {None}]]],
   root:  SUBSET CompleteDeps,
   rootPkgs: SUBSET Packages,
   rlm:   [Projects -> Versions \cup {None}],
   chng:  SUBSET Projects,
   chngall: BOOLEAN]

(* ToReachMap() is transitively closed and never lists a project among its *)
(* own external imports.                                                   *)
ReachClosed(u) ==
  \A p \in Packages, v \in Versions :
    u.reach[p][v].ok =>
      /\ \A q \in u.reach[p][v].in : /\ q[1] = p[1]
                                     /\ u.reach[q][v].ok
                                     /\ u.reach[q][v].in \subseteq u.reach[p][v].in
                                     /\ u.reach[q][v].ex \subseteq u.reach[p][v].ex
      /\ \A q \in u.reach[p][v].ex : q[1] # p[1]

ASSUME SolverAssumption ==
  /\ Projects \subseteq Nat \ {0}
  /\ Versions \subseteq Nat \ {0}
  /\ Revisions \subseteq Versions
  /\ Sources \subseteq Nat /\ NoSource \in Sources
  /\ CaseFold \in [ProjectRoots -> ProjectRoots]
  /\ Worlds \subseteq WorldType
  /\ \A u \in Worlds :
       /\ ReachClosed(u)
       /\ \A p \in Projects : IsInjective(u.vers[p])
       /\ \A p \in Packages, v \in Versions : u.reach[p][v].ok => p \in u.has[v]
       /\ \A d \in u.root : /\ d.id.pr \in Projects
                            /\ d.pl # {} /\ \A p \in d.pl : p[1] = d.id.pr
                            /\ \A e \in u.root : d.id.pr = e.id.pr => d = e

VARIABLES
  w,          \* the universe of this run
  pc,         \* where the goroutine is
  sel,        \* s.sel.projects, the selection stack
  deps,       \* s.sel.deps, the dependers on each project root
  foldRoots,  \* s.sel.foldRoots
  unsel,      \* s.unsel.sl, a binary heap in a slice
  vqs,        \* s.vqs, the stack of version queues
  newq,       \* the queue createVersionQueue() is building
  awp,        \* the atomWithPackages in hand
  todo,       \* the dependencies of awp still to be pushed or popped
  retry       \* backtrack() is at its failed queue: q is the last of vqs

vars == <<w, pc, sel, deps, foldRoots, unsel, vqs, newq, awp, todo, retry>>

-----------------------------------------------------------------------------
(* Identifiers.  Source = ProjectRoot, which eq() takes for an empty       *)
(* source, is already normalised to NoSource.                              *)

Eq(i, j) == i.pr = j.pr /\ i.src = j.src

Equiv(i, j) == i.pr = j.pr /\ (i.src = j.src \/ (i.src # NoSource /\ j.src = NoSource))

IdLess(i, j) == i.pr < j.pr \/ (i.pr = j.pr /\ i.src < j.src)

-----------------------------------------------------------------------------
(* selection.go *)

IsSelected(s, pr) == \E i \in DOMAIN s : s[i].a.id.pr = pr

SelectedVersion(s, pr) ==
  s[CHOOSE i \in DOMAIN s : /\ s[i].a.id.pr = pr
                            /\ \A j \in 1..(i - 1) : s[j].a.id.pr # pr].a.v

GetConstraint(pr) ==
  {v \in AnyVersion : \A i \in DOMAIN deps[pr] : v \in deps[pr][i].dep.c}

HasIdent(pr) == deps[pr] # <<>>
GetIdentFor(pr) == deps[pr][1].dep.id

Dependers(pr) == {deps[pr][i].depender.id : i \in DOMAIN deps[pr]}

CaseConflict(pr) == foldRoots[CaseFold[pr]] \notin {None, pr}

PushDep(d) ==
  LET pr == d.dep.id.pr IN
  /\ deps' = [deps EXCEPT ![pr] = Append(@, d)]
  /\ foldRoots' = IF deps[pr] = <<>> THEN [foldRoots EXCEPT ![CaseFold[pr]] = pr]
                                     ELSE foldRoots

(* Mutant: the folded root is not forgotten with its last depender. *)
PopDepKeepsFold(pr) ==
  /\ deps' = [deps EXCEPT ![pr] = Front(@)]
  /\ UNCHANGED foldRoots

(* Mutant: the oldest depender is dropped, not the newest. *)
PopDepOldest(pr) ==
  /\ deps' = [deps EXCEPT ![pr] = Tail(@)]
  /\ foldRoots' = IF Len(deps[pr]) = 1 THEN [foldRoots EXCEPT ![CaseFold[pr]] = None]
                                       ELSE foldRoots

PopDep(pr) ==
  /\ deps' = [deps EXCEPT ![pr] = Front(@)]
  /\ foldRoots' = IF Len(deps[pr]) = 1 THEN [foldRoots EXCEPT ![CaseFold[pr]] = None]
                                       ELSE foldRoots

(* Mutant: packages count as new with the first depender only. *)
NewlyRequiredOfFirst(d) == IF deps[d.id.pr] = <<>> THEN d.pl ELSE {}

(* The packages of d that nobody required before d was pushed. *)
NewlyRequired(d) ==
  {p \in d.pl : \A i \in DOMAIN deps[d.id.pr] : p \notin deps[d.id.pr][i].dep.pl}

-----------------------------------------------------------------------------
(* The priority queue: container/heap over unselected, and remove(). *)

Less(s, x, y) ==
  LET xl == w.rlm[x.id.pr] # None
      yl == w.rlm[y.id.pr] # None
      xn == Len(w.vers[x.id.pr])
      yn == Len(w.vers[y.id.pr])
  IN  IF IsSelected(s, x.id.pr) # IsSelected(s, y.id.pr)
      THEN IsSelected(s, x.id.pr)
      ELSE /\ ~Eq(x.id, y.id)
           /\ IF xl # yl THEN xl
              ELSE IF xl \/ xn = yn THEN IdLess(x.id, y.id)
              ELSE xn < yn

(* heap.Push() appends x and swaps it with its parent as long as it is     *)
(* less: path is the slots that x is in on its way up to slot t.           *)
Rises(h, s, x, path, t) ==
  /\ Len(h) + 1 \in path
  /\ \A i \in path : /\ t <= i
                     /\ i # t => i \div 2 \in path
                     /\ i <= Len(h) => Less(s, x, h[i]) /\ \E c \in path : c \div 2 = i
  /\ t > 1 => ~Less(s, x, h[t \div 2])

Risen(h, x, path, t) ==
  [i \in 1..(Len(h) + 1) |-> IF i = t THEN x ELSE IF i \in path THEN h[i \div 2] ELSE h[i]]

HeapPush(s, x) ==
  \E path \in SUBSET (1..(Len(unsel) + 1)) : \E t \in path :
    /\ Rises(unsel, s, x, path, t)
    /\ unsel' = Risen(unsel, x, path, t)

(* unselected.remove: splice out the first match, leaving the rest as is.  *)
RemoveBmi(id, pl) ==
  unsel' = RemoveFirstMatch(unsel, LAMBDA bmi : Eq(bmi.id, id) /\ bmi.pl = pl)

-----------------------------------------------------------------------------
(* version_queue.go *)

Queue(id, lockv, prefv) ==
  LET hints == (IF lockv = None THEN <<>> ELSE <<lockv>>) \o
               (IF prefv = None THEN <<>> ELSE <<prefv>>)
  IN  [id |-> id, lockv |-> lockv, prefv |-> prefv, failed |-> FALSE,
       allLoaded |-> hints = <<>>,
       pi |-> IF hints = <<>> THEN w.vers[id.pr] ELSE hints]

(* Mutant: the version list is loaded again each time it runs out. *)
AdvanceReloads(q) ==
  LET rest == Tail(q.pi) IN
  [q EXCEPT !.pi = IF rest = <<>> THEN w.vers[q.id.pr] ELSE rest,
            !.allLoaded = q.allLoaded \/ rest = <<>>,
            !.failed = FALSE]

Advance(q) ==
  LET rest == Tail(q.pi)
      pi   == IF rest = <<>> /\ ~q.allLoaded
              THEN RemoveFirst(RemoveFirst(w.vers[q.id.pr], q.lockv), q.prefv)
              ELSE rest
  IN  [q EXCEPT !.pi = pi,
                !.allLoaded = q.allLoaded \/ rest = <<>>,
                !.failed = IF pi = <<>> THEN q.failed ELSE FALSE]

IsExhausted(q) == q.allLoaded /\ q.pi = <<>>

(* fail(): mark the oldest queue of each of ids; the root has no queue.    *)
MarkFailed(qs, ids) ==
  [i \in DOMAIN qs |->
     IF \E id \in ids : /\ id.pr # Root
                        /\ Eq(qs[i].id, id)
                        /\ \A j \in 1..(i - 1) : ~Eq(qs[j].id, id)
     THEN [qs[i] EXCEPT !.failed = TRUE] ELSE qs[i]]

-----------------------------------------------------------------------------
(* getImportsAndConstraintsOf() and the satisfiability checks *)

ImportsOk(a, pl) == \A p \in pl : w.reach[p][a.v].ok

WithInternal(a, pl) == pl \cup UNION {w.reach[p][a.v].in : p \in pl}

Reached(a, pl) == UNION {w.reach[p][a.v].ex : p \in pl}

DepsOf(a, pl) ==
  {[id |-> [pr |-> pr, src |-> w.cons[a.id.pr][a.v][pr].src],
    c  |-> w.cons[a.id.pr][a.v][pr].c,
    pl |-> {p \in Reached(a, pl) : p[1] = pr}] : pr \in {p[1] : p \in Reached(a, pl)}}

AtomAllowable(a) == a.v \in GetConstraint(a.id.pr)

(* The dependers whose own constraint rules a out: these are failed.       *)
Disallowers(a) ==
  {deps[a.id.pr][i].depender.id :
     i \in {j \in DOMAIN deps[a.id.pr] : a.v \notin deps[a.id.pr][j].dep.c}}

RequiredPackagesExist(a) ==
  \A i \in DOMAIN deps[a.id.pr] : deps[a.id.pr][i].dep.pl \subseteq w.has[a.v]

IdentMatches(d) == HasIdent(d.id.pr) => Equiv(GetIdentFor(d.id.pr), d.id)

DepsConstraintAllowable(d) == d.c \cap GetConstraint(d.id.pr) # {}

DepsAllowsSelected(d) == IsSelected(sel, d.id.pr) => SelectedVersion(sel, d.id.pr) \in d.c

RevisionExists(d) ==
  \A r \in Revisions : d.c = {r} => \E p \in w.has[r] : p[1] = d.id.pr

PackageImportsExist(d) ==
  IsSelected(sel, d.id.pr) =>
    d.pl \subseteq IF d.id.pr = Root THEN w.rootPkgs
                   ELSE w.has[SelectedVersion(sel, d.id.pr)]

DepOk(d) ==
  /\ IdentMatches(d)
  /\ ~CaseConflict(d.id.pr)
  /\ DepsConstraintAllowable(d)
  /\ DepsAllowsSelected(d)
  /\ RevisionExists(d)
  /\ PackageImportsExist(d)

(* Whom the first check that d does not pass fails.                        *)
Blamed(a, d) ==
  CASE ~IdentMatches(d) -> Dependers(a.id.pr)
    [] IdentMatches(d) /\ CaseConflict(d.id.pr) -> Dependers(foldRoots[CaseFold[d.id.pr]])
    [] IdentMatches(d) /\ ~CaseConflict(d.id.pr) /\ ~DepsConstraintAllowable(d) ->
         {deps[d.id.pr][i].depender.id :
            i \in {j \in DOMAIN deps[d.id.pr] : deps[d.id.pr][j].dep.c \cap d.c = {}}}
    [] IdentMatches(d) /\ ~CaseConflict(d.id.pr) /\ DepsConstraintAllowable(d)
         /\ ~DepsAllowsSelected(d) -> {d.id}
    [] OTHER -> {}

(* Mutant: the atom is not checked against its dependers' constraints. *)
ChecksNotAtom(a, pl, pkgonly) ==
  /\ RequiredPackagesExist(a)
  /\ ImportsOk(a, pl)
  /\ \A d \in DepsOf(a, pl) : DepOk(d)

Checks(a, pl, pkgonly) ==
  /\ pkgonly \/ AtomAllowable(a)
  /\ RequiredPackagesExist(a)
  /\ ImportsOk(a, pl)
  /\ \A d \in DepsOf(a, pl) : DepOk(d)

(* What a failed check() may fail.  The dependencies come out of a map, so *)
(* any dependency that does not pass may be the first one looked at.       *)
CheckBlames(a, pl, pkgonly) ==
  IF ~pkgonly /\ ~AtomAllowable(a) THEN {Disallowers(a)}
  ELSE IF ~RequiredPackagesExist(a) \/ ~ImportsOk(a, pl) THEN {{}}
  ELSE {Blamed(a, d) : d \in {e \in DepsOf(a, pl) : ~DepOk(e)}}

-----------------------------------------------------------------------------
(* solver.go: the run *)

RootAtom == [id |-> [pr |-> Root, src |-> NoSource], v |-> RootVersion]
NoQueue  == [id |-> RootAtom.id, pi |-> <<>>, lockv |-> None, prefv |-> None,
             failed |-> FALSE, allLoaded |-> FALSE]
RootSelected == [a |-> RootAtom, pl |-> {}, first |-> TRUE]

Init ==
  /\ w \in Worlds
  /\ pc = "selectRoot"
  /\ sel = <<RootSelected>>
  /\ deps = [pr \in ProjectRoots |-> <<>>]
  /\ foldRoots = [pr \in ProjectRoots |-> None]
  /\ unsel = <<>>
  /\ vqs = <<>>
  /\ newq = NoQueue
  /\ awp = RootSelected
  /\ todo = w.root
  /\ retry = FALSE

(* selectRoot(): one turn of its loop over the root's dependencies.        *)
SelectRoot ==
  /\ pc = "selectRoot"
  /\ \E d \in todo :
       /\ PushDep([depender |-> RootAtom, dep |-> d])
       /\ HeapPush(sel, [id |-> d.id, pl |-> d.pl, prefv |-> None, fromRoot |-> TRUE])
       /\ todo' = todo \ {d}
  /\ UNCHANGED <<w, pc, sel, vqs, newq, awp, retry>>

(* selectAtom(), up to its loop over the atom's dependencies.              *)
SelectAtom(a, pl, first) ==
  /\ RemoveBmi(a.id, pl)
  /\ sel' = Append(sel, [a |-> a, pl |-> WithInternal(a, pl), first |-> first])
  /\ awp' = [a |-> a, pl |-> WithInternal(a, pl), first |-> first]
  /\ todo' = {d \in DepsOf(a, pl) : d.id.pr # Root}
  /\ pc' = "selectAtom"

(* selectAtom(): one turn of that loop. *)
SelectAtomDep ==
  /\ pc = "selectAtom"
  /\ \E d \in todo :
       LET id == IF HasIdent(d.id.pr) THEN GetIdentFor(d.id.pr) ELSE d.id IN
       /\ PushDep([depender |-> awp.a, dep |-> d])
       /\ IF NewlyRequired(d) = {} THEN UNCHANGED unsel
          ELSE HeapPush(sel, [id |-> id, pl |-> NewlyRequired(d),
                              prefv |-> w.lock[awp.a.id.pr][awp.a.v][d.id.pr],
                              fromRoot |-> FALSE])
       /\ todo' = todo \ {d}
  /\ UNCHANGED <<w, pc, sel, vqs, newq, awp, retry>>

DepsPushed ==
  /\ pc \in {"selectRoot", "selectAtom"}
  /\ todo = {}
  /\ pc' = "solve"
  /\ UNCHANGED <<w, sel, deps, foldRoots, unsel, vqs, newq, awp, todo, retry>>

LockVersion(id) ==
  IF id.pr \in w.chng \/ w.chngall THEN None ELSE w.rlm[id.pr]

(* The last lock among the dependers' that has an opinion.  A bmi from the *)
(* root asks them all; any other carries its depender's opinion.           *)
Preferred(bmi) ==
  LET ds == deps[bmi.id.pr]
      opinion == [i \in DOMAIN ds |->
                    IF ds[i].depender.id.pr = Root THEN None
                    ELSE w.lock[ds[i].depender.id.pr][ds[i].depender.v][bmi.id.pr]]
      having == {i \in DOMAIN ds : opinion[i] # None}
  IN  IF ~bmi.fromRoot THEN bmi.prefv
      ELSE IF having = {} THEN None
      ELSE opinion[CHOOSE i \in having : \A j \in having : j <= i]

(* A revision is in no version list, so a queue for one starts with it.    *)
WithRevision(q) ==
  LET c == GetConstraint(q.id.pr) IN
  IF \E r \in Revisions : c = {r} /\ Head(q.pi) # r
  THEN [q EXCEPT !.pi = <<CHOOSE r \in Revisions : c = {r}>> \o @]
  ELSE q

(* The panics the code keeps for states it holds to be impossible.         *)
Unless(ok, next, panic) == IF ok THEN next ELSE panic

(* findValidVersion() is entered with q. *)
FindValidVersion(q) == Unless(q.pi # <<>>, "findValidVersion", "panic: empty queue")

(* solve(): the head of the queue names a project not selected yet.        *)
CreateVersionQueue ==
  /\ pc = "solve"
  /\ unsel # <<>>
  /\ LET bmi == unsel[1] IN
     /\ ~IsSelected(sel, bmi.id.pr)
     /\ \/ /\ w.vers[bmi.id.pr] = <<>>
           /\ pc' = "backtrack"
           /\ UNCHANGED <<newq, awp>>
        \/ /\ w.vers[bmi.id.pr] # <<>>
           /\ newq' = WithRevision(Queue(bmi.id, LockVersion(bmi.id), Preferred(bmi)))
           /\ awp' = [a |-> [id |-> bmi.id, v |-> RootVersion], pl |-> bmi.pl, first |-> TRUE]
           /\ pc' = FindValidVersion(newq')
  /\ UNCHANGED <<w, sel, deps, foldRoots, unsel, vqs, todo, retry>>

(* solve(): the head adds packages to a project that is already selected.  *)
AddPackages ==
  /\ pc = "solve"
  /\ unsel # <<>>
  /\ LET bmi == unsel[1]
         a == [id |-> bmi.id, v |-> SelectedVersion(sel, bmi.id.pr)]
     IN
     /\ IsSelected(sel, bmi.id.pr)
     /\ \/ /\ Checks(a, bmi.pl, TRUE)
           /\ SelectAtom(a, bmi.pl, FALSE)
           /\ UNCHANGED vqs
        \/ /\ ~Checks(a, bmi.pl, TRUE)
           /\ \E ids \in CheckBlames(a, bmi.pl, TRUE) : vqs' = MarkFailed(vqs, ids)
           /\ pc' = "backtrack"
           /\ UNCHANGED <<sel, unsel, awp, todo>>
  /\ UNCHANGED <<w, deps, foldRoots, newq, retry>>

SearchedQueue == IF retry THEN Last(vqs) ELSE newq

Candidate == [id |-> SearchedQueue.id, v |-> Head(SearchedQueue.pi)]

(* Mutant: a retried queue is pushed a second time. *)
ValidVersionPushes ==
  /\ pc = "findValidVersion"
  /\ Checks(Candidate, awp.pl, FALSE)
  /\ SelectAtom(Candidate, awp.pl, TRUE)
  /\ vqs' = Append(vqs, SearchedQueue)
  /\ retry' = FALSE
  /\ UNCHANGED <<w, deps, foldRoots, newq>>

(* findValidVersion(): the version at the front of the queue passes.       *)
ValidVersion ==
  /\ pc = "findValidVersion"
  /\ Checks(Candidate, awp.pl, FALSE)
  /\ SelectAtom(Candidate, awp.pl, TRUE)
  /\ vqs' = IF retry THEN vqs ELSE Append(vqs, newq)
  /\ retry' = FALSE
  /\ UNCHANGED <<w, deps, foldRoots, newq>>

(* findValidVersion(): it does not, and there are more to try.             *)
NextVersion ==
  /\ pc = "findValidVersion"
  /\ ~Checks(Candidate, awp.pl, FALSE)
  /\ ~IsExhausted(Advance(SearchedQueue))
  /\ \E ids \in CheckBlames(Candidate, awp.pl, FALSE) :
       LET marked == MarkFailed(vqs, ids) IN
       \/ /\ retry
          /\ vqs' = [marked EXCEPT ![Len(vqs)] = Advance(Last(marked))]
          /\ UNCHANGED newq
       \/ /\ ~retry
          /\ vqs' = marked
          /\ newq' = Advance(newq)
  /\ UNCHANGED <<w, pc, sel, deps, foldRoots, unsel, awp, todo, retry>>

(* findValidVersion(): it does not, and it was the last.  The project that *)
(* first depended on the queue's is failed; backtrack() drops the queue.   *)
NoVersion ==
  /\ pc = "findValidVersion"
  /\ ~Checks(Candidate, awp.pl, FALSE)
  /\ IsExhausted(Advance(SearchedQueue))
  /\ \E ids \in CheckBlames(Candidate, awp.pl, FALSE) :
       LET marked == MarkFailed(vqs, ids)
           ds == deps[SearchedQueue.id.pr]
           blamed == IF ds = <<>> THEN marked ELSE MarkFailed(marked, {ds[1].depender.id})
       IN  /\ pc' = Unless(ds # <<>>, "backtrack", "panic: index out of range")
           /\ vqs' = IF retry THEN Front(blamed) ELSE blamed
  /\ retry' = FALSE
  /\ UNCHANGED <<w, sel, deps, foldRoots, unsel, newq, awp, todo>>

(* Mutant: the queue of a project that is not retried is kept. *)
BacktrackKeepsQueue ==
  /\ pc = "backtrack"
  /\ \/ /\ vqs = <<>>
        /\ pc' = "failed"
        /\ UNCHANGED <<vqs, retry>>
     \/ /\ vqs # <<>>
        /\ retry' = Last(vqs).failed
        /\ UNCHANGED vqs
        /\ pc' = "unselectLast"
  /\ UNCHANGED <<w, sel, deps, foldRoots, unsel, newq, awp, todo>>

(* backtrack(): drop queues until one is failed.                           *)
Backtrack ==
  /\ pc = "backtrack"
  /\ \/ /\ vqs = <<>>
        /\ pc' = "failed"
        /\ UNCHANGED <<vqs, retry>>
     \/ /\ vqs # <<>>
        /\ retry' = Last(vqs).failed
        /\ vqs' = IF retry' THEN vqs ELSE Front(vqs)
        /\ pc' = "unselectLast"
  /\ UNCHANGED <<w, sel, deps, foldRoots, unsel, newq, awp, todo>>

(* Mutant: the unselected atom does not go back on the queue. *)
UnselectLastForgets ==
  /\ pc = "unselectLast"
  /\ LET top == Last(sel) IN
     /\ awp' = top
     /\ sel' = Front(sel)
     /\ todo' = {d \in DepsOf(top.a, top.pl) : d.id.pr # Root}
     /\ pc' = Unless(ImportsOk(top.a, top.pl), "popDeps", "panic: imports")
  /\ UNCHANGED <<w, deps, foldRoots, unsel, vqs, newq, retry>>

(* unselectLast(), up to its loop over the atom's dependencies.            *)
UnselectLast ==
  /\ pc = "unselectLast"
  /\ LET top == Last(sel) IN
     /\ awp' = top
     /\ sel' = Front(sel)
     /\ HeapPush(Front(sel), [id |-> top.a.id, pl |-> top.pl,
                              prefv |-> None, fromRoot |-> FALSE])
     /\ todo' = {d \in DepsOf(top.a, top.pl) : d.id.pr # Root}
     /\ pc' = Unless(ImportsOk(top.a, top.pl), "popDeps", "panic: imports")
  /\ UNCHANGED <<w, deps, foldRoots, vqs, newq, retry>>

(* unselectLast(): one turn of that loop. *)
UnselectDep ==
  /\ pc = "popDeps"
  /\ \E d \in todo :
       /\ PopDep(d.id.pr)
       /\ IF Len(deps[d.id.pr]) = 1 THEN RemoveBmi(d.id, d.pl) ELSE UNCHANGED unsel
       /\ todo' = todo \ {d}
  /\ UNCHANGED <<w, pc, sel, vqs, newq, awp, retry>>

(* Mutant: backtrack() takes any atom popped for the queue's project. *)
UnselectedOnce ==
  /\ pc = "popDeps"
  /\ todo = {}
  /\ \/ /\ ~retry
        /\ pc' = "backtrack"
        /\ UNCHANGED <<vqs, retry>>
     \/ /\ retry
        /\ LET q == Advance(Last(vqs)) IN
           \/ /\ IsExhausted(q)
              /\ vqs' = Front(vqs)
              /\ pc' = Unless(Eq(q.id, awp.a.id), "backtrack", "panic: misaligned")
              /\ retry' = FALSE
           \/ /\ ~IsExhausted(q)
              /\ vqs' = [vqs EXCEPT ![Len(vqs)] = q]
              /\ pc' = Unless(Eq(q.id, awp.a.id), FindValidVersion(q), "panic: misaligned")
              /\ UNCHANGED retry
  /\ UNCHANGED <<w, sel, deps, foldRoots, unsel, newq, awp, todo>>

(* backtrack(): after an unselectLast().  Past a package-only selection it *)
(* pops again; at a project it goes on to the next queue, or tries the     *)
(* next version of the failed one.                                         *)
Unselected ==
  /\ pc = "popDeps"
  /\ todo = {}
  /\ \/ /\ ~awp.first
        /\ pc' = "unselectLast"
        /\ UNCHANGED <<vqs, retry>>
     \/ /\ awp.first /\ ~retry
        /\ pc' = "backtrack"
        /\ UNCHANGED <<vqs, retry>>
     \/ /\ awp.first /\ retry
        /\ LET q == Advance(Last(vqs)) IN
           \/ /\ IsExhausted(q)
              /\ vqs' = Front(vqs)
              /\ pc' = Unless(Eq(q.id, awp.a.id), "backtrack", "panic: misaligned")
              /\ retry' = FALSE
           \/ /\ ~IsExhausted(q)
              /\ vqs' = [vqs EXCEPT ![Len(vqs)] = q]
              /\ pc' = Unless(Eq(q.id, awp.a.id), FindValidVersion(q), "panic: misaligned")
              /\ UNCHANGED retry
  /\ UNCHANGED <<w, sel, deps, foldRoots, unsel, newq, awp, todo>>

(* solve(): nothing is left to select.                                     *)
Solved ==
  /\ pc = "solve"
  /\ unsel = <<>>
  /\ pc' = "solved"
  /\ UNCHANGED <<w, sel, deps, foldRoots, unsel, vqs, newq, awp, todo, retry>>

(* Both loops look at the context's Done channel first.                    *)
Canceled ==
  /\ pc \in {"solve", "backtrack"}
  /\ pc' = "canceled"
  /\ UNCHANGED <<w, sel, deps, foldRoots, unsel, vqs, newq, awp, todo, retry>>

Step ==
  \/ SelectRoot \/ SelectAtomDep \/ DepsPushed
  \/ CreateVersionQueue \/ AddPackages
  \/ ValidVersion \/ NextVersion \/ NoVersion
  \/ Backtrack \/ UnselectLast \/ UnselectDep \/ Unselected
  \/ Solved

Next == Step \/ Canceled

Spec == Init /\ [][Next]_vars

FairSpec == Spec /\ WF_vars(Step)

-----------------------------------------------------------------------------
Ended == {"solved", "failed", "canceled"}
Panics == {"panic: empty queue", "panic: index out of range", "panic: imports",
           "panic: misaligned"}
Running == {"selectRoot", "selectAtom", "solve", "findValidVersion", "backtrack",
            "unselectLast", "popDeps"}

(* The fields of the solver keep the shape their Go types give them.       *)
TypeOK ==
  /\ pc \in Running \cup Ended \cup Panics
  /\ sel \in Seq(Selecteds)
  /\ deps \in [ProjectRoots -> Seq(Dependencies)]
  /\ foldRoots \in [ProjectRoots -> ProjectRoots \cup {None}]
  /\ unsel \in Seq(Bmis)
  /\ vqs \in Seq(Queues)
  /\ newq \in Queues \cup {NoQueue}
  /\ awp \in Selecteds
  /\ todo \subseteq CompleteDeps
  /\ retry \in BOOLEAN
=============================================================================
