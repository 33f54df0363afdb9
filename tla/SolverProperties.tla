-------------------------- MODULE SolverProperties --------------------------
(***************************************************************************)
(* What a solve run promises (docs/the-solver.md, "Solving invariants",    *)
(* docs/failure-modes.md, docs/Gopkg.lock.md), defined from the universe   *)
(* alone, with no reference to how the solver searches.                    *)
(***************************************************************************)
EXTENDS Solver

Assignments == [Projects -> Versions \cup {None}]

(* The projects that S's packages belong to. *)
ProjectsOf(S) == {p[1] : p \in S}

(* S has what the root imports and, with each package, all it imports, at  *)
(* a version its project has the package at.                               *)
ImportClosed(u, f, S) ==
  /\ \A d \in u.root : d.pl \subseteq S
  /\ \A p \in S : /\ p \in u.has[f[p[1]]]
                  /\ u.reach[p][f[p[1]]].ok
                  /\ u.reach[p][f[p[1]]].in \subseteq S
                  /\ {x \in u.reach[p][f[p[1]]].ex : x[1] # Root} \subseteq S

(* The rules on pr that the packages in S activate. *)
ActiveRules(u, f, S, pr) ==
  {[c |-> d.c, src |-> d.id.src] : d \in {e \in u.root : e.id.pr = pr}} \cup
  {u.cons[q][f[q]][pr] :
     q \in {p[1] : p \in {x \in S : \E y \in u.reach[x][f[x[1]]].ex : y[1] = pr}}}

RulesKept(u, f, S) ==
  /\ \A pr \in ProjectsOf(S), r \in UNION {ActiveRules(u, f, S, q) : q \in ProjectsOf(S)} :
       r \in ActiveRules(u, f, S, pr) => f[pr] \in r.c
  /\ \A r \in ActiveRules(u, f, S, Root) : RootVersion \in r.c
  /\ \A p \in S : {x \in u.reach[p][f[p[1]]].ex : x[1] = Root} \subseteq u.rootPkgs

(* docs/the-solver.md: string-equal sources, or none at all.               *)
OneSource(u, f, S) ==
  \A pr \in ProjectsOf(S) :
    Cardinality({r.src : r \in ActiveRules(u, f, S, pr)} \ {NoSource}) <= 1

OneCase(S) == \A p, q \in ProjectsOf(S) : CaseFold[p] = CaseFold[q] => p = q

(* Neither the root nor any one version of a project imports two roots     *)
(* that differ only in case.                                               *)
SpeltOnce(u) ==
  /\ OneCase(UNION {d.pl : d \in u.root})
  /\ \A pr \in Projects, v \in Versions :
       OneCase(UNION {u.reach[p][v].ex : p \in {q \in Packages : q[1] = pr}})

IsSolution(u, f, S) ==
  /\ \A pr \in ProjectsOf(S) : f[pr] \in ToSet(u.vers[pr]) \cup Revisions
  /\ ImportClosed(u, f, S) /\ RulesKept(u, f, S) /\ OneSource(u, f, S) /\ OneCase(S)

-----------------------------------------------------------------------------
(* The map of atoms to packages that solve() returns. *)

SolutionPackages == UNION {sel[i].pl : i \in 2..Len(sel)}

SolutionVersions ==
  [p \in Projects |-> IF IsSelected(sel, p) THEN SelectedVersion(sel, p) ELSE None]

(* Every solution returned satisfies every activated constraint, contains  *)
(* every package imported, each project from one source and, unless an     *)
(* importer itself mixes the spellings or a project is there without one,  *)
(* in one case.                                                            *)
SolutionSound ==
  pc = "solved" =>
    /\ ImportClosed(w, SolutionVersions, SolutionPackages)
    /\ RulesKept(w, SolutionVersions, SolutionPackages)
    /\ OneSource(w, SolutionVersions, SolutionPackages)
    /\ SpeltOnce(w) /\ (\A pr \in ProjectsOf(SolutionPackages) : deps[pr] # <<>>) =>
         OneCase(SolutionPackages)
    /\ ProjectsOf(SolutionPackages) = {p \in Projects : IsSelected(sel, p)}

(* A run that reports failure had no combination of versions to find.  TLC *)
(* refutes it: only some of the queues at fault are marked as failed.      *)
FailureJustified ==
  pc = "failed" => ~ \E f \in Assignments, S \in SUBSET (Projects \X PkgNames) : IsSolution(w, f, S)

(* The packages of a solution are participants in the import graph: none   *)
(* is there that the root does not, directly or not, import.  TLC refutes  *)
(* it: an entry that unselectLast() pushed back can outlive its importer.  *)
SolutionMinimal ==
  pc = "solved" => \A S \in SUBSET SolutionPackages :
                     ImportClosed(w, SolutionVersions, S) => S = SolutionPackages

(* The projects of a solution are each spelled in one case only.  TLC      *)
(* refutes it where the root, or one version of a project, itself imports  *)
(* both spellings: each import is checked against those recorded before    *)
(* its importer was selected.                                              *)
SolutionOneCase == pc = "solved" => OneCase(SolutionPackages)
-----------------------------------------------------------------------------
(* The state of a run. *)

(* The selections that are of a project rather than of packages only; the  *)
(* root is not one.                                                        *)
Firsts(s) == {i \in 2..Len(s) : s[i].first}

Rank(s, i) == Cardinality({j \in Firsts(s) : j <= i})

(* By how much selected projects outnumber version queues: backtrack()     *)
(* drops a queue before it pops the project, and keeps the queue of the    *)
(* project it is retrying.                                                 *)
Owed ==
  IF ~retry /\ (pc = "unselectLast" \/ (pc = "popDeps" /\ ~awp.first)) THEN 1
  ELSE IF retry /\ (pc = "findValidVersion" \/ (pc = "popDeps" /\ awp.first)) THEN -1
  ELSE 0

(* s.vqs and s.sel stay in step: the queues are those of the selected      *)
(* projects, in the order they were selected, across package-only          *)
(* selections, backjumps and retries.                                      *)
StacksAligned ==
  /\ Cardinality(Firsts(sel)) = Len(vqs) + Owed
  /\ \A i \in Firsts(sel) :
       Rank(sel, i) <= Len(vqs) => vqs[Rank(sel, i)].id = sel[i].a.id
  /\ Owed = -1 => Last(vqs).id = awp.a.id

(* No state of a run has selected a version that a dependency recorded by  *)
(* some selected atom, or by the root, rules out.                          *)
SelectedAllowed ==
  \A i \in 2..Len(sel) : \A k \in DOMAIN deps[sel[i].a.id.pr] :
    sel[i].a.v \in deps[sel[i].a.id.pr][k].dep.c

(* A project is selected at one version, however often packages are added. *)
OneVersion ==
  \A i, j \in DOMAIN sel : sel[i].a.id.pr = sel[j].a.id.pr => sel[i].a.v = sel[j].a.v

(* The canaries of backtrack(), unselectLast() and findValidVersion() stay *)
(* silent.                                                                 *)
NoCanary == pc \notin {"panic: empty queue", "panic: imports", "panic: misaligned"}

(* A run ends with a solution, a failure or a cancellation.  TLC refutes   *)
(* it: the entry SolutionMinimal speaks of has no depender to index.       *)
NoPanic == pc \notin Panics

(* Between iterations the dependers recorded on a project are the root and *)
(* the selections that import it, in selection order: popDep(), which      *)
(* drops the last entry whoever it belongs to, dropped the right ones.     *)
DepsMirrorSelection ==
  pc \in {"solve", "backtrack"} =>
    \A pr \in Projects :
      LET R == {d \in w.root : d.id.pr = pr}
          On(i) == {d \in DepsOf(sel[i].a, sel[i].pl) : d.id.pr = pr}
          E == {i \in 2..Len(sel) : On(i) # {}}
      IN  /\ Len(deps[pr]) = Cardinality(R) + Cardinality(E)
          /\ \A i \in E :
               deps[pr][Cardinality(R) + Cardinality({j \in E : j <= i})] =
                 [depender |-> sel[i].a, dep |-> CHOOSE d \in On(i) : TRUE]

(* Between iterations every package somebody requires is selected or on    *)
(* the queue: backtracking never loses work still to be done.              *)
RequiredCovered ==
  pc = "solve" =>
    \A pr \in Projects : \A k \in DOMAIN deps[pr] : \A p \in deps[pr][k].dep.pl :
      \/ \E i \in DOMAIN sel : p \in sel[i].pl
      \/ \E i \in DOMAIN unsel : unsel[i].id.pr = pr /\ p \in unsel[i].pl

(* Of the roots that differ only in case at most one has dependers, and    *)
(* foldRoots names it; it names none when none has.  An importer that      *)
(* mixes the spellings is the exception.                                   *)
OneCaseVariant ==
  pc = "solve" /\ SpeltOnce(w) =>
    \A pr \in Projects : deps[pr] # <<>> <=> foldRoots[CaseFold[pr]] = pr

(* Package additions come off the queue before project additions.  TLC     *)
(* refutes it: selecting a project reorders entries inside the heap.       *)
PackagesFirst ==
  pc = "solve" /\ (\E i \in DOMAIN unsel : IsSelected(sel, unsel[i].id.pr)) =>
    IsSelected(sel, unsel[1].id.pr)

(* Every run ends, however much it backtracks.                             *)
Termination == <>(pc \in Ended)
=============================================================================
