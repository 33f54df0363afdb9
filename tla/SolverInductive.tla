-------------------------- MODULE SolverInductive ---------------------------
(***************************************************************************)
(* The inductive invariant behind the safety theorems of SolverProofs.     *)
(* Each part is a fact the code of gps/solver.go relies on without ever    *)
(* checking it.                                                            *)
(***************************************************************************)
EXTENDS SolverProperties

DepAtoms == [id: DepIdents, v: Versions]

Owned(pr, pl) == \A p \in pl : p[1] = pr

OwnedBmis == {bmi \in Bmis : Owned(bmi.id.pr, bmi.pl)}

(* The root stays at the bottom of the stack; all else is a dependency     *)
(* whose imports resolve, so that unselectLast() can list them again.      *)
SelectionSane ==
  /\ Len(sel) > 0
  /\ sel[1] = RootSelected
  /\ \A i \in 2..Len(sel) : sel[i].a \in DepAtoms /\ ImportsOk(sel[i].a, sel[i].pl)
  /\ pc = "selectRoot" => Len(sel) = 1

(* A project is selected before packages are added to it, and only once.   *)
FirstIsFirst ==
  \A i \in 2..Len(sel) : \A j \in 1..(i - 1) :
    sel[i].first => sel[j].a.id.pr # sel[i].a.id.pr

(* Dependencies are filed under their own root, and their depender is the  *)
(* root or an atom.                                                        *)
DepsSane ==
  \A pr \in ProjectRoots : \A k \in DOMAIN deps[pr] :
    /\ deps[pr][k].dep.id.pr = pr
    /\ deps[pr][k].depender \in DepAtoms \cup {RootAtom}

(* The dependencies being pushed or popped. *)
TodoSane ==
  /\ \A d \in todo : d.id.pr \in Projects
  /\ pc = "selectAtom" =>
       /\ awp.a \in DepAtoms
       /\ \A d \in todo : \A i \in 2..Len(sel) : sel[i].a.id.pr = d.id.pr => sel[i].a.v \in d.c

(* Packages are only ever listed with the project they are in. *)
PackagesOwned ==
  /\ unsel \in Seq(OwnedBmis)
  /\ Owned(awp.a.id.pr, awp.pl)
  /\ \A i \in 1..Len(sel) : Owned(sel[i].a.id.pr, sel[i].pl)
  /\ \A d \in todo : Owned(d.id.pr, d.pl)

(* No version queue on the stack is empty. *)
QueuesSane == \A i \in DOMAIN vqs : vqs[i].pi # <<>>

(* A retry happens inside backtrack() only, on the last queue; the project *)
(* searched for is not selected.                                           *)
SearchSane ==
  /\ retry => /\ pc \in {"unselectLast", "popDeps", "findValidVersion"}
              /\ vqs # <<>>
  /\ pc = "findValidVersion" => /\ ~retry => newq \in Queues
                                /\ SearchedQueue.pi # <<>>
                                /\ SearchedQueue.id = awp.a.id
                                /\ awp.first
  /\ pc \in {"findValidVersion", "popDeps"} /\ awp.first => ~IsSelected(sel, awp.a.id.pr)

(* Every part of a run's state is consistent with every other, through     *)
(* selections, package additions, backjumps and retries.                   *)
IInv ==
  /\ TypeOK
  /\ SelectionSane
  /\ FirstIsFirst
  /\ OneVersion
  /\ DepsSane
  /\ TodoSane
  /\ PackagesOwned
  /\ QueuesSane
  /\ SearchSane
  /\ StacksAligned
  /\ SelectedAllowed
  /\ NoCanary

-----------------------------------------------------------------------------
(* The strengthening of IInv behind SolutionSound: what is recorded of the *)
(* selections is what they import, and all of it is selected or queued.    *)

(* What the packages of selection e import, and of which projects. *)
Externals(u, e) == UNION {u.reach[p][e.a.v].ex : p \in e.pl}

Imports(u, e, pr) == \E p \in Externals(u, e) : p[1] = pr

(* The dependency on pr that getImportsAndConstraintsOf() makes of it. *)
DepOn(u, e, pr) ==
  [id |-> [pr |-> pr, src |-> u.cons[e.a.id.pr][e.a.v][pr].src],
   c  |-> u.cons[e.a.id.pr][e.a.v][pr].c,
   pl |-> {p \in Externals(u, e) : p[1] = pr}]

Record(u, e, pr) == [depender |-> e.a, dep |-> DepOn(u, e, pr)]

Importers(u, s, pr) == {i \in 2..Len(s) : Imports(u, s[i], pr)}

(* After its first m entries, ds records the selections in I, in order. *)
Mirrors(u, ds, m, I, s, pr) ==
  /\ Len(ds) = m + Cardinality(I)
  /\ \A i \in I : ds[m + Cardinality({j \in I : j <= i})] = Record(u, s[i], pr)

(* pr's turn in the loop over the dependencies in hand is still to come. *)
Pending(pr) == \E d \in todo : d.id.pr = pr

FilledBmis == {bmi \in OwnedBmis : bmi.pl # {}}

(* Nothing is queued or selected without a package, and a selection has    *)
(* the packages of its own that its packages import.                       *)
PackagesKept ==
  /\ unsel \in Seq(FilledBmis)
  /\ \A d \in todo : d.pl # {}
  /\ pc \in {"findValidVersion", "popDeps"} => awp.pl # {}
  /\ \A i \in 2..Len(sel) :
       /\ sel[i].pl # {}
       /\ \A p \in sel[i].pl : w.reach[p][sel[i].a.v].in \subseteq sel[i].pl

(* The dependencies in hand are the root's, or those of the atom in hand.  *)
TodoKept ==
  /\ pc \notin {"selectRoot", "selectAtom", "popDeps"} => todo = {}
  /\ pc = "selectRoot" => todo \subseteq w.root
  /\ pc = "selectAtom" => Len(sel) > 1 /\ awp = Last(sel)
  /\ pc \in {"selectAtom", "popDeps"} =>
       \A d \in todo : Imports(w, awp, d.id.pr) /\ d = DepOn(w, awp, d.id.pr)

(* A selection that imports the root finds the packages there, and its     *)
(* constraint lets the root's version pass.                                *)
RootKept ==
  \A i \in 2..Len(sel) : Imports(w, sel[i], Root) =>
    /\ RootVersion \in DepOn(w, sel[i], Root).c
    /\ DepOn(w, sel[i], Root).pl \subseteq w.rootPkgs

(* The dependers on a project agree on its source, and so does whoever is  *)
(* about to become one.                                                    *)
SourcesAgree ==
  /\ \A pr \in Projects : \A k \in DOMAIN deps[pr] :
       Equiv(deps[pr][1].dep.id, deps[pr][k].dep.id)
  /\ pc \in {"selectRoot", "selectAtom"} => \A d \in todo : IdentMatches(d)

(* They agree on its spelling. *)
CasesAgree ==
  SpeltOnce(w) =>
    /\ \A pr \in Projects : deps[pr] # <<>> <=> foldRoots[CaseFold[pr]] = pr
    /\ pc \in {"selectRoot", "selectAtom"} => \A d \in todo : ~CaseConflict(d.id.pr)

(* The packages somebody requires are selected or queued. *)
Covered ==
  \A pr \in Projects : \A k \in DOMAIN deps[pr] : \A p \in deps[pr][k].dep.pl :
    /\ p[1] = pr
    /\ \/ \E i \in DOMAIN sel : p \in sel[i].pl
       \/ \E i \in DOMAIN unsel : unsel[i].id.pr = pr /\ p \in unsel[i].pl

RootCount(pr) ==
  IF (\E d \in w.root : d.id.pr = pr) /\ ~(pc = "selectRoot" /\ Pending(pr)) THEN 1 ELSE 0

(* The dependers on a project are the root, first, and the selections that *)
(* import it, but for the ones not pushed yet or still to be popped.       *)
DepsMirrored ==
  \A pr \in Projects :
    /\ Mirrors(w, IF pc = "popDeps" /\ Pending(pr) THEN Front(deps[pr]) ELSE deps[pr],
               RootCount(pr),
               Importers(w, sel, pr) \ IF pc = "selectAtom" /\ Pending(pr) THEN {Len(sel)} ELSE {},
               sel, pr)
    /\ \A d \in w.root : d.id.pr = pr /\ RootCount(pr) = 1 =>
         deps[pr][1] = [depender |-> RootAtom, dep |-> d]

(* The queue is empty when a run is solved. *)
NothingLeft == pc = "solved" => unsel = <<>>

SoundInv ==
  /\ PackagesKept
  /\ TodoKept
  /\ RootKept
  /\ SourcesAgree
  /\ CasesAgree
  /\ Covered
  /\ DepsMirrored
  /\ NothingLeft

(* A run's state is consistent wherever the search has gone, forwards or   *)
(* back: what the selection, the dependers, the work queue and the version *)
(* queues say of each other (solver.go:370, selection.go:3) is what it     *)
(* takes for a solution to keep every rule.                                *)
SolveInv == IInv /\ SoundInv
=============================================================================
