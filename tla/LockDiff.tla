------------------------------ MODULE LockDiff ------------------------------
(***************************************************************************)
(* DiffLocks() of gps/lockdiff.go, which decides whether Gopkg.lock is     *)
(* written and whether vendor/ is, and the locked projects of gps/lock.go. *)
(*                                                                         *)
(* A lock is its digest and a sequence of locked projects [root, source,   *)
(* v, r, pkgs].  Roots and packages are naturals in their order, the       *)
(* source "" and the revision 0 are the empty strings, and v is NoVersion  *)
(* for a project locked to a bare revision.  A StringDiff is a pair, <<>>  *)
(* where the code has nil.                                                 *)
(***************************************************************************)
EXTENDS Versions, Sorting, FiniteSetsExt

NoVersion == [k |-> "nil"]
NoDiff    == [hash |-> <<>>, add |-> {}, remove |-> {}, modify |-> {}]

(* What the solver and a lock file give: a version, a revision or both for *)
(* each project, each project once and each package of a project once.     *)
LockedProjects ==
  [root : Nat, source : STRING, v : Unpaired \cup {NoVersion}, r : Nat, pkgs : Seq(Nat)]

IsLock(l) ==
  LET lps == l.projects
  IN /\ lps \in Seq(LockedProjects)
     /\ IsInjective([i \in DOMAIN lps |-> lps[i].root])
     /\ \A i \in DOMAIN lps : IsInjective(lps[i].pkgs) /\ (lps[i].v = NoVersion => lps[i].r # 0)

(* NewLockedProject() and Version(). *)
NewLockedProject(root, source, v, pkgs) ==
  [root |-> root, source |-> source, pkgs |-> pkgs,
   v |-> CASE v.k = "revision" -> NoVersion [] v.k = "pair" -> v.v [] IsUnpaired(v) -> v,
   r |-> IF v.k \in {"revision", "pair"} THEN v.r ELSE 0]

VersionOf(lp) ==
  CASE lp.r = 0 -> lp.v
    [] lp.r # 0 /\ lp.v = NoVersion -> Revision(lp.r)
    [] lp.r # 0 /\ lp.v # NoVersion -> Pair(lp.v, lp.r)

VersionComponentStrings(v) ==
  [revision |-> IF v.k \in {"revision", "pair"} THEN v.r ELSE 0,
   branch   |-> IF Unpair(v).k = "branch" THEN Unpair(v).name ELSE 0,
   version  |-> IF Unpair(v).k \in {"plain", "semver"} THEN Unpair(v) ELSE NoVersion]

sortedLockedProjects(lps) == SortedBy(lps, [i \in DOMAIN lps |-> lps[i].root])

StringDiff(prev, cur) == IF prev = cur THEN <<>> ELSE <<prev, cur>>

-----------------------------------------------------------------------------
(* The loop that walks two sorted sequences at once: for each element x of *)
(* s1 it goes through s2 from the first element not yet accounted for, up  *)
(* to the one equal to x.                                                  *)
WalkStep(s2, acc, x) ==
  LET equal == {i \in acc.next..Len(s2) : s2[i] = x}
      end   == IF equal = {} THEN Len(s2) ELSE Min(equal)
      new   == {i \in acc.next..end : s2[i] < x}
  IN [next    |-> Max({acc.next} \cup {i + 1 : i \in new \cup (equal \cap {end})}),
      added   |-> acc.added \cup {s2[i] : i \in new},
      removed |-> IF equal = {} THEN acc.removed \cup {x} ELSE acc.removed,
      matched |-> IF equal = {} THEN acc.matched ELSE acc.matched \cup {x}]

WalkStart == [next |-> 1, added |-> {}, removed |-> {}, matched |-> {}]

Walk(s1, s2) ==
  LET acc[n \in 0..Len(s1)] == IF n = 0 THEN WalkStart ELSE WalkStep(s2, acc[n - 1], s1[n])
      all == acc[Len(s1)]
  IN [all EXCEPT !.added = @ \cup {s2[i] : i \in all.next..Len(s2)}]

buildLockedProjectDiff(lp) ==
  [name |-> lp.root, source |-> lp.source, pkgs |-> ToSet(lp.pkgs),
   parts |-> VersionComponentStrings(VersionOf(lp))]

(* The end of DiffProjects() without the test of the packages. *)
DiffersLess(diff) == diff.source # <<>> \/ diff.version # <<>> \/ diff.revision # <<>>

(* Whether DiffProjects() returns the diff; the branch is not asked for. *)
Differs(diff) ==
  \/ diff.source # <<>> \/ diff.version # <<>> \/ diff.revision # <<>>
  \/ diff.added # {} \/ diff.removed # {}

DiffProjects(lp1, lp2) ==
  LET c1   == VersionComponentStrings(VersionOf(lp1))
      c2   == VersionComponentStrings(VersionOf(lp2))
      pkgs == Walk(SortedBy(lp1.pkgs, lp1.pkgs), SortedBy(lp2.pkgs, lp2.pkgs))
  IN [name |-> lp1.root, source |-> StringDiff(lp1.source, lp2.source),
      revision |-> StringDiff(c1.revision, c2.revision), branch |-> StringDiff(c1.branch, c2.branch),
      version |-> StringDiff(c1.version, c2.version), added |-> pkgs.added, removed |-> pkgs.removed]

DiffLocks(l1, l2) ==
  LET p1    == sortedLockedProjects(l1.projects)
      p2    == sortedLockedProjects(l2.projects)
      roots == Walk([i \in DOMAIN p1 |-> p1[i].root], [i \in DOMAIN p2 |-> p2[i].root])
      In(lps, root) == CHOOSE lp \in ToSet(lps) : lp.root = root
  IN [hash   |-> StringDiff(l1.digest, l2.digest),
      add    |-> {buildLockedProjectDiff(In(p2, root)) : root \in roots.added},
      remove |-> {buildLockedProjectDiff(In(p1, root)) : root \in roots.removed},
      modify |-> {d \in {DiffProjects(In(p1, root), In(p2, root)) : root \in roots.matched} : Differs(d)}]

-----------------------------------------------------------------------------
(* What a lock says, and the same without the names of branches. *)
Content(l)   == {buildLockedProjectDiff(lp) : lp \in ToSet(l.projects)}
Unbranch(p)  == [p EXCEPT !.parts.branch = 0]
Unbranched(P) == {Unbranch(p) : p \in P}

Current(old, diff) == IF diff = <<>> THEN old ELSE diff[2]

(* A project with a diff applied to it. *)
Patched(p, d) ==
  [name |-> p.name, source |-> Current(p.source, d.source), pkgs |-> (p.pkgs \ d.removed) \cup d.added,
   parts |-> [revision |-> Current(p.parts.revision, d.revision),
              branch   |-> Current(p.parts.branch, d.branch),
              version  |-> Current(p.parts.version, d.version)]]

(* The difference between two locks, applied to the first, gives the       *)
(* second; there is none exactly when the locks say the same.  Both but    *)
(* for the branch of a project that is otherwise the same, which is not a  *)
(* difference to DiffProjects().                                           *)
DiffExplains(l1, l2) ==
  LET d == DiffLocks(l1, l2)
      kept == Content(l1) \ d.remove
      Patch(p) == LET ds == {m \in d.modify : m.name = p.name}
                  IN IF ds = {} THEN p ELSE Patched(p, CHOOSE m \in ds : TRUE)
      result == {Patch(p) : p \in kept} \cup d.add
  IN /\ Unbranched(result) = Unbranched(Content(l2))
     /\ \A p \in Content(l1) \cap Content(l2) : p \in result
     /\ \A m \in d.modify : \E p \in Content(l2) : p.name = m.name /\ p \in result
     /\ d = NoDiff <=> (l1.digest = l2.digest /\ Unbranched(Content(l1)) = Unbranched(Content(l2)))

(* "DiffLocks compares two locks and identifies the differences between    *)
(* them."  Not so for a project that moves to another branch at the same   *)
(* revision: Gopkg.lock keeps the old branch.                              *)
NoDifferenceMissed(l1, l2) == DiffLocks(l1, l2) = NoDiff => Content(l1) = Content(l2)
=============================================================================
