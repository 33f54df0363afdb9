------------------------------ MODULE Versions ------------------------------
(***************************************************************************)
(* Versions and constraints of gps: Matches(), MatchesAny() and            *)
(* Intersect() of every type in version.go and constraints.go, the order   *)
(* versions are tried in, and the version unifier of version_unifier.go,   *)
(* which decides across types by the revisions a source lists.             *)
(*                                                                         *)
(* Names and numbers are naturals, in their order.  A range is the set of  *)
(* semantic versions it admits: the semver library is external.            *)
(***************************************************************************)
EXTENDS Integers, Sequences, FiniteSets, SequencesExt

Revision(r)    == [k |-> "revision", r |-> r]
Branch(n, def) == [k |-> "branch", name |-> n, isDefault |-> def]
Plain(n)       == [k |-> "plain", name |-> n]
Semver(n, pre) == [k |-> "semver", num |-> n, pre |-> pre]   \* pre = 0: a release
Pair(v, r)     == [k |-> "pair", v |-> v, r |-> r]
Range_(sem)    == [k |-> "range", sem |-> sem]
Union(vs)      == [k |-> "union", vs |-> vs]
any            == [k |-> "any"]
none           == [k |-> "none"]

IsUnpaired(c) == c.k \in {"branch", "plain", "semver"}
IsVersion(c)  == c.k \notin {"any", "none", "range"}

(* What a source can list: branches, tags and semantic versions, each with *)
(* its revision.                                                           *)
Branches == [k : {"branch"}, name : Nat, isDefault : BOOLEAN]
Tags     == [k : {"plain"}, name : Nat]
Semvers  == [k : {"semver"}, num : Nat, pre : Nat]
Unpaired == Branches \cup Tags \cup Semvers
Paired   == [k : {"pair"}, v : Unpaired, r : Nat]
Bare     == [k : {"revision"}, r : Nat]

(* What a manifest can ask for: a range, or a version without a revision,  *)
(* or a revision.                                                          *)
Ranges  == [k : {"range"}, sem : SUBSET Semvers]
Askable == Ranges \cup Unpaired \cup Bare \cup {any}

(* The same branch, tag or semantic version; which branch is the default   *)
(* one does not matter.                                                    *)
SameName(v, w) ==
  /\ v.k = w.k
  /\ CASE v.k = "branch" -> v.name = w.name [] v.k = "plain" -> v.name = w.name
       [] v.k = "semver" -> v.num = w.num /\ v.pre = w.pre

Unpair(v) == IF v.k = "pair" THEN v.v ELSE v

Admits(range, v) == Unpair(v).k = "semver" /\ Unpair(v) \in range.sem

-----------------------------------------------------------------------------
(* Matches() of a version or a range with a version, unions aside. *)
Matches1(c, v) ==
  CASE c.k = "revision" -> v.k \in {"revision", "pair"} /\ c.r = v.r
    [] IsUnpaired(c)    -> SameName(c, Unpair(v))
    [] c.k = "pair"     -> IF IsUnpaired(v) THEN SameName(c.v, v) ELSE c.r = v.r
    [] c.k = "range"    -> Admits(c, v)

Matches(c, v) ==
  CASE c.k = "any"  -> TRUE
    [] c.k = "none" -> FALSE
    [] c.k = "union" /\ v.k = "union" ->
         \E v1 \in ToSet(c.vs), v2 \in ToSet(v.vs) : Matches1(v1, v2)
    [] c.k = "union" /\ v.k # "union" -> \E v1 \in ToSet(c.vs) : Matches1(v1, v)
    [] c.k = "range" /\ v.k = "union" -> \E v1 \in ToSet(v.vs) : Matches1(c, v1)
    [] c.k \notin {"any", "none", "union", "range"} /\ v.k = "union" ->
         \E v1 \in ToSet(v.vs) : Matches1(v1, c)
    [] OTHER -> Matches1(c, v)

(* Intersect(), unions aside. *)
Intersect1(c1, c2) ==
  CASE c1.k = "any" -> c2
    [] c1.k = "none" \/ c2.k = "none" -> none
    [] c1.k # "none" /\ c2.k = "any" -> c1
    [] c1.k = "range" /\ c2.k = "range" ->
         IF c1.sem \cap c2.sem = {} THEN none ELSE Range_(c1.sem \cap c2.sem)
    [] c1.k = "range" /\ IsVersion(c2) -> IF Admits(c1, c2) THEN c2 ELSE none
    [] IsVersion(c1) /\ c2.k = "range" -> IF Admits(c2, c1) THEN c1 ELSE none
    [] c1.k = "pair" /\ c2.k \in {"pair", "revision"} ->
         IF c1.r = c2.r THEN Revision(c1.r) ELSE none
    [] OTHER -> IF Matches1(c1, c2) THEN c1 ELSE none

(* The first of the versions of a union whose intersection is not none. *)
FirstOf(results) ==
  LET hits == {i \in DOMAIN results : results[i] # none}
  IN IF hits = {} THEN none ELSE results[Min(hits)]

Intersect(c1, c2) ==
  CASE c1.k = "union" /\ c2.k = "union" ->
         FirstOf([i \in DOMAIN c1.vs |->
                    FirstOf([j \in DOMAIN c2.vs |-> Intersect1(c1.vs[i], c2.vs[j])])])
    [] c1.k = "union" /\ c2.k # "union" ->
         FirstOf([i \in DOMAIN c1.vs |-> Intersect1(c1.vs[i], c2)])
    [] c1.k = "range" /\ c2.k = "union" ->
         FirstOf([i \in DOMAIN c2.vs |-> Intersect1(c1, c2.vs[i])])
    [] IsVersion(c1) /\ c1.k # "union" /\ c2.k = "union" ->
         FirstOf([i \in DOMAIN c2.vs |-> Intersect1(c2.vs[i], c1)])
    [] OTHER -> Intersect1(c1, c2)

MatchesAny1(c1, c2) ==
  CASE c1.k = "any"  -> TRUE
    [] c1.k = "none" -> FALSE
    [] c1.k = "range" -> Intersect1(c1, c2) # none
    [] c1.k = "pair" -> c2.k # "none" /\ (c2.k = "any" \/ Matches1(c2, c1))
    [] c1.k = "revision" \/ IsUnpaired(c1) ->
         CASE c2.k = "any" -> TRUE [] c2.k = "none" -> FALSE
           [] c2.k = "range" -> Admits(c2, c1)
           [] IsVersion(c2) -> Matches1(c1, c2)

MatchesAny(c1, c2) ==
  CASE c1.k = "union" /\ c2.k = "union" ->
         \E v1 \in ToSet(c1.vs), v2 \in ToSet(c2.vs) : MatchesAny1(v1, v2)
    [] c1.k = "union" /\ c2.k # "union" -> \E v1 \in ToSet(c1.vs) : MatchesAny1(v1, c2)
    [] c1.k \in {"any", "none"} /\ c2.k = "union" -> c1.k = "any"
    [] c1.k = "range" /\ c2.k = "union" -> Intersect(c1, c2) # none
    [] IsVersion(c1) /\ c1.k # "union" /\ c2.k = "union" ->
         \E v2 \in ToSet(c2.vs) : MatchesAny1(v2, c1)
    [] OTHER -> MatchesAny1(c1, c2)

-----------------------------------------------------------------------------
(* compareVersionType() and vLess(): the order for upgrades and for        *)
(* downgrades.                                                             *)
TypeRank(v) ==
  CASE v.k = "semver" -> 1 [] v.k = "branch" -> 2 [] v.k = "plain" -> 3 [] v.k = "revision" -> 4

compareVersionType(l, r) ==
  IF TypeRank(l) < TypeRank(r) THEN -1 ELSE IF TypeRank(l) > TypeRank(r) THEN 1 ELSE 0

(* LessThan() of the semver library: a prerelease is before its release. *)
SemverLess(l, r) ==
  \/ l.num < r.num
  \/ l.num = r.num /\ l.pre # 0 /\ (r.pre = 0 \/ l.pre < r.pre)

vLessSame(l, r, down) ==
  CASE l.k = "branch" /\ l.isDefault # r.isDefault -> l.isDefault
    [] l.k = "branch" /\ l.isDefault = r.isDefault -> l.name < r.name
    [] l.k = "plain"    -> l.name < r.name
    [] l.k = "revision" -> l.r < r.r
    [] l.k = "semver" /\ (l.pre = 0) # (r.pre = 0) -> l.pre = 0
    [] l.k = "semver" /\ (l.pre = 0) = (r.pre = 0) ->
         IF down THEN SemverLess(l, r) ELSE SemverLess(r, l)

vLess(l, r, down) ==
  LET cmp == compareVersionType(Unpair(l), Unpair(r))
  IN cmp = -1 \/ (cmp = 0 /\ vLessSame(Unpair(l), Unpair(r), down))

SortForUpgrade(vs)   == SetToSortSeq(vs, LAMBDA l, r : vLess(l, r, FALSE))
SortForDowngrade(vs) == SetToSortSeq(vs, LAMBDA l, r : vLess(l, r, TRUE))

-----------------------------------------------------------------------------
(* The version unifier, for the sequence vl of pairs a source lists.  The  *)
(* versions of a union are kept at their places in vl: a function, whose   *)
(* place 0 is that of a bare revision.                                     *)
Places(vl, v) == {i \in DOMAIN vl : Matches1(vl[i], v)}

pairVersion(vl, v) == vl[Min(Places(vl, v))]

pairRevision(vl, r) ==
  [i \in {0} \cup Places(vl, Revision(r)) |-> IF i = 0 THEN Revision(r) ELSE vl[i]]

(* A union that forgets the other versions of a revision. *)
createTypeUnionAlone(vl, v) == IF IsVersion(v) THEN Union(<<v>>) ELSE v

(* vl is the list the source has; that listing fails, which leaves a union *)
(* empty, is left out.                                                     *)
createTypeUnion(vl, v) ==
  IF ~IsVersion(v) THEN v
  ELSE Union(CASE v.k \in {"revision", "pair"} -> pairRevision(vl, v.r)
               [] IsUnpaired(v) /\ Places(vl, v) = {} -> <<v>>
               [] IsUnpaired(v) /\ Places(vl, v) # {} ->
                    pairRevision(vl, pairVersion(vl, v).r))

matches(vl, c, v) ==
  Matches(c, v) \/ Matches(createTypeUnion(vl, c), createTypeUnion(vl, v))

matchesAny(vl, c1, c2) ==
  MatchesAny(c1, c2) \/ MatchesAny(createTypeUnion(vl, c1), createTypeUnion(vl, c2))

intersect(vl, c1, c2) ==
  IF Intersect(c1, c2) # none THEN Intersect(c1, c2)
  ELSE Intersect(createTypeUnion(vl, c1), createTypeUnion(vl, c2))

-----------------------------------------------------------------------------
(* What a constraint stands for at a source: the revisions it allows.  A   *)
(* version the source does not list stands for itself only.                *)
Revisions(vl, c) ==
  CASE c.k \in {"revision", "pair"} -> {c.r}
    [] IsUnpaired(c)                -> {p.r : p \in {q \in ToSet(vl) : SameName(q.v, c)}}
    [] c.k = "range"                -> {p.r : p \in {q \in ToSet(vl) : Admits(c, q)}}

(* No branch, tag or semantic version is listed twice. *)
OneName(vl) == \A i, j \in DOMAIN vl : SameName(vl[i].v, vl[j].v) => i = j

(* Whatever their types, a constraint and a version match when one names   *)
(* the other or the source lists a revision both stand for.  Two           *)
(* constraints have something in common exactly when their intersection is *)
(* not none, in either order.  A listed version that the intersection      *)
(* allows is allowed by both, and it allows all that both allow, unless    *)
(* they are ranges with different tags of one revision.                    *)
UnifierAgrees(vl, constraints, versions) ==
  LET Allows == [c \in constraints |-> {v \in versions : matches(vl, c, v)}]
  IN /\ \A c \in constraints \ {any, none}, v \in versions :
          v \in Allows[c] <=> \/ Matches1(c, v)
                              \/ Revisions(vl, c) \cap Revisions(vl, v) # {}
     /\ \A c1, c2 \in constraints :
          LET c    == intersect(vl, c1, c2)
              both == Allows[c1] \cap Allows[c2]
              meet == {v \in versions : matches(vl, c, v)}
          IN /\ matchesAny(vl, c1, c2) <=> c # none
             /\ c = none <=> intersect(vl, c2, c1) = none
             /\ meet \subseteq both
             /\ {c1.k, c2.k} # {"range"} => both \cap ToSet(vl) \subseteq meet

(* Both orders are strict and total, so the order the solver tries         *)
(* versions in does not depend on the order they were listed in.  They     *)
(* differ only in the order among releases and the order among             *)
(* prereleases, and releases are tried before all else.                    *)
OrdersTotal(versions) ==
  /\ \A down \in BOOLEAN :
       /\ \A x, y \in versions : vLess(x, y, down) <=> (x # y /\ ~vLess(y, x, down))
       /\ \A x, y, z \in versions : vLess(x, y, down) /\ vLess(y, z, down) => vLess(x, z, down)
  /\ \A x, y \in versions :
       LET Release(v) == v.k = "semver" /\ v.pre = 0
           reversed   == x.k = "semver" /\ y.k = "semver" /\ (Release(x) <=> Release(y))
       IN /\ vLess(x, y, FALSE) <=> vLess(IF reversed THEN y ELSE x, IF reversed THEN x ELSE y, TRUE)
          /\ Release(x) /\ ~Release(y) => vLess(x, y, FALSE)
=============================================================================
