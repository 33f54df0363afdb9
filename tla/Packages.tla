------------------------------ MODULE Packages ------------------------------
(***************************************************************************)
(* What gps/pkgtree reads from a directory: ListPackages() and             *)
(* fillPackage(), the rules for ignored import paths and the names that    *)
(* hide a package.                                                         *)
(*                                                                         *)
(* An import path is the sequence of its elements.  A file is what its     *)
(* import clauses and comments say: [skip, read, test, pkg, ignored,       *)
(* comment, imports], where skip is a leading "_" or "." or a directory,   *)
(* and read is "ok", "denied" or "bad".                                    *)
(***************************************************************************)
EXTENDS Sorting, Sequences, FiniteSets, SequencesExt

vcsRoots == {".git", ".bzr", ".svn", ".hg"}

eqOrSlashedPrefix(path, prefix) == IsPrefix(prefix, path)

IsLocalImport(imp) == imp[1] \in {".", ".."}

(* strings.HasPrefix() on two import paths: the last element of the root   *)
(* need not be the whole of the element it is matched with.                *)
CONSTANT LongerNames   \* pairs <<e, f>> of elements where f goes on after e

HasPrefix(path, root) ==
  \/ IsPrefix(root, path)
  \/ /\ root # <<>> /\ Len(path) >= Len(root)
     /\ IsPrefix(Front(root), path)
     /\ <<Last(root), path[Len(root)]>> \in LongerNames

NotAPackage(err) == [err |-> err, name |-> "", imports |-> {}, testImports |-> {}]

(* Files the process may not read are passed over; one that does not parse *)
(* condemns the package.  A file with the build tag "ignore" does not name *)
(* the package, but its imports count.                                     *)
fillPackage(files) ==
  LET used     == SelectSeq(files, LAMBDA f : ~f.skip /\ f.read # "denied")
      naming   == SelectSeq(used, LAMBDA f : ~f.ignored)
      Of(test) == UNION {f.imports : f \in {g \in ToSet(used) : g.test = test}}
      comments == {f.comment : f \in ToSet(used)} \ {<<>>}
  IN CASE files = <<>>                              -> NotAPackage("NoGo")
       [] \E f \in ToSet(used) : f.read = "bad"     -> NotAPackage("Malformed")
       [] OTHER ->
          [err         |-> IF Cardinality(comments) > 1 THEN "ConflictingImportComments" ELSE "",
           name        |-> IF naming = <<>> THEN "" ELSE naming[1].pkg,
           comment     |-> comments,
           imports     |-> Of(FALSE),
           testImports |-> Of(TRUE)]

PackageOrErr(files, importRoot) ==
  LET p     == fillPackage(files)
      local == {i \in p.imports \cup p.testImports : IsLocalImport(i) /\ i # <<".">>}
  IN CASE p.err # "" -> NotAPackage(p.err)
       [] p.err = "" /\ \E c \in p.comment : ~HasPrefix(c, importRoot)
            -> NotAPackage("NonCanonicalImportRoot")
       [] p.err = "" /\ (\A c \in p.comment : HasPrefix(c, importRoot)) /\ local # {}
            -> NotAPackage("LocalImports")
       [] OTHER -> [err |-> "", name |-> p.name, imports |-> p.imports, testImports |-> p.testImports]

(* The walk: dirs gives [denied, files] for each directory under the root, *)
(* by its relative path.  Nothing below a vendor directory, a VCS          *)
(* directory or one that may not be read is visited.                       *)
ListPackages(dirs, importRoot) ==
  LET Skipped(d) == \/ ToSet(d) \cap (vcsRoots \cup {"vendor", "Godeps"}) # {}
                    \/ \E e \in DOMAIN dirs : dirs[e].denied /\ IsPrefix(e, d)
      walked     == {d \in DOMAIN dirs : ~Skipped(d)}
  IN [ip \in {importRoot \o d : d \in walked} |->
        PackageOrErr(dirs[SubSeq(ip, Len(importRoot) + 1, Len(ip))].files, importRoot)]

-----------------------------------------------------------------------------
(* IgnoredRuleset: a trie from a path to whether it stands for all paths   *)
(* it is a prefix of.  A rule is [path, wild].                             *)
LongestPrefix(trie, path) ==
  LET has == {k \in DOMAIN trie : IsPrefix(k, path)}
  IN IF has = {} THEN {} ELSE {CHOOSE k \in has : \A j \in has : Len(j) <= Len(k)}

UnderWildcard(trie, path) == \E k \in LongestPrefix(trie, path) : trie[k]

InsertRule(trie, rule) ==
  IF rule.path = <<>> \/ UnderWildcard(trie, rule.path) THEN trie
  ELSE [k \in DOMAIN trie \cup {rule.path} |-> IF k = rule.path THEN rule.wild ELSE trie[k]]

(* sort.Strings() puts a path before all it is a prefix of, and a literal  *)
(* path before the wildcard of that path.                                  *)
SortKey(rule) == 2 * Len(rule.path) + (IF rule.wild THEN 1 ELSE 0)

NewIgnoredRuleset(rules) ==
  LET n  == Cardinality(rules)
      ig == CHOOSE f \in Bijection(1..n, rules) : TRUE
      sorted == SortedBy(ig, [i \in 1..n |-> SortKey(ig[i])])
      trie[k \in 0..n] == IF k = 0 THEN <<>> ELSE InsertRule(trie[k - 1], sorted[k])
  IN trie[n]

IsIgnored(trie, path) == \E k \in LongestPrefix(trie, path) : trie[k] \/ k = path

-----------------------------------------------------------------------------
(* pkgFilter(): whether a package can be a source of imports by itself. *)
CONSTANT HiddenNames   \* elements with a leading dot or underscore, and "testdata"

pkgFilter(path) == ToSet(path) \cap HiddenNames = {}
=============================================================================
