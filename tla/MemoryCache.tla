---------------------------- MODULE MemoryCache -----------------------------
(***************************************************************************)
(* singleSourceCacheMemory of gps/source_cache.go: what one gateway knows  *)
(* of its source.  Every method takes the cache's lock for all it does, so *)
(* a method is an operator from a cache to a cache or to an answer.        *)
(*                                                                         *)
(* A version list is a function from the unpaired versions listed to their *)
(* revisions; its order is left out, so toUnpaired() of a revision with    *)
(* several versions may be any of them.  A map is a function on its keys.  *)
(* The values stored (trees, manifests with locks) are opaque.             *)
(***************************************************************************)
EXTENDS Functions

CONSTANT Miss   \* the answer whose second result is false

NoVersions == [u \in {} |-> Miss]

(* f with x mapped to y *)
Set(f, x, y) == [z \in DOMAIN f \union {x} |-> IF z = x THEN y ELSE f[z]]

Get(f, x) == IF x \in DOMAIN f THEN f[x] ELSE Miss

NewMemoryCache ==
  [listed |-> FALSE, vMap |-> NoVersions, rMap |-> NoVersions,
   ptrees |-> NoVersions, infos |-> NoVersions]

(* There is an entry of r in the rMap of the result; a new one is empty. *)
MarkRevisionExists(c, r) ==
  IF r \in DOMAIN c.rMap THEN c ELSE [c EXCEPT !.rMap = Set(@, r, {})]

SetPackageTree(c, r, tree) ==
  MarkRevisionExists([c EXCEPT !.ptrees = Set(@, r, tree)], r)

(* One entry for each revision and analyzer. *)
SetManifestAndLock(c, r, an, ml) ==
  MarkRevisionExists([c EXCEPT !.infos = Set(@, <<r, an>>, ml)], r)

GetPackageTree(c, r) == Get(c.ptrees, r)
GetManifestAndLock(c, r, an) == Get(c.infos, <<r, an>>)

(* The versions list replaces the one before; the revisions known stay, with
   the versions they have now. *)
SetVersionMap(c, list) ==
  [c EXCEPT !.listed = TRUE,
            !.vMap = list,
            !.rMap = [r \in DOMAIN @ \union Range(list) |-> {u \in DOMAIN list : list[u] = r}]]

GetVersionsFor(c, r) == Get(c.rMap, r)
GetAllVersions(c) == IF c.listed THEN c.vMap ELSE Miss
GetRevisionFor(c, u) == Get(c.vMap, u)

(* A version is [u, r]: a paired version has both, an unpaired one no
   revision, and a bare revision no u. *)
ToRevision(c, v) == IF v.r # Miss THEN v.r ELSE GetRevisionFor(c, v.u)
ToUnpaired(c, v) ==
  CASE v.u # Miss -> {v.u}
    [] OTHER -> IF GetVersionsFor(c, v.r) \in {Miss, {}} THEN {Miss} ELSE GetVersionsFor(c, v.r)

=============================================================================
