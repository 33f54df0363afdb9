------------------------------ MODULE ReachMap ------------------------------
(***************************************************************************)
(* PackageTree.ToReachMap() of gps/pkgtree/pkgtree.go: what the packages   *)
(* of a tree import, directly or through each other.  wmToReach() walks    *)
(* the imports depth first, adds what it finds to every package on the way *)
(* and, if errors are to be propagated back, drops the packages on the way *)
(* to a broken one.  Its loops range over Go maps, so the next package and *)
(* the next import are any of those left.                                  *)
(***************************************************************************)
EXTENDS Packages

CONSTANTS ImportRoot, Inputs
  \* an input: the directories, the rules, and the flags main, tests and backprop

ASSUME InputsAssumption ==
  /\ ImportRoot \in Seq(STRING)
  /\ \A input \in Inputs :
       /\ DOMAIN input.dirs \subseteq Seq(STRING)
       /\ IsFiniteSet(input.rules) /\ \A r \in input.rules : r.path \in Seq(STRING) /\ r.wild \in BOOLEAN

VARIABLES
  in,        \* the input
  workmap,   \* the adjacency list: [err, ex, in] for each package
  colors,    \* the packages in process (grey) and done (black)
  exrsets,   \* the external packages reached from each package
  inrsets,   \* the internal packages reached from each package
  errmap,    \* the ProblemImportError of each package that has one: [cause, err]
  stack      \* the calls of dfe(): the package and its imports still to visit

reachVars == <<in, workmap, colors, exrsets, inrsets, errmap, stack>>

-----------------------------------------------------------------------------
(* The adjacency list ToReachMap() builds. *)
Workmap(tree, ignore, main, tests) ==
  LET errs == {ip \in DOMAIN tree : tree[ip].err # ""}
      kept == {ip \in DOMAIN tree \ errs :
                 (tree[ip].name # "main" \/ main) /\ ~IsIgnored(ignore, ip)}
      Imps(ip) == {i \in tree[ip].imports \cup (IF tests THEN tree[ip].testImports ELSE {}) :
                     ~IsIgnored(ignore, i) /\ i # <<".">>}
  IN [ip \in errs \cup kept |->
        LET imps == IF ip \in kept THEN Imps(ip) ELSE {}
            in_  == {i \in imps : eqOrSlashedPrefix(i, ImportRoot)}
        IN [err |-> tree[ip].err, ex |-> imps \ in_, in |-> in_]]

Tree(input) == ListPackages(input.dirs, ImportRoot)

ToReachMap(input) ==
  /\ in = input
  /\ workmap = Workmap(Tree(input), NewIgnoredRuleset(input.rules), input.main, input.tests)
  /\ colors = <<>> /\ exrsets = <<>> /\ inrsets = <<>> /\ errmap = <<>> /\ stack = <<>>

ReachInit == \E input \in Inputs : ToReachMap(input)

-----------------------------------------------------------------------------
Path(calls) == [k \in DOMAIN calls |-> calls[k].pkg]

Color(p) == IF p \in DOMAIN colors THEN colors[p] ELSE "white"

With(f, S, value) == [x \in DOMAIN f \cup S |-> IF x \in S THEN value ELSE f[x]]

Without(f, S) == [x \in DOMAIN f \ S |-> f[x]]

Broken(p) == p \notin DOMAIN workmap \/ workmap[p].err # ""

(* Sets of the packages in S that still have one grow by what was found. *)
Push(sets, S, found) ==
  [x \in DOMAIN sets |-> IF x \in S THEN sets[x] \cup found ELSE sets[x]]

(* poison(): each package on the path loses its sets and gets the error,   *)
(* with the rest of the path as its cause.  A last one that does not exist *)
(* gets none.  The false that dfe() returns ends all calls on the path.    *)
Poison(path, cause, err, done) ==
  LET poisoned == {k \in DOMAIN path : k < Len(path) \/ path[k] \in DOMAIN workmap}
      IndexOf(p) == CHOOSE k \in poisoned : path[k] = p
  IN /\ exrsets' = Without(exrsets, ToSet(path))
     /\ inrsets' = Without(inrsets, ToSet(path))
     /\ errmap' = [p \in DOMAIN errmap \cup {path[k] : k \in poisoned} |->
                     IF p \in {path[k] : k \in poisoned}
                     THEN [cause |-> SubSeq(cause, IndexOf(p) + 1, Len(cause)), err |-> err]
                     ELSE errmap[p]]
     /\ colors' = With(colors, done, "black")
     /\ stack' = <<>>

ErrorOf(p) == IF p \in DOMAIN workmap THEN workmap[p].err ELSE "missing"

(* dfe() of a package that is white. *)
VisitBroken(p, calls) ==
  LET path == Append(Path(calls), p)
  IN IF in.backprop THEN Poison(path, path, ErrorOf(p), ToSet(path))
     ELSE /\ errmap' = IF p \in DOMAIN workmap
                       THEN With(errmap, {p}, [cause |-> <<>>, err |-> workmap[p].err])
                       ELSE errmap
          /\ colors' = With(colors, {p}, "black")
          /\ stack' = calls
          /\ UNCHANGED <<exrsets, inrsets>>

VisitSound(p, calls) ==
  /\ colors' = With(colors, {p}, "grey")
  /\ exrsets' = Push(With(exrsets, {p}, workmap[p].ex), ToSet(Path(calls)), workmap[p].ex)
  /\ inrsets' = Push(With(inrsets, {p}, workmap[p].in), ToSet(Path(calls)), workmap[p].in)
  /\ stack' = Append(calls, [pkg |-> p, todo |-> workmap[p].in])
  /\ UNCHANGED errmap

Visit(p, calls) == IF Broken(p) THEN VisitBroken(p, calls) ELSE VisitSound(p, calls)

(* A revisit that forgets what the package already reaches. *)
RevisitForgets(p, calls) == stack' = calls /\ UNCHANGED <<colors, exrsets, inrsets, errmap>>

(* dfe() of a package that is black: its parents get its sets or, if it    *)
(* has none, its error.                                                    *)
Revisit(p, calls) ==
  IF p \in DOMAIN exrsets
  THEN /\ exrsets' = Push(exrsets, ToSet(Path(calls)), exrsets[p])
       /\ inrsets' = Push(inrsets, ToSet(Path(calls)), inrsets[p])
       /\ stack' = calls
       /\ UNCHANGED <<colors, errmap>>
  ELSE IF in.backprop
  THEN LET from == IF p \in DOMAIN errmap THEN errmap[p] ELSE [cause |-> <<>>, err |-> "unknown"]
       IN Poison(Path(calls), Append(Path(calls), p) \o from.cause, from.err, ToSet(Path(calls)))
  ELSE stack' = calls /\ UNCHANGED <<colors, exrsets, inrsets, errmap>>

-----------------------------------------------------------------------------
(* The outer loop over the workmap. *)
Start(p) ==
  /\ stack = <<>>
  /\ Color(p) # "black"
  /\ Visit(p, <<>>)

(* The loop over the internal imports of a package.  Importing oneself and *)
(* a cycle are let through.                                                *)
Import(p) ==
  LET top   == Last(stack)
      calls == Append(Front(stack), [top EXCEPT !.todo = @ \ {p}])
  IN /\ p \in top.todo
     /\ CASE Color(p) = "white" -> Visit(p, calls)
          [] Color(p) = "black" -> Revisit(p, calls)
          [] Color(p) = "grey"  -> stack' = calls /\ UNCHANGED <<colors, exrsets, inrsets, errmap>>

Return ==
  /\ stack # <<>> /\ Last(stack).todo = {}
  /\ colors' = With(colors, {Last(stack).pkg}, "black")
  /\ stack' = Front(stack)
  /\ UNCHANGED <<exrsets, inrsets, errmap>>

ReachNext ==
  /\ \/ \E p \in DOMAIN workmap : Start(p)
     \/ stack # <<>> /\ \E p \in Last(stack).todo : Import(p)
     \/ Return
  /\ UNCHANGED <<in, workmap>>

ReachSpec == ReachInit /\ [][ReachNext]_reachVars

Done == stack = <<>> /\ \A p \in DOMAIN workmap : Color(p) = "black"

-----------------------------------------------------------------------------
(* FlattenFn(), and TrimHiddenPackages() for the reach map found. *)
Flatten == UNION {exrsets[p] : p \in {q \in DOMAIN exrsets : pkgFilter(q)}}

TrimHiddenPackages ==
  LET tree  == Tree(in)
      Shown(p) == pkgFilter(p) /\ ~IsIgnored(NewIgnoredRuleset(in.rules), p)
      shown == {p \in DOMAIN exrsets : Shown(p)}
      preserve == shown \cup (UNION {inrsets[p] : p \in shown}) \cup {p \in DOMAIN errmap : Shown(p)}
  IN [p \in DOMAIN tree \cap preserve |-> tree[p]]

-----------------------------------------------------------------------------
(* The reference: reachability in the graph of a workmap, which goes       *)
(* through packages that exist and have no error: what is in every set     *)
(* with the package that is closed under imports.                          *)
Sound(w) == {p \in DOMAIN w : w[p].err = ""}

Known(w) == DOMAIN w \cup UNION {w[p].in : p \in DOMAIN w}

Closed(w, S) == \A p \in S \cap Sound(w) : w[p].in \subseteq S

Reached(w, p) ==
  LET closed == {S \in SUBSET Known(w) : p \in S /\ Closed(w, S)}
  IN {q \in Known(w) : \A S \in closed : q \in S}

External(w, p) == UNION {w[q].ex : q \in Reached(w, p) \cap Sound(w)}
Internal(w, p) == UNION {w[q].in : q \in Reached(w, p) \cap Sound(w)}

(* A rule for everything, "*", is passed over. *)
Matched(rules, path) ==
  \E r \in rules : r.path # <<>> /\ (r.path = path \/ (r.wild /\ IsPrefix(r.path, path)))

(* What ReachRight takes for granted of the inputs: but for a package that *)
(* imports itself nothing leads back to its importer, which go build asks  *)
(* of packages; every set of packages has one that imports no other of it. *)
Acyclic(w) ==
  \A S \in SUBSET Known(w) :
    S # {} => \E p \in S : p \in Sound(w) => w[p].in \cap S \subseteq {p}

AcyclicImports ==
  \A input \in Inputs :
    Acyclic(Workmap(Tree(input), NewIgnoredRuleset(input.rules), input.main, input.tests))

(* A package has an entry unless it is broken or, with backprop, reaches   *)
(* one that is.  The entry is what it reaches, and a package without one   *)
(* has an error whose cause is a chain of imports to a broken package:     *)
(* all of this in whatever order the maps of wmToReach() were ranged over. *)
ReachIsClosure ==
  Done =>
    /\ DOMAIN exrsets =
         {p \in Sound(workmap) : in.backprop => Reached(workmap, p) \subseteq Sound(workmap)}
    /\ DOMAIN inrsets = DOMAIN exrsets
    /\ DOMAIN errmap = DOMAIN workmap \ DOMAIN exrsets
    /\ \A p \in DOMAIN exrsets : /\ exrsets[p] = External(workmap, p)
                                 /\ inrsets[p] = Internal(workmap, p)
    /\ \A p \in DOMAIN errmap :
         LET chain == <<p>> \o errmap[p].cause
         IN /\ \A k \in 1..Len(chain) - 1 : chain[k + 1] \in workmap[chain[k]].in
            /\ Last(chain) \notin Sound(workmap)

(* A tree without its hidden packages reaches what the whole tree reaches  *)
(* from the packages that are not hidden, holds no package a rule ignores, *)
(* and a hidden package only if one that is not hidden reaches it.         *)
TrimKeepsReach ==
  Done /\ ~in.backprop =>
    LET trimmed == TrimHiddenPackages
        w == Workmap(trimmed, NewIgnoredRuleset(in.rules), in.main, in.tests)
    IN /\ Flatten = UNION {External(w, p) : p \in {q \in Sound(w) : pkgFilter(q)}}
       /\ \A p \in DOMAIN trimmed :
            /\ ~Matched(in.rules, p)
            /\ ~pkgFilter(p) => \E q \in Sound(workmap) : pkgFilter(q) /\ p \in Reached(workmap, q)

(* Both, whatever the order of the maps, for packages that do not import   *)
(* each other in a circle, other than themselves (AcyclicImports).  TLC    *)
(* refutes it for circles: a grey package is passed over, so what is found *)
(* depends on where a circle was entered.                                  *)
ReachRight == ReachIsClosure /\ TrimKeepsReach

(* A package that is poisoned has the error that poisoned it: the comment  *)
(* in poisonBlack() says an unknown error "should not be possible".  It is *)
(* what the second importer of a package that does not exist gets.         *)
ErrorKnown == \A p \in DOMAIN errmap : errmap[p].err # "unknown"
=============================================================================
