----------------------------- MODULE WriteTree ------------------------------
(***************************************************************************)
(* WriteDepTree() of gps/solution.go: one goroutine for each project of    *)
(* the lock exports it into the tree and prunes it.  A semaphore bounds    *)
(* how many are at work; the first failure cancels the context the others  *)
(* share.                                                                  *)
(***************************************************************************)
EXTENDS Naturals, FiniteSets

CONSTANT concurrentWriters   \* 16 in the code

VARIABLES
  writer,     \* where the goroutine of each project is
  canceled,   \* the errgroup's context is done
  tree        \* what is in the directory: the version of a project, and if it is
              \* whole, exported and pruned

treeVars == <<writer, canceled, tree>>

NoTree == writer = <<>> /\ canceled = FALSE /\ tree = <<>>

(* The tree of a lock, all projects exported and pruned. *)
Whole(vers) == [p \in DOMAIN vers |-> [version |-> vers[p], whole |-> TRUE]]

(* What CopyDir() that stops half way leaves of a tree: some projects, of  *)
(* which some are not whole; the same is left by os.RemoveAll().           *)
PartsOf(t) ==
  UNION {{[p \in S |-> [version |-> t[p].version, whole |-> t[p].whole /\ p \notin half]] :
            half \in SUBSET S} : S \in SUBSET DOMAIN t}

Holding == {p \in DOMAIN writer : writer[p] \in {"exporting", "pruning"}}

Go(projects) ==
  /\ writer' = [p \in projects |-> "queued"]
  /\ canceled' = FALSE
  /\ tree' = <<>>

(* The select of a goroutine: a place at the semaphore, or the context. *)
Acquire(p) ==
  /\ writer[p] = "queued"
  /\ \/ /\ Cardinality(Holding) < concurrentWriters
        /\ writer' = [writer EXCEPT ![p] = "exporting"]
     \/ /\ canceled
        /\ writer' = [writer EXCEPT ![p] = "failed"]
  /\ UNCHANGED <<canceled, tree>>

Put(p, entry) == tree' = [x \in DOMAIN tree \cup {p} |-> IF x = p THEN entry ELSE tree[x]]

Fail(p) ==
  /\ writer' = [writer EXCEPT ![p] = "failed"]
  /\ canceled' = TRUE

Export(p, version) ==
  /\ writer[p] = "exporting"
  /\ \/ /\ Put(p, [version |-> version, whole |-> FALSE])
        /\ writer' = [writer EXCEPT ![p] = "pruning"]
        /\ UNCHANGED canceled
     \/ Fail(p) /\ UNCHANGED tree

(* A slot that is not given back after a project was written. *)
PruneKeepsSlot(p) ==
  /\ writer[p] = "pruning"
  /\ Put(p, [tree[p] EXCEPT !.whole = TRUE])
  /\ UNCHANGED <<writer, canceled>>

(* PruneProject(); what comes back is the error of the shared context, so  *)
(* a project that is written in full fails too once another one has.       *)
PruneProject(p) ==
  /\ writer[p] = "pruning"
  /\ \/ /\ Put(p, [tree[p] EXCEPT !.whole = TRUE])
        /\ IF canceled THEN Fail(p)
           ELSE writer' = [writer EXCEPT ![p] = "written"] /\ UNCHANGED canceled
     \/ Fail(p) /\ UNCHANGED tree

(* g.Wait() without waiting for all goroutines. *)
WaitForOne == \E p \in DOMAIN writer : writer[p] \in {"written", "failed"}

Wait == \A p \in DOMAIN writer : writer[p] \in {"written", "failed"}

=============================================================================
