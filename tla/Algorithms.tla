----------------------------- MODULE Algorithms -----------------------------
(***************************************************************************)
(* The algorithms of gps that keep no state between calls, each against    *)
(* what it is to compute: the reach map of a package tree, versions and    *)
(* constraints, the difference between two locks, pruning.  The reach map  *)
(* is explored step by step, because its result must not depend on the     *)
(* order in which Go ranges over maps; for the others a sample is an input *)
(* of one of them.                                                         *)
(***************************************************************************)
EXTENDS ReachMap, LockDiff, Prune

CONSTANTS
  VersionLists,   \* what a source lists: sequences of pairs
  Constraints,    \* constraints of manifests
  OtherVersions,  \* versions a source does not list
  Orders,         \* sets of versions to sort
  Locks,
  Trees, PackageSets

ASSUME VersionsAssumption ==
  /\ \A vl \in VersionLists : vl \in Seq(Paired) /\ OneName(vl)
  /\ \A c \in Constraints : c \in Askable
  /\ \A v \in OtherVersions : v \in Unpaired \cup Bare \cup Paired
  /\ \A vs \in Orders : \A v \in vs : v \in Unpaired \cup Bare

ASSUME LocksAssumption == \A l \in Locks : IsLock(l)

ASSUME TreesAssumption == \A fs \in Trees : IsTree(fs)

VARIABLE sample

NoInput == [dirs |-> <<>>, rules |-> {}, main |-> FALSE, tests |-> FALSE, backprop |-> TRUE]

(* What a project can be pruned by: what holds for all, and what it says   *)
(* itself.                                                                 *)
PruneOptions ==
  {PruneOptionsFor(defaults, own) :
     defaults \in {{}, {"NestedVendor"}}, own \in [Options -> 0..2]}

Samples ==
  [task : {"list"}, data : VersionLists]
    \cup [task : {"order"}, data : Orders]
    \cup [task : {"lock"}, data : Locks]
    \cup [task : {"tree"}, data : Trees]

AInit ==
  \/ ReachInit /\ sample = [task |-> "reach"]
  \/ ToReachMap(NoInput) /\ sample \in Samples

ANext == ReachNext /\ UNCHANGED sample

ASpec == AInit /\ [][ANext]_<<reachVars, sample>>

-----------------------------------------------------------------------------
(* Versions of all types match, meet and sort as the unifier and the       *)
(* sorters promise (UnifierAgrees and OrdersTotal).                        *)
VersionsRight ==
  /\ sample.task = "list" =>
       UnifierAgrees(sample.data, Constraints, ToSet(sample.data) \cup OtherVersions)
  /\ sample.task = "order" => OrdersTotal(sample.data)

(* DiffLocks() explains the step from any lock to any other. *)
DiffRight == sample.task = "lock" => \A l \in Locks : DiffExplains(sample.data, l)

(* Pruning leaves what is needed and nothing else, whichever packages are  *)
(* imported and whichever options a project has; legal notices in nested   *)
(* vendor directories and in tests go with those (PruneLeavesNeeded).      *)
PruneRight ==
  sample.task = "tree" =>
    \A imported \in PackageSets, options \in PruneOptions :
      PruneLeavesNeeded(sample.data, imported, options)

(* Pruning keeps every legal notice, as docs/Gopkg.toml.md says.  TLC      *)
(* refutes it: a notice in a nested vendor directory goes with it, and so  *)
(* does one whose name ends in _test.go with the tests.                    *)
LegalKept ==
  sample.task = "tree" =>
    \A imported \in PackageSets, options \in PruneOptions :
      LegalFilesKept(sample.data, imported, options)
=============================================================================
