------------------------------- MODULE Prune --------------------------------
(***************************************************************************)
(* PruneProject() of gps/prune.go, on a tree of directories, files and     *)
(* links: what is read once by deriveFilesystemState() of                  *)
(* gps/filesystem.go decides what each phase removes from the disk.        *)
(*                                                                         *)
(* A path is the sequence of its elements, the root is <<>>.  A file is    *)
(* [dir, go, test, legal]: whether its extension is one go build reads, it *)
(* is a _test.go file, and its name is that of a legal notice.  A link is  *)
(* its path.                                                               *)
(***************************************************************************)
EXTENDS Naturals, Sequences, FiniteSets, SequencesExt

(* What filepath.Walk() can find: the directories, files and links that    *)
(* are in directories it has found, the root aside.                        *)
IsTree(fs) ==
  /\ fs = [dirs |-> fs.dirs, files |-> fs.files, links |-> fs.links]
  /\ \A d \in fs.dirs : /\ d \in Seq(STRING) /\ d # <<>>
                        /\ \A n \in 1..Len(d) : SubSeq(d, 1, n) \in fs.dirs
  /\ \A f \in fs.files : f \in [dir : fs.dirs \cup {<<>>}, go : BOOLEAN, test : BOOLEAN, legal : BOOLEAN]
  /\ \A l \in fs.links : l \in Seq(STRING) /\ l # <<>> /\ Front(l) \in fs.dirs \cup {<<>>}

Options == {"NestedVendor", "UnusedPackages", "NonGoFiles", "GoTests"}

(* PruneOptionsFor(): an option of a project is 0 (unset), 1 or 2 (off). *)
PruneOptionsFor(defaults, perProject) ==
  {o \in Options : perProject[o] = 1 \/ (perProject[o] = 0 /\ o \in defaults)}

(* os.RemoveAll() of some directories, and os.Remove(); what is not there  *)
(* is passed over.                                                         *)
RemoveAll(disk, dirs) ==
  LET Under(path) == \E dir \in dirs : IsPrefix(dir, path)
  IN [dirs  |-> {d \in disk.dirs : ~Under(d)},
      files |-> {f \in disk.files : ~Under(f.dir)},
      links |-> {l \in disk.links : ~Under(l)}]

RemoveFiles(disk, files) == [disk EXCEPT !.files = @ \ files]

InVendor(path) == path # <<>> /\ Last(path) = "vendor"

pruneVendorDirs(fs, disk) ==
  LET left == RemoveAll(disk, {d \in fs.dirs : InVendor(d)})
  IN [left EXCEPT !.links = {l \in @ : ~InVendor(l)}]

calculateUnusedPackages(fs, imported) == (fs.dirs \cup {<<>>}) \ imported

collectUnusedPackagesFiles(fs, unused) == {f \in fs.files : ~f.legal /\ f.dir \in unused}

pruneUnusedPackages(fs, disk, imported) ==
  RemoveFiles(disk, collectUnusedPackagesFiles(fs, calculateUnusedPackages(fs, imported)))

pruneNonGoFiles(fs, disk) == RemoveFiles(disk, {f \in fs.files : ~f.go /\ ~f.legal})

pruneGoTestFiles(fs, disk) == RemoveFiles(disk, {f \in fs.files : f.test})

IsNonEmptyDir(disk, dir) ==
  \/ \E d \in disk.dirs \cup disk.links : Len(d) = Len(dir) + 1 /\ IsPrefix(dir, d)
  \/ \E f \in disk.files : f.dir = dir

(* Directories in the order they were walked, parents first: a directory   *)
(* still has all that was in it when it is looked at.                      *)
deleteEmptyDirsForward(fs, disk) ==
  [disk EXCEPT !.dirs = {d \in @ : IsNonEmptyDir(disk, d)}]

(* In reverse order of their names, a directory is looked at after those   *)
(* in it, and goes unless one of them was kept, or a file or a link is in  *)
(* it.  What another phase has removed is passed over.                     *)
deleteEmptyDirs(fs, disk) ==
  LET Keep(kept) == [disk EXCEPT !.dirs = kept]
  IN Keep(CHOOSE kept \in SUBSET disk.dirs :
            \A d \in disk.dirs : d \in kept <=> IsNonEmptyDir(Keep(kept), d))

PruneProject(fs, imported, options) ==
  LET d1 == IF "NestedVendor" \in options THEN pruneVendorDirs(fs, fs) ELSE fs
      d2 == IF "UnusedPackages" \in options THEN pruneUnusedPackages(fs, d1, imported) ELSE d1
      d3 == IF "NonGoFiles" \in options THEN pruneNonGoFiles(fs, d2) ELSE d2
      d4 == IF "GoTests" \in options THEN pruneGoTestFiles(fs, d3) ELSE d3
  IN deleteEmptyDirs(fs, d4)

-----------------------------------------------------------------------------
Nested(path) == "vendor" \in ToSet(path)

(* What is removed whatever else is said of the file: all of a nested      *)
(* vendor directory, and a test, when the options say so.                  *)
Condemned(f, options) == \/ "NestedVendor" \in options /\ Nested(f.dir)
                         \/ "GoTests" \in options /\ f.test

(* The Go files of the imported packages are still there, and so are legal *)
(* notices wherever they are, but for nested vendor directories and tests  *)
(* where the options name those: pruneVendorDirs() and pruneGoTestFiles()  *)
(* spare nothing.  What the options name is gone, no file has lost its     *)
(* directory, and no directory is left empty.                              *)
PruneLeavesNeeded(fs, imported, options) ==
  LET left == PruneProject(fs, imported, options)
  IN /\ \A f \in fs.files : f.dir \in imported /\ f.go /\ ~Condemned(f, options) => f \in left.files
     /\ \A f \in fs.files : f.legal /\ ~Condemned(f, options) => f \in left.files
     /\ \A f \in left.files :
          /\ f \in fs.files
          /\ "NestedVendor" \in options => ~Nested(f.dir)
          /\ "UnusedPackages" \in options => f.dir \in imported \/ f.legal
          /\ "NonGoFiles" \in options => f.go \/ f.legal
          /\ "GoTests" \in options => ~f.test
     /\ \A f \in left.files : f.dir = <<>> \/ f.dir \in left.dirs
     /\ \A d \in left.dirs : IsNonEmptyDir(left, d)

(* "dep non-optionally preserves files that may have legal significance"   *)
(* (docs/Gopkg.toml.md).  It does not hold: see Condemned.                 *)
LegalFilesKept(fs, imported, options) ==
  \A f \in fs.files : f.legal => f \in PruneProject(fs, imported, options).files
=============================================================================
