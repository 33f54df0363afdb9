----------------------------- MODULE SafeWriter -----------------------------
(***************************************************************************)
(* SafeWriter of txn_writer.go: one call of Write(), step by step on disk, *)
(* with the renames of internal/fs.                                        *)
(*                                                                         *)
(* What a path holds is what matters of it: nothing, what was there before *)
(* the call, what the call writes, or part of something; and, for a vendor *)
(* directory, whether .git is in it.  The file system is the environment:  *)
(* up to MaxFaults operations fail, the temporary directory may be on      *)
(* another device than the project, and the process may be killed.         *)
(***************************************************************************)
EXTENDS Naturals, Sequences

CONSTANTS MaxFaults,    \* how many disk operations fail
          Devices       \* whether the temp dir is on another device

ASSUME SafeWriterAssumption == MaxFaults \in Nat /\ Devices \subseteq BOOLEAN

Artifacts == <<"manifest", "lock", "vendor">>

Staged  == [manifest |-> "td/manifest", lock |-> "td/lock", vendor |-> "td/vendor"]
InTemp  == {"td/manifest", "td/lock", "td/vendor",
            "td/manifest.orig", "td/lock.orig", "td/.vendor.orig"}
InPlace == {"manifest", "lock", "vendor", "vendor.orig"}
Vendors == {"vendor", "vendor.orig", "td/vendor", "td/.vendor.orig"}

Contents == [is: {"none", "old", "new", "part", "kept"}, git: BOOLEAN]
Nothing  == [is |-> "none", git |-> FALSE]
Plain(c) == [is |-> c, git |-> FALSE]

Locks    == {"none", "L1", "L2"}
Requests == [manifest: BOOLEAN, old: {"none", "L1"}, new: Locks,
             vendor: {"onchanged", "always", "never"}]

VARIABLES
  req,      \* the arguments of NewSafeWriter()
  xdev,     \* the temp dir is on another device
  start,    \* the disk before the call
  disk,     \* the disk now
  pc,       \* where Write() is
  at,       \* the artifact it is at, an index of Artifacts
  restore,  \* the pathpairs to move back on failure
  bak,      \* vendorbak
  faults    \* the disk operations that failed so far

vars == <<req, xdev, start, disk, pc, at, restore, bak, faults>>

-----------------------------------------------------------------------------
(* NewSafeWriter() *)

LockDiff    == req.old # "none" /\ req.old # req.new
WriteLock   == LockDiff \/ (req.old = "none" /\ req.new # "none")
WriteVendor == \/ req.vendor = "always"
               \/ req.vendor = "onchanged" /\ WriteLock
BadRequest  == \/ req.old # "none" /\ req.new = "none"
               \/ WriteVendor /\ req.new = "none"

Writes(x) == CASE x = "manifest" -> req.manifest
               [] x = "lock" -> WriteLock
               [] x = "vendor" -> WriteVendor

-----------------------------------------------------------------------------
(* RenameWithFallback(): a rename or, across devices, a copy and a delete. *)
(* Neither replaces a directory that is there.                             *)

Across(src, dst) == xdev /\ (src \in InTemp) # (dst \in InTemp)

Blocked(dst) == dst \in Vendors /\ disk[dst].is # "none"

Moved(src, dst) == [disk EXCEPT ![dst] = disk[src], ![src] = Nothing]

(* The disks a rename that fails may leave: untouched; across devices,     *)
(* a part of the copy too, or all of it with the original not deleted.     *)
Botched(src, dst) ==
  {disk} \cup
  IF ~Across(src, dst) THEN {}
  ELSE {[disk EXCEPT ![dst] = Plain("part")],
        [disk EXCEPT ![dst] = disk[src]]} \cup
       IF src \in Vendors
       THEN {[disk EXCEPT ![dst] = disk[src], ![src] = Plain("part")]} ELSE {}

MoveOk(src, dst) ==
  /\ disk[src].is # "none" /\ ~Blocked(dst)
  /\ disk' = Moved(src, dst)
  /\ UNCHANGED faults

MoveFails(src, dst) ==
  \/ /\ disk[src].is = "none" \/ Blocked(dst)
     /\ UNCHANGED <<disk, faults>>
  \/ /\ disk[src].is # "none" /\ ~Blocked(dst)
     /\ faults < MaxFaults
     /\ disk' \in Botched(src, dst)
     /\ faults' = faults + 1

-----------------------------------------------------------------------------
(* The callers pass the lock they read from disk as oldLock.  A vendor.orig *)
(* may be left over from earlier.                                          *)
Init ==
  /\ req \in Requests
  /\ xdev \in Devices
  /\ \E v \in {Nothing, Plain("old"), [is |-> "old", git |-> TRUE]},
        m \in {Nothing, Plain("old")}, left \in {Nothing, Plain("kept")} :
       disk = [p \in InTemp \cup InPlace |->
                 CASE p = "manifest" -> m
                   [] p = "lock" -> IF req.old = "none" THEN Nothing ELSE Plain("old")
                   [] p = "vendor" -> v
                   [] p = "vendor.orig" -> left
                   [] OTHER -> Nothing]
  /\ start = disk
  /\ pc = "new"
  /\ at = 1
  /\ restore = <<>>
  /\ bak = "none"
  /\ faults = 0

(* NewSafeWriter(), validate() and TempDir(). *)
New ==
  /\ pc = "new"
  /\ \/ /\ BadRequest
        /\ pc' = "refused"
        /\ UNCHANGED faults
     \/ /\ ~BadRequest /\ ~req.manifest /\ ~WriteLock /\ ~WriteVendor
        /\ pc' = "ok"
        /\ UNCHANGED faults
     \/ /\ ~BadRequest /\ (req.manifest \/ WriteLock \/ WriteVendor)
        /\ \/ pc' = "stage" /\ UNCHANGED faults
           \/ pc' = "err" /\ faults < MaxFaults /\ faults' = faults + 1
  /\ UNCHANGED <<req, xdev, start, disk, at, restore, bak>>

(* Mutant: the index is not set back for the next phase. *)
GoOnPast(here, there) ==
  /\ at' = at + 1
  /\ pc' = IF at = Len(Artifacts) THEN there ELSE here

(* From one artifact to the next and, past the last, to a later phase.     *)
GoOn(here, there) ==
  /\ at' = IF at = Len(Artifacts) THEN 1 ELSE at + 1
  /\ pc' = IF at = Len(Artifacts) THEN there ELSE here

(* Write the artifact to the temp dir; vendor with WriteDepTree(), which   *)
(* removes what it wrote when a project fails.                             *)
Stage ==
  /\ pc = "stage"
  /\ LET x == Artifacts[at] IN
     \/ /\ Writes(x)
        /\ disk' = [disk EXCEPT ![Staged[x]] = Plain("new")]
        /\ GoOn("stage", "dotgit")
        /\ UNCHANGED faults
     \/ /\ Writes(x)
        /\ faults < MaxFaults
        /\ faults' = faults + 1
        /\ disk' \in {disk, [disk EXCEPT ![Staged[x]] = IF x = "vendor" THEN Nothing ELSE Plain("part")]}
        /\ pc' = "cleanup:err"
        /\ UNCHANGED at
     \/ /\ ~Writes(x)
        /\ GoOn("stage", "dotgit")
        /\ UNCHANGED <<disk, faults>>
  /\ UNCHANGED <<req, xdev, start, restore, bak>>

GitCopied == [disk EXCEPT !["td/vendor"].git = TRUE]

(* Mutant: vendor/.git is left in the old vendor. *)
DotGitSkipped ==
  /\ pc = "dotgit"
  /\ pc' = "out"
  /\ UNCHANGED <<req, xdev, start, disk, at, restore, bak, faults>>

(* Move vendor/.git to the new vendor; with no new vendor the rename has   *)
(* nowhere to go and fails, on any device.  The error is looked at as a    *)
(* *os.LinkError, which RenameWithFallback() never returns unwrapped, so   *)
(* Write() goes on.                                                        *)
DotGit ==
  /\ pc = "dotgit"
  /\ LET moves == disk["vendor"].git /\ disk["td/vendor"].is # "none" IN
     \/ /\ moves
        /\ disk' = [GitCopied EXCEPT !["vendor"].git = FALSE]
        /\ UNCHANGED faults
     \/ /\ moves
        /\ faults < MaxFaults
        /\ faults' = faults + 1
        /\ disk' \in {disk} \cup IF xdev THEN {GitCopied} ELSE {}
     \/ /\ ~moves
        /\ UNCHANGED <<disk, faults>>
  /\ pc' = "out"
  /\ UNCHANGED <<req, xdev, start, at, restore, bak>>

(* Where the old artifact goes. *)
Backup(x) ==
  CASE x = "manifest" -> "td/manifest.orig"
    [] x = "lock" -> "td/lock.orig"
    [] x = "vendor" -> IF disk["vendor.orig"].is = "none" THEN "vendor.orig" ELSE "td/.vendor.orig"

(* Mutant: what was moved out is not noted for the rollback. *)
MoveOutForgets ==
  /\ pc = "out"
  /\ LET x == Artifacts[at] IN
     \/ /\ Writes(x) /\ disk[x].is # "none"
        /\ MoveOk(x, Backup(x))
        /\ pc' = "in"
        /\ bak' = IF x = "vendor" THEN Backup(x) ELSE bak
     \/ /\ ~Writes(x) \/ disk[x].is = "none"
        /\ pc' = "in"
        /\ UNCHANGED <<disk, faults, bak>>
  /\ UNCHANGED <<req, xdev, start, at, restore>>

(* Move the old artifact out. *)
MoveOut ==
  /\ pc = "out"
  /\ LET x == Artifacts[at] IN
     \/ /\ Writes(x) /\ disk[x].is # "none"
        /\ MoveOk(x, Backup(x))
        /\ restore' = Append(restore, [from |-> Backup(x), to |-> x])
        /\ pc' = "in"
        /\ bak' = IF x = "vendor" THEN Backup(x) ELSE bak
     \/ /\ Writes(x) /\ disk[x].is # "none"
        /\ MoveFails(x, Backup(x))
        /\ pc' = "fail"
        /\ bak' = IF x = "vendor" THEN Backup(x) ELSE bak
        /\ UNCHANGED restore
     \/ /\ ~Writes(x) \/ disk[x].is = "none"
        /\ pc' = "in"
        /\ UNCHANGED <<disk, faults, restore, bak>>
  /\ UNCHANGED <<req, xdev, start, at>>

(* Mutant: the error of the move is not looked at. *)
MoveInIgnores ==
  /\ pc = "in"
  /\ LET x == Artifacts[at] IN
     \/ /\ Writes(x)
        /\ MoveOk(Staged[x], x) \/ MoveFails(Staged[x], x)
     \/ /\ ~Writes(x)
        /\ UNCHANGED <<disk, faults>>
  /\ GoOn("out", "removebak")
  /\ UNCHANGED <<req, xdev, start, restore, bak>>

(* Move the new artifact in. *)
MoveIn ==
  /\ pc = "in"
  /\ LET x == Artifacts[at] IN
     \/ /\ Writes(x)
        /\ MoveOk(Staged[x], x)
        /\ GoOn("out", "removebak")
     \/ /\ Writes(x)
        /\ MoveFails(Staged[x], x)
        /\ pc' = "fail"
        /\ UNCHANGED at
     \/ /\ ~Writes(x)
        /\ GoOn("out", "removebak")
        /\ UNCHANGED <<disk, faults>>
  /\ UNCHANGED <<req, xdev, start, restore, bak>>

(* Mutant: the adjacent directory is deleted, whoever made it. *)
RemoveBakAdjacent ==
  /\ pc = "removebak"
  /\ disk' = [disk EXCEPT !["vendor.orig"] = Nothing]
  /\ pc' = "cleanup:ok"
  /\ UNCHANGED <<req, xdev, start, at, restore, bak, faults>>

(* Delete the old vendor; an error is ignored. *)
RemoveBak ==
  /\ pc = "removebak"
  /\ \/ /\ disk' = IF bak = "none" THEN disk ELSE [disk EXCEPT ![bak] = Nothing]
        /\ UNCHANGED faults
     \/ /\ bak # "none" /\ faults < MaxFaults
        /\ disk' \in {disk, [disk EXCEPT ![bak] = Plain("part")]}
        /\ faults' = faults + 1
  /\ pc' = "cleanup:ok"
  /\ UNCHANGED <<req, xdev, start, at, restore, bak>>

(* Mutant: nothing is moved back. *)
RestoreSkips ==
  /\ pc = "fail"
  /\ pc' = "cleanup:err"
  /\ UNCHANGED <<req, xdev, start, disk, at, restore, bak, faults>>

(* fail: move what was moved out back into place; errors are ignored.      *)
Restore ==
  /\ pc = "fail"
  /\ \/ /\ restore # <<>>
        /\ \/ MoveOk(Head(restore).from, Head(restore).to)
           \/ MoveFails(Head(restore).from, Head(restore).to)
        /\ restore' = Tail(restore)
        /\ UNCHANGED pc
     \/ /\ restore = <<>>
        /\ pc' = "cleanup:err"
        /\ UNCHANGED <<disk, faults, restore>>
  /\ UNCHANGED <<req, xdev, start, at, bak>>

(* The deferred os.RemoveAll(td); an error is ignored.                     *)
Cleanup ==
  /\ pc \in {"cleanup:ok", "cleanup:err"}
  /\ \/ /\ disk' = [p \in DOMAIN disk |-> IF p \in InTemp THEN Nothing ELSE disk[p]]
        /\ UNCHANGED faults
     \/ /\ faults < MaxFaults
        /\ faults' = faults + 1
        /\ UNCHANGED disk
  /\ pc' = IF pc = "cleanup:ok" THEN "ok" ELSE "err"
  /\ UNCHANGED <<req, xdev, start, at, restore, bak>>

Ended == {"ok", "err", "refused", "killed"}

(* What an operation that is cut short leaves. *)
CutShort ==
  LET Midway(src, dst) == IF disk[src].is = "none" \/ Blocked(dst) THEN {disk}
                          ELSE Botched(src, dst)
      x == Artifacts[at]
  IN
  CASE pc = "out" /\ Writes(x) -> Midway(x, Backup(x))
    [] pc = "in" /\ Writes(x) -> Midway(Staged[x], x)
    [] pc = "fail" /\ restore # <<>> -> Midway(Head(restore).from, Head(restore).to)
    [] pc = "removebak" /\ bak # "none" -> {disk, [disk EXCEPT ![bak] = Plain("part")]}
    [] OTHER -> {disk}

(* The process is killed between two operations or in the middle of one.   *)
Killed ==
  /\ pc \notin Ended
  /\ pc' = "killed"
  /\ disk' \in CutShort
  /\ UNCHANGED <<req, xdev, start, at, restore, bak, faults>>

Write == New \/ Stage \/ DotGit \/ MoveOut \/ MoveIn \/ RemoveBak \/ Restore \/ Cleanup

Next == Write \/ Killed

Spec == Init /\ [][Next]_vars

-----------------------------------------------------------------------------
(* Write() keeps the disk and its own state typed, and what it does next   *)
(* within the artifacts.                                                   *)
TypeOK ==
  /\ disk \in [InTemp \cup InPlace -> Contents]
  /\ pc \in Ended \cup {"new", "stage", "dotgit", "out", "in", "removebak", "fail",
                        "cleanup:ok", "cleanup:err"}
  /\ at \in 1..Len(Artifacts)
  /\ Len(restore) <= Len(Artifacts)
  /\ faults \in 0..MaxFaults

(* Write() reports success only with all that was asked for in place and   *)
(* the rest as it was, whatever failed on the way.                         *)
SuccessMeansWritten ==
  pc = "ok" => \A i \in DOMAIN Artifacts :
                 disk[Artifacts[i]].is = IF Writes(Artifacts[i]) THEN "new"
                                         ELSE start[Artifacts[i]].is

(* When Write() reports an error after a single failure, what was there    *)
(* before is back in place; a vendor whose copy across devices broke off   *)
(* is the exception, as nothing is moved over a directory.                 *)
OldBackInPlace ==
  pc = "err" /\ faults <= 1 =>
    \A i \in DOMAIN Artifacts :
      start[Artifacts[i]].is = "old" /\ (Artifacts[i] = "vendor" => ~xdev) =>
        disk[Artifacts[i]].is = "old"

Places(x) ==
  {x} \cup CASE x = "manifest" -> {"td/manifest.orig"}
             [] x = "lock" -> {"td/lock.orig"}
             [] x = "vendor" -> {"vendor.orig", "td/.vendor.orig"}

(* Until all new artifacts are in place, neither a kill nor a single       *)
(* failure takes the last copy of an old one, as long as the vendor's      *)
(* backup is beside it or the temp dir is on the same device.              *)
OldSurvives ==
  faults <= 1 /\ (xdev => start["vendor.orig"].is = "none") =>
    \/ \A i \in DOMAIN Artifacts : Writes(Artifacts[i]) => disk[Artifacts[i]].is = "new"
    \/ \A i \in DOMAIN Artifacts :
         start[Artifacts[i]].is = "old" => \E p \in Places(Artifacts[i]) : disk[p].is = "old"

(* A vendor.orig that was there before the call is never touched.          *)
LeftoverKept == start["vendor.orig"].is = "kept" => disk["vendor.orig"].is = "kept"

(* A vendor that is replaced without a failure keeps its .git.             *)
DotGitFollows ==
  pc = "ok" /\ WriteVendor /\ faults = 0 /\ start["vendor"].git => disk["vendor"].git

(* Write() preserves vendor/.git, also when it moves the old vendor back.  *)
(* TLC refutes it: the rollback knows nothing of .git.                     *)
DotGitPreserved == pc \in {"ok", "err"} /\ start["vendor"].git => disk["vendor"].git

(* A failed Write() leaves no partial write: the artifacts are as before.  *)
(* TLC refutes it: what was moved in where there was nothing stays.        *)
RollbackComplete ==
  pc = "err" => \A i \in DOMAIN Artifacts : disk[Artifacts[i]].is = start[Artifacts[i]].is
=============================================================================
