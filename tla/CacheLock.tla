----------------------------- MODULE CacheLock ------------------------------
(***************************************************************************)
(* The lock on the source cache: sm.lock, which NewSourceManager() takes   *)
(* and Release() gives up (gps/source_manager.go), with the library it     *)
(* uses (vendor/github.com/nightlyone/lockfile), one system call a step.   *)
(*                                                                         *)
(* Each process opens one SourceMgr.  A process links a file with its pid  *)
(* to sm.lock; the file is identified with that process.  The pid is       *)
(* written before the file is linked, so sm.lock always holds one, and no  *)
(* pid is used twice.                                                      *)
(***************************************************************************)
EXTENDS Naturals, FiniteSets

CONSTANTS Procs,       \* the processes that use the cache
          None,        \* no process: there is no sm.lock
          MaxCrashes   \* how many of them are killed

ASSUME CacheLockAssumption == None \notin Procs /\ MaxCrashes \in Nat

VARIABLES
  pc,       \* where each process is
  file,     \* whose file sm.lock is, or None
  read,     \* the pid each process read last
  robbed,   \* whose sm.lock was deleted by another process
  crashes

lockVars == <<pc, file, read, robbed, crashes>>

(* isRunning() of its pid is false. *)
Gone(p) == pc[p] \in {"dead", "exited"}

GoTo(p, there) == pc' = [pc EXCEPT ![p] = there]

LockInit ==
  /\ pc = [p \in Procs |-> "link"]
  /\ file = None
  /\ read = [p \in Procs |-> None]
  /\ robbed = {}
  /\ crashes = 0

-----------------------------------------------------------------------------
(* TryLock() and the loop around it *)

(* os.Link() of the temp file; its error is ignored.                       *)
Link(p) ==
  /\ pc[p] = "link"
  /\ file' = IF file = None THEN p ELSE file
  /\ GoTo(p, "stat")
  /\ UNCHANGED <<read, robbed, crashes>>

(* Mutant: any lock file is taken for the one just linked. *)
StatNotSame(p) ==
  /\ pc[p] = "stat"
  /\ GoTo(p, IF file = None THEN "link" ELSE "holding")
  /\ UNCHANGED <<file, read, robbed, crashes>>

(* os.Lstat() of sm.lock: gone is a temporary error, ours is success.      *)
Stat(p) ==
  /\ pc[p] = "stat"
  /\ GoTo(p, IF file = None THEN "link" ELSE IF file = p THEN "holding" ELSE "owner")
  /\ UNCHANGED <<file, read, robbed, crashes>>

(* Mutant: the error of reading the file is dropped. *)
ReadOwnerAnyway(p) ==
  /\ pc[p] = "owner"
  /\ read' = [read EXCEPT ![p] = file]
  /\ GoTo(p, "check")
  /\ UNCHANGED <<file, robbed, crashes>>

(* GetOwner() reads the pid.  That sm.lock is gone by now is an error like *)
(* any other, and not a temporary one.                                     *)
ReadOwner(p) ==
  /\ pc[p] = "owner"
  /\ read' = [read EXCEPT ![p] = file]
  /\ GoTo(p, IF file = None THEN "error" ELSE "check")
  /\ UNCHANGED <<file, robbed, crashes>>

(* Mutant: an owner that is gone is taken for a busy one. *)
CheckOwnerBusy(p) ==
  /\ pc[p] = "check"
  /\ GoTo(p, "link")
  /\ UNCHANGED <<file, read, robbed, crashes>>

(* GetOwner() signals it: busy is a temporary error, which is retried; the *)
(* file of an owner that is gone is cleaned up.                            *)
CheckOwner(p) ==
  /\ pc[p] = "check"
  /\ GoTo(p, IF Gone(read[p]) THEN "clean" ELSE "link")
  /\ UNCHANGED <<file, read, robbed, crashes>>

(* os.Remove(), whatever sm.lock is by now. *)
Remove(p) ==
  /\ file' = None
  /\ robbed' = IF file \in {None, p} THEN robbed ELSE robbed \cup {file}

(* The lock file of a dead process is deleted, and TryLock() starts over.  *)
Clean(p) ==
  /\ pc[p] = "clean"
  /\ Remove(p)
  /\ GoTo(p, "link")
  /\ UNCHANGED <<read, crashes>>

-----------------------------------------------------------------------------
(* Release() *)

(* Unlock() reads the owner; not its own is an error, which is ignored.    *)
Unlock(p) ==
  /\ pc[p] = "holding"
  /\ GoTo(p, IF file = p THEN "unlink" ELSE "remove")
  /\ UNCHANGED <<file, read, robbed, crashes>>

(* Unlock() deletes sm.lock. *)
Unlink(p) ==
  /\ pc[p] = "unlink"
  /\ Remove(p)
  /\ GoTo(p, "remove")
  /\ UNCHANGED <<read, crashes>>

(* Release() deletes sm.lock once more. *)
RemoveLock(p) ==
  /\ pc[p] = "remove"
  /\ Remove(p)
  /\ GoTo(p, "released")
  /\ UNCHANGED <<read, crashes>>

-----------------------------------------------------------------------------
(* The process ends, served or not. *)
Exit(p) ==
  /\ pc[p] \in {"released", "error"}
  /\ GoTo(p, "exited")
  /\ UNCHANGED <<file, read, robbed, crashes>>

(* The process is killed, or ends without Release(). *)
Crash(p) ==
  /\ pc[p] \notin {"released", "error", "exited", "dead"}
  /\ crashes < MaxCrashes
  /\ crashes' = crashes + 1
  /\ GoTo(p, "dead")
  /\ UNCHANGED <<file, read, robbed>>

Step(p) ==
  \/ Link(p) \/ Stat(p) \/ ReadOwner(p) \/ CheckOwner(p) \/ Clean(p)
  \/ Unlock(p) \/ Unlink(p) \/ RemoveLock(p)

LockNext == \E p \in Procs : Step(p) \/ Exit(p) \/ Crash(p)

LockSpec == LockInit /\ [][LockNext]_lockVars

(* Every process that is not killed keeps running. *)
FairLockSpec == LockSpec /\ \A p \in Procs : WF_lockVars(Step(p))

-----------------------------------------------------------------------------
(* The processes that believe the cache is theirs. *)
Holders == {p \in Procs : pc[p] \in {"holding", "unlink"}}

States == {"link", "stat", "owner", "check", "clean", "holding", "unlink", "remove",
           "released", "error", "exited", "dead"}

(* TryLock() and Release() keep sm.lock and the pids read from it typed,   *)
(* and GetOwner() has read a pid before it signals it.                     *)
TypeOK ==
  /\ pc \in [Procs -> States]
  /\ file \in Procs \cup {None}
  /\ read \in [Procs -> Procs \cup {None}]
  /\ robbed \subseteq Procs
  /\ crashes \in Nat
  /\ \A p \in Procs : pc[p] = "check" => read[p] \in Procs

(* TryLock() gives the cache to two processes at once only after sm.lock   *)
(* was deleted from under one of them, by the second Remove() of a Release *)
(* or by the clean-up after an owner that is gone.                         *)
ExclusiveUnlessRobbed ==
  \A p, q \in Holders : p # q => p \in robbed \/ q \in robbed

(* The lock NewSourceManager() takes protects the cache: one process uses  *)
(* it at a time.  TLC refutes it: Release() deletes sm.lock twice.         *)
Exclusive == Cardinality(Holders) <= 1

(* NewSourceManager() spins on a busy lock and never fails because of it.  *)
(* TLC refutes it: sm.lock can be gone when its owner is read.             *)
WaitingSpins == \A p \in Procs : pc[p] # "error"

(* NewSourceManager() waits for no process for ever, not even for one that *)
(* died with the lock.                                                     *)
EveryoneServed ==
  \A p \in Procs : <>(pc[p] \in {"released", "error", "exited", "dead"})
=============================================================================
