------------------------------- MODULE Ensure -------------------------------
(***************************************************************************)
(* "dep ensure" of cmd/dep/ensure.go, run again and again on a project     *)
(* whose user edits the imports and the manifest in between: the default   *)
(* command, -update, -add, -vendor-only, with -no-vendor and -dry-run.     *)
(* The command may be killed at any time.                                  *)
(*                                                                         *)
(* The solver may return any selection that the rules allow, or fail; the  *)
(* module Solver is about how it finds one.  Writing is a step for the     *)
(* lock and one for the directory vendor, and what was moved out is moved  *)
(* back when one fails; the module SafeWriter has the renames in it.  The  *)
(* temporary directory may be on another device, so each move may be a     *)
(* copy that stops half way.                                               *)
(*                                                                         *)
(* A package is <<project, "root">> or <<project, "sub">>.  A constraint   *)
(* is a version, or 0 for any.                                             *)
(***************************************************************************)
EXTENDS WriteTree

CONSTANTS
  Projects, Versions,
  ImportRoot,   \* the project itself
  Commands,     \* the command lines that are given
  Edits,        \* what the user may import
  MaxCommands,  \* how many commands are run
  MaxFaults     \* how many of them are killed or network and disk operations fail

ASSUME EnsureAssumption ==
  /\ Versions \subseteq Nat \ {0}
  /\ MaxCommands \in Nat /\ MaxFaults \in Nat
  /\ concurrentWriters \in Nat \ {0}

VARIABLES
  disk,      \* the project: imports, manifest (cons, req), lock and vendor, and
             \* the old vendor while it is moved aside (vendorbak)
  cmd, pc,   \* the command that runs, and where it is
  p,         \* Project: the manifest and lock it has loaded, changed by -add
  todo,      \* the arguments whose goroutines are not through
  errs,      \* errCh is not empty
  instrs,    \* addInstructions
  new,       \* the lock that the writer has
  result,    \* how the last command ended
  count      \* the commands, crashes and failures so far

cmdVars == <<cmd, pc, p, todo, errs, instrs, new, result>>
vars    == <<disk, cmdVars, count, treeVars>>

(* The default source of a project. *)
NoSource == ""

(* A lock, or none: p.Lock == nil. *)
NoLock  == [is |-> "nil", vers |-> <<>>, digest |-> [pkgs |-> {}, cons |-> <<>>]]

(* What copyFile() that stops half way leaves of a lock: a file that       *)
(* readLock() refuses or, when it ends between two projects, one that it   *)
(* reads as a lock of the projects before; the digest is last in the file. *)
Torn    == [NoLock EXCEPT !.is = "torn"]
Cuts(l) == {Torn} \cup {[NoLock EXCEPT !.is = "cut", !.vers = [r \in S |-> l.vers[r]]] :
                          S \in SUBSET DOMAIN l.vers}

Idle    == [mode |-> "none", noVendor |-> FALSE, dryRun |-> FALSE, args |-> {}]
NoProject == [imports |-> {}, cons |-> <<>>, req |-> {}, lock |-> NoLock]

Loaded(d) == [imports |-> d.imports, cons |-> d.cons, req |-> d.req, lock |-> d.lock]

Init ==
  /\ disk \in [imports : Edits, cons : {<<>>}, req : {{}}, lock : {NoLock}, vendor : {<<>>},
                vendorbak : {<<>>}]
  /\ cmd = Idle /\ pc = "idle" /\ p = NoProject
  /\ todo = {} /\ errs = FALSE /\ instrs = <<>> /\ new = NoLock
  /\ result = "none"
  /\ count = [commands |-> 0, crashes |-> 0, failures |-> 0]
  /\ NoTree

-----------------------------------------------------------------------------
Packages(m) == m.imports \cup m.req
Needed(m)   == {k[1] : k \in Packages(m)}

(* HashInputs(): the rules that apply to direct dependencies, and imports. *)
HashInputs(m) == [pkgs |-> Packages(m),
                  cons |-> [r \in DOMAIN m.cons \cap Needed(m) |-> m.cons[r]]]

InSyncWith(lock, m) == lock.is = "lock" /\ lock.digest = HashInputs(m)

Allowed(c, v) == c = 0 \/ c = v

Solutions(m) ==
  {s \in [Needed(m) -> Versions] :
     \A r \in Needed(m) \cap DOMAIN m.cons : Allowed(m.cons[r].con, s[r])}

(* LockFromSolution() *)
LockOf(s, m) == [is |-> "lock", vers |-> s, digest |-> HashInputs(m)]

(* validateFlags() *)
validateFlags(c) == ~(c.mode = "vendor-only" /\ c.noVendor)

(* NewSafeWriter(): what is written, given the old and the new lock, and   *)
(* what the modes ask for; a memo that matches has vendor always written.  *)
WriteLock(l) == l # p.lock
(* vendor is written only on changes when the memo matches. *)
VendorOnlyAlways == cmd.mode = "vendor-only"
VendorAlways == cmd.mode = "vendor-only" \/ (cmd.mode = "default" /\ InSyncWith(p.lock, p))
VendorNever == cmd.noVendor /\ cmd.mode # "add"
WriteVendor(l) == VendorAlways \/ (~VendorNever /\ l # p.lock)

End(res) ==
  /\ pc' = "idle" /\ result' = res
  /\ p' = NoProject /\ todo' = {} /\ errs' = FALSE /\ instrs' = <<>> /\ new' = NoLock
  /\ cmd' = IF res = "ok" THEN cmd ELSE Idle

Stay == UNCHANGED <<disk, count, treeVars>>

Faulty  == count.crashes + count.failures < MaxFaults
Failing == Faulty /\ count' = [count EXCEPT !.failures = @ + 1]

-----------------------------------------------------------------------------
(* The user changes what is imported, or removes a lock that dep refuses.  *)
Edit ==
  /\ pc = "idle" /\ count.commands < MaxCommands
  /\ \/ \E i \in Edits : i # disk.imports /\ disk' = [disk EXCEPT !.imports = i]
     \/ disk.lock.is = "torn" /\ disk' = [disk EXCEPT !.lock = NoLock]
  /\ result' = "edited" /\ cmd' = Idle
  /\ UNCHANGED <<pc, p, todo, errs, instrs, new, count, treeVars>>

(* Run() up to the mode: flags are validated, the project is loaded unless *)
(* its lock does not parse.                                                *)
Run(c) ==
  /\ pc = "idle" /\ count.commands < MaxCommands
  /\ count' = [count EXCEPT !.commands = @ + 1]
  /\ new' = NoLock
  /\ todo' = {} /\ errs' = FALSE /\ instrs' = <<>>
  /\ IF validateFlags(c) /\ disk.lock.is # "torn"
     THEN pc' = "loaded" /\ p' = Loaded(disk) /\ result' = "running" /\ cmd' = c
     ELSE pc' = "idle" /\ p' = NoProject /\ result' = "error" /\ cmd' = Idle
  /\ UNCHANGED <<disk, treeVars>>

(* What is asked of the network and the packages fails: roots that are not *)
(* deduced, imports that cannot be validated, no package without errors.   *)
Invalid ==
  /\ pc = "loaded"
  /\ Failing /\ End("error")
  /\ UNCHANGED <<disk, treeVars>>

Writing(l) == new' = l /\ pc' = IF cmd.dryRun THEN "print" ELSE "write"

runDefault ==
  /\ pc = "loaded" /\ cmd.mode = "default"
  /\ \/ /\ InSyncWith(p.lock, p) /\ cmd.noVendor
        /\ End("ok")
     \/ /\ InSyncWith(p.lock, p) /\ ~cmd.noVendor
        /\ Writing(p.lock)
        /\ UNCHANGED <<cmd, p, todo, errs, instrs, result>>
     \/ /\ ~InSyncWith(p.lock, p) /\ cmd.noVendor /\ cmd.dryRun
        /\ End("error")
     \/ /\ ~InSyncWith(p.lock, p) /\ ~(cmd.noVendor /\ cmd.dryRun)
        /\ pc' = "solve"
        /\ UNCHANGED <<cmd, p, todo, errs, instrs, new, result>>
  /\ Stay

runVendorOnly ==
  /\ pc = "loaded" /\ cmd.mode = "vendor-only"
  /\ IF p.lock = NoLock THEN End("error")
     ELSE Writing(p.lock) /\ UNCHANGED <<cmd, p, todo, errs, instrs, result>>
  /\ Stay

(* validateUpdateArgs(): roots that are locked, without rules of their own.*)
validateUpdateArgs ==
  \A a \in cmd.args : /\ a.path[2] = "root" /\ a.path[1] \in DOMAIN p.lock.vers
                      /\ a.con = 0 /\ a.source = NoSource

runUpdate ==
  /\ pc = "loaded" /\ cmd.mode = "update"
  /\ IF p.lock = NoLock \/ ~validateUpdateArgs THEN End("error")
     ELSE pc' = "solve" /\ UNCHANGED <<cmd, p, todo, errs, instrs, new, result>>
  /\ Stay

-----------------------------------------------------------------------------
(* runAdd(): a goroutine for each argument, one at a time under the mutex. *)
runAdd ==
  /\ pc = "loaded" /\ cmd.mode = "add"
  /\ IF cmd.args = {} THEN End("error")
     ELSE pc' = "args" /\ todo' = cmd.args /\ UNCHANGED <<cmd, p, errs, instrs, new, result>>
  /\ Stay

NoInstr == [con |-> 0, source |-> NoSource, ephReq |-> {}, typ |-> {}]

SomeConstraint(x) == x.con # 0 \/ x.source # NoSource

Instr(r) == IF r \in DOMAIN instrs THEN instrs[r] ELSE NoInstr

(* What an argument adds to the instruction of its project: the kind of    *)
(* addition, and whether its package is required for this solve.           *)
Kind(a) ==
  LET root == <<a.path[1], "root">>
  IN  CASE a.path[1] \in DOMAIN p.cons -> "isInManifest"
        [] a.path[1] \notin DOMAIN p.cons /\ root \notin Packages(p) -> "isInNeither"
        [] OTHER -> IF SomeConstraint(a) THEN "isInImportsWithConstraint"
                    ELSE "isInImportsNoConstraint"

Requires(a) ==
  Kind(a) = "isInImportsWithConstraint" => a.path \notin Packages(p) /\ a.path[2] # "root"

(* Without the check that only one argument declares rules. *)
AgreesAlways(a, instr) == TRUE

Agrees(a, instr) == ~(SomeConstraint(a) /\ SomeConstraint(instr))

Rejected(a) ==
  LET inManifest == a.path[1] \in DOMAIN p.cons
      inImports  == <<a.path[1], "root">> \in Packages(p)
  IN  \/ a.path[1] = ImportRoot
      \/ inManifest /\ inImports
      \/ ~Agrees(a, Instr(a.path[1]))
      \/ inManifest /\ SomeConstraint(a)
      \/ inImports /\ ~SomeConstraint(a) /\ a.path \in Packages(p)

AddInstruction(a) ==
  LET i == Instr(a.path[1])
      rules == IF SomeConstraint(a) THEN a ELSE i
      j == [con |-> rules.con, source |-> rules.source,
            ephReq |-> i.ephReq \cup (IF Requires(a) THEN {a.path} ELSE {}),
            typ |-> i.typ \cup {Kind(a)}]
  IN  instrs' = [r \in DOMAIN instrs \cup {a.path[1]} |-> IF r = a.path[1] THEN j ELSE instrs[r]]

AddArg(a) ==
  /\ pc = "args" /\ a \in todo
  /\ todo' = todo \ {a}
  /\ \/ ~Rejected(a) /\ AddInstruction(a) /\ UNCHANGED <<errs, count>>
     \/ Rejected(a) /\ errs' = TRUE /\ UNCHANGED <<instrs, count>>
     \/ Failing /\ errs' = TRUE /\ UNCHANGED instrs
  /\ UNCHANGED <<disk, cmd, pc, p, new, result, treeVars>>

(* wg.Wait(): with an error nothing is done, without one the in-memory     *)
(* manifest is changed.                                                    *)
Ruled == {r \in DOMAIN instrs :
            instrs[r].typ \cap {"isInNeither", "isInImportsWithConstraint"} # {}}

Args ==
  /\ pc = "args" /\ todo = {}
  /\ IF errs THEN End("error")
     ELSE /\ p' = [p EXCEPT !.req = @ \cup UNION {instrs[r].ephReq : r \in DOMAIN instrs},
                            !.cons = [r \in DOMAIN @ \cup Ruled |->
                                        IF r \in Ruled
                                        THEN [con |-> instrs[r].con, source |-> instrs[r].source]
                                        ELSE @[r]]]
          /\ pc' = "solve"
          /\ UNCHANGED <<cmd, todo, errs, instrs, new, result>>
  /\ Stay

-----------------------------------------------------------------------------
Solve ==
  /\ pc = "solve"
  /\ \/ \E s \in Solutions(p) : /\ Writing(LockOf(s, p))
                                /\ UNCHANGED <<cmd, p, todo, errs, instrs, result, count>>
     \/ Failing /\ End("error")
  /\ UNCHANGED <<disk, treeVars>>

PrintPreparedActions == pc = "print" /\ End("ok") /\ Stay

(* Write(): with nothing to write it is through; otherwise the lock and    *)
(* then vendor are written to a temporary directory first.                 *)
Write ==
  /\ pc = "write"
  /\ \/ /\ IF WriteVendor(new)
           THEN pc' = "tree" /\ Go(DOMAIN new.vers)
           ELSE pc' = "moveLock" /\ UNCHANGED treeVars
        /\ UNCHANGED <<cmd, p, todo, errs, instrs, new, result, count>>
     \/ /\ WriteLock(new) \/ WriteVendor(new)
        /\ Failing /\ End("error") /\ UNCHANGED treeVars
  /\ UNCHANGED disk

TreeStep ==
  /\ pc = "tree"
  /\ \E r \in DOMAIN writer :
       /\ Acquire(r) \/ Export(r, new.vers[r]) \/ PruneProject(r)
       /\ IF canceled' /\ ~canceled THEN Failing ELSE UNCHANGED count
  /\ UNCHANGED <<disk, cmdVars>>

TreeDone ==
  /\ pc = "tree" /\ Wait
  /\ IF \E r \in DOMAIN writer : writer[r] = "failed"
     THEN End("error")
     ELSE pc' = "moveLock" /\ UNCHANGED <<cmd, p, todo, errs, instrs, new, result>>
  /\ writer' = <<>> /\ canceled' = FALSE
  /\ tree' = IF \E r \in DOMAIN writer : writer[r] = "failed" THEN <<>> ELSE tree
  /\ UNCHANGED <<disk, count>>

(* The old lock is moved out and the new one in.  When that fails, the old *)
(* one is still there, or none, or part of the new one, or all of it.      *)
MoveLock ==
  /\ pc = "moveLock"
  /\ \/ /\ disk' = IF WriteLock(new) THEN [disk EXCEPT !.lock = new] ELSE disk
        /\ pc' = "moveVendor"
        /\ UNCHANGED count
     \/ /\ WriteLock(new) /\ Failing
        /\ \E l \in {disk.lock, NoLock, new} \cup Cuts(new) : disk' = [disk EXCEPT !.lock = l]
        /\ pc' = "restoreLock"
  /\ UNCHANGED <<cmd, p, todo, errs, instrs, new, result, treeVars>>

(* The old vendor is moved aside and the new one in.  When the first       *)
(* fails, the old one or part of it stays; when the second does, part of   *)
(* the new one.                                                            *)
MoveVendor ==
  /\ pc = "moveVendor"
  /\ \/ /\ disk' = IF WriteVendor(new) THEN [disk EXCEPT !.vendor = tree] ELSE disk
        /\ IF cmd.mode = "add"
           THEN pc' = "append" /\ UNCHANGED <<cmd, p, todo, errs, instrs, new, result>>
           ELSE End("ok")
        /\ UNCHANGED count
     \/ /\ WriteVendor(new) /\ Failing
        /\ \/ \E v \in PartsOf(disk.vendor) : disk' = [disk EXCEPT !.vendor = v]
           \/ \E v \in PartsOf(tree) : disk' = [disk EXCEPT !.vendor = v, !.vendorbak = disk.vendor]
        /\ pc' = "restoreLock"
        /\ UNCHANGED <<cmd, p, todo, errs, instrs, new, result>>
  /\ tree' = <<>>
  /\ UNCHANGED <<writer, canceled>>

(* A rollback that does not put the lock back. *)
RestoreLockSkipped ==
  /\ pc = "restoreLock"
  /\ pc' = "restoreVendor"
  /\ UNCHANGED <<disk, count, cmd, p, todo, errs, instrs, new, result, treeVars>>

(* The rollback: only what was moved out is put back, so a lock where there *)
(* was none stays.  Errors are ignored.                                    *)
RestoreLock ==
  /\ pc = "restoreLock"
  /\ \/ /\ disk' = IF p.lock = NoLock THEN disk ELSE [disk EXCEPT !.lock = p.lock]
        /\ UNCHANGED count
     \/ /\ p.lock # NoLock /\ disk.lock # p.lock /\ Failing
        /\ \E l \in {disk.lock} \cup Cuts(p.lock) : disk' = [disk EXCEPT !.lock = l]
  /\ pc' = "restoreVendor"
  /\ UNCHANGED <<cmd, p, todo, errs, instrs, new, result, treeVars>>

(* Nothing is moved over a directory: what there is of the new vendor is   *)
(* in the way of the old one, and so may be an empty directory.            *)
RestoreVendor ==
  /\ pc = "restoreVendor"
  /\ \/ /\ disk' = [disk EXCEPT !.vendorbak = <<>>]
        /\ UNCHANGED count
     \/ /\ disk.vendor = <<>>
        /\ disk' = [disk EXCEPT !.vendor = disk.vendorbak, !.vendorbak = <<>>]
        /\ UNCHANGED count
     \/ /\ disk.vendor = <<>> /\ disk.vendorbak # <<>> /\ Failing
        /\ \E v \in PartsOf(disk.vendorbak) :
             disk' = [disk EXCEPT !.vendor = v, !.vendorbak = <<>>]
  /\ End("error") /\ tree' = <<>>
  /\ UNCHANGED <<writer, canceled>>

(* The rules of what was added go to the end of the manifest: those given, *)
(* or the version that was selected.                                       *)
Added == {r \in DOMAIN instrs : "isInManifest" \notin instrs[r].typ}

Appended(added) ==
  [r \in DOMAIN disk.cons \cup added |->
     IF r \in added
     THEN [con |-> IF instrs[r].con # 0 THEN instrs[r].con ELSE new.vers[r],
           source |-> instrs[r].source]
     ELSE disk.cons[r]]

(* A write that fails may have appended some of them; the lock and vendor  *)
(* are not put back.                                                       *)
Append ==
  /\ pc = "append"
  /\ \/ /\ disk' = [disk EXCEPT !.cons = Appended(Added)]
        /\ End("ok") /\ UNCHANGED count
     \/ /\ \E some \in SUBSET Added : disk' = [disk EXCEPT !.cons = Appended(some)]
        /\ Failing /\ End("error")
  /\ UNCHANGED treeVars

(* What a move that is cut short leaves of the lock and of vendor. *)
LocksLeft ==
  {disk.lock}
  \cup {l \in {NoLock} \cup Cuts(new) : pc = "moveLock" /\ WriteLock(new)}
  \cup {l \in Cuts(p.lock) : pc = "restoreLock" /\ p.lock # NoLock /\ disk.lock # p.lock}

VendorsLeft ==
  {disk.vendor}
  \cup {v \in PartsOf(disk.vendor) \cup PartsOf(tree) : pc = "moveVendor" /\ WriteVendor(new)}
  \cup {v \in PartsOf(disk.vendorbak) : pc = "restoreVendor" /\ disk.vendor = <<>>}

(* The process is killed, maybe in the middle of a move or of the append.  *)
Crash ==
  /\ pc # "idle" /\ Faulty
  /\ count' = [count EXCEPT !.crashes = @ + 1]
  /\ End("killed")
  /\ writer' = <<>> /\ canceled' = FALSE /\ tree' = <<>>
  /\ \E l \in LocksLeft, v \in VendorsLeft, some \in SUBSET {r \in Added : pc = "append"} :
       disk' = [disk EXCEPT !.lock = l, !.vendor = v, !.vendorbak = <<>>, !.cons = Appended(some)]

-----------------------------------------------------------------------------
Step == \/ runDefault \/ runVendorOnly \/ runUpdate \/ runAdd
        \/ (\E a \in todo : AddArg(a)) \/ Args \/ Solve \/ PrintPreparedActions
        \/ Write \/ TreeStep \/ TreeDone \/ MoveLock \/ MoveVendor
        \/ RestoreLock \/ RestoreVendor \/ Append

Next == Step \/ Invalid \/ Edit \/ Crash \/ \E c \in Commands : Run(c)

Spec == Init /\ [][Next]_vars /\ WF_vars(Step)

-----------------------------------------------------------------------------
Succeeded(modes) == pc = "idle" /\ result = "ok" /\ cmd.mode \in modes /\ ~cmd.dryRun

(* After "dep ensure" the lock is for the project's imports and rules, its *)
(* versions are within the rules, and vendor/ is populated according to    *)
(* it, whatever was run, killed or left undone before.                     *)
EnsureGetsInSync ==
  Succeeded({"default"}) /\ ~cmd.noVendor =>
    /\ InSyncWith(disk.lock, disk)
    /\ disk.lock.vers \in Solutions(disk)
    /\ disk.vendor = Whole(disk.lock.vers)

(* After "dep ensure -add" the manifest has the rules that were given for  *)
(* each project and the lock has a version within them, in whatever order  *)
(* the goroutines of the arguments ran.                                    *)
AddTakesEffect ==
  Succeeded({"add"}) =>
    \A a \in cmd.args :
      LET r == a.path[1]
      IN  /\ r \in DOMAIN disk.cons \cap DOMAIN disk.lock.vers
          /\ Allowed(disk.cons[r].con, disk.lock.vers[r])
          /\ a.con # 0 => disk.cons[r].con = a.con
          /\ a.source # NoSource => disk.cons[r].source = a.source

(* vendor/ changes to the whole tree of the lock it is written from, all   *)
(* projects exported and pruned.  Only a move that fails or is killed, or  *)
(* the rollback after it, leaves less: a part of the old tree or of the    *)
(* new one, never of both, and the command does not succeed.               *)
VendorWhole ==
  [][disk'.vendor # disk.vendor =>
       \/ disk'.vendor = Whole(new.vers)
       \/ /\ pc' = "restoreLock" \/ result' \in {"error", "killed"}
          /\ \E t \in {disk.vendor, disk.vendorbak, Whole(new.vers)} : disk'.vendor \in {t} \cup PartsOf(t)]_vars

(* A command that fails before it appends to the manifest, and nothing     *)
(* else has failed, leaves the lock it found: one that was moved out is    *)
(* put back over whatever the broken move left.  If there was none the new *)
(* lock may stay.                                                          *)
LockPutBack ==
  [][result = "running" /\ result' = "error" /\ pc # "append" /\ count'.failures <= 1 =>
       disk'.lock = p.lock \/ p.lock = NoLock]_vars

(* Every command ends, also when writers fail while others wait for a      *)
(* place at the semaphore.                                                 *)
CommandsEnd == pc # "idle" ~> pc = "idle"

-----------------------------------------------------------------------------
(* What does not hold.  -no-vendor is not heeded by -add. *)
NoVendorHeeded == [][cmd.noVendor /\ pc # "idle" => disk'.vendor = disk.vendor]_vars

(* vendor/ is populated according to the lock after every command that may *)
(* write it: -update and -add write it only when the lock changes.         *)
VendorPopulated ==
  Succeeded({"default", "update", "add"}) /\ ~cmd.noVendor => disk.vendor = Whole(disk.lock.vers)

(* -vendor-only populates vendor/ from a lock of all that is needed: a     *)
(* copy of the lock that was cut between two projects is read as a lock.   *)
VendorFromWholeLock == Succeeded({"vendor-only"}) => disk.lock.is = "lock"

(* A command that fails leaves the lock it found: where there was none the *)
(* new one stays, and -add fails with the new one in place when it cannot  *)
(* append to the manifest.                                                 *)
FailureLeavesLock == [][result = "running" /\ result' = "error" => disk'.lock = p.lock]_vars
=============================================================================
