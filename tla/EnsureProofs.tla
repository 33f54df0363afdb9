---------------------------- MODULE EnsureProofs ----------------------------
(***************************************************************************)
(* For any projects, command lines, edits, crashes and failures: a "dep    *)
(* ensure" that succeeds leaves lock, manifest and vendor/ in agreement,   *)
(* vendor/ changes to a whole tree unless a move of it is cut short, and a *)
(* command that fails puts the lock back that it found.                    *)
(***************************************************************************)
EXTENDS Ensure, TLAPS

(* What a lock was solved for is in its digest: the packages, and the rules *)
(* that apply to them.                                                     *)
SolvedFor(digest) ==
  {s \in [{k[1] : k \in digest.pkgs} -> Versions] :
     \A r \in DOMAIN digest.cons : Allowed(digest.cons[r].con, s[r])}

LockSound(lock) == lock.is = "lock" => lock.vers \in SolvedFor(lock.digest)

-----------------------------------------------------------------------------
Moved  == {"moveVendor", "append"}
Restoring == {"restoreLock", "restoreVendor"}
Solved == {"print", "write", "tree", "moveLock"} \cup Moved
Ruling == {"isInNeither", "isInImportsWithConstraint"}

Fields == {"imports", "cons", "req", "lock", "vendor", "vendorbak"}

Shapes ==
  /\ DOMAIN disk = Fields
  /\ DOMAIN p = {"imports", "cons", "req", "lock"}

(* The project is as it was loaded, but for what -add changes in memory,   *)
(* and the lock is until the new one is moved in or a move fails.          *)
LoadedInv ==
  pc # "idle" =>
    /\ p.imports = disk.imports
    /\ cmd.mode # "add" \/ pc \in {"loaded", "args"} => p.cons = disk.cons /\ p.req = disk.req
    /\ pc \in Moved => disk.lock = new
    /\ pc \notin Moved \cup Restoring => p.lock = disk.lock

(* Every lock has versions within the rules it was solved for, and the new *)
(* one was solved for this project.                                        *)
LocksInv ==
  /\ LockSound(disk.lock) /\ LockSound(p.lock)
  /\ pc \in Solved => LockSound(new)
  /\ pc \in Solved /\ cmd.mode # "vendor-only" => InSyncWith(new, p)

(* The tree while it is written, and when it is. *)
TreeInv ==
  /\ tree = [r \in DOMAIN tree |-> tree[r]]
  /\ pc = "tree" =>
       /\ DOMAIN writer = DOMAIN new.vers /\ DOMAIN tree \subseteq DOMAIN new.vers
       /\ \A r \in DOMAIN writer :
            writer[r] \in {"pruning", "written"} =>
              r \in DOMAIN tree /\ tree[r] = [version |-> new.vers[r], whole |-> writer[r] = "written"]
  /\ pc \in {"moveLock", "moveVendor"} /\ WriteVendor(new) => tree = Whole(new.vers)

(* What an argument that is through has left in the instructions. *)
ArgDone(x) ==
  LET r == x.path[1]
  IN  /\ r \in DOMAIN instrs
      /\ SomeConstraint(x) => /\ instrs[r].con = x.con /\ instrs[r].source = x.source
                              /\ r \notin DOMAIN disk.cons
      /\ x.path \in instrs[r].ephReq \/ <<r, "root">> \in Packages(disk)

(* Rules that were given are used for the solve, those of the manifest are *)
(* not touched.                                                            *)
InstrRight(r) ==
  /\ "isInManifest" \in instrs[r].typ <=> r \in DOMAIN disk.cons
  /\ r \in DOMAIN disk.cons => instrs[r].typ \cap Ruling = {}
  /\ SomeConstraint(instrs[r]) => instrs[r].typ \cap Ruling # {}

AddInv ==
  /\ pc = "loaded" => DOMAIN instrs = {}
  /\ pc = "args" => cmd.mode = "add"
  /\ cmd.mode = "add" /\ pc \in {"args", "solve"} \cup Solved =>
       /\ todo \subseteq cmd.args
       /\ pc # "args" => todo = {} /\ ~errs
       /\ ~errs => \A x \in cmd.args \ todo : ArgDone(x)
       /\ \A r \in DOMAIN instrs : InstrRight(r)
  /\ cmd.mode = "add" /\ pc \in {"solve"} \cup Solved =>
       /\ p.req = disk.req \cup UNION {instrs[r].ephReq : r \in DOMAIN instrs}
       /\ p.cons = [r \in DOMAIN disk.cons \cup Ruled |->
                      IF r \in Ruled THEN [con |-> instrs[r].con, source |-> instrs[r].source]
                      ELSE disk.cons[r]]

(* Where the commands end. *)
EndInv ==
  /\ pc = "print" => cmd.dryRun
  /\ pc = "append" => cmd.mode = "add"
  /\ EnsureGetsInSync
  /\ AddTakesEffect

EnsureInv == Shapes /\ LoadedInv /\ LocksInv /\ TreeInv /\ AddInv /\ EndInv

-----------------------------------------------------------------------------
(* What the solver may return depends on what is hashed into the digest.   *)
LEMMA SolutionsOfInputs ==
  ASSUME NEW m
  PROVE  Solutions(m) = SolvedFor(HashInputs(m))
<1>1. HashInputs(m).pkgs = Packages(m)
  BY DEF HashInputs
<1>2. /\ DOMAIN HashInputs(m).cons = DOMAIN m.cons \cap Needed(m)
      /\ \A r \in DOMAIN m.cons \cap Needed(m) : HashInputs(m).cons[r] = m.cons[r]
  BY DEF HashInputs
<1> QED BY <1>1, <1>2 DEF Solutions, SolvedFor, Needed

(* A sound lock that is in sync is a solution. *)
LEMMA InSyncSolves ==
  ASSUME NEW lock, NEW m, LockSound(lock), InSyncWith(lock, m)
  PROVE  lock.vers \in Solutions(m)
  BY SolutionsOfInputs DEF LockSound, InSyncWith

(* A lock that was just solved is sound and in sync. *)
LEMMA SolvedInSync ==
  ASSUME NEW m, NEW s \in Solutions(m)
  PROVE  LockSound(LockOf(s, m)) /\ InSyncWith(LockOf(s, m), m)
<1>1. /\ LockOf(s, m).vers = s /\ LockOf(s, m).digest = HashInputs(m) /\ LockOf(s, m).is = "lock"
  BY DEF LockOf
<1> QED BY <1>1, SolutionsOfInputs DEF LockSound, InSyncWith

(* Whether a lock is in sync depends on the imports, the rules and what is *)
(* required.                                                               *)
LEMMA SameInputs ==
  ASSUME NEW m, NEW n, m.imports = n.imports, m.cons = n.cons, m.req = n.req
  PROVE  HashInputs(m) = HashInputs(n) /\ Solutions(m) = Solutions(n) /\ Packages(m) = Packages(n)
  BY DEF HashInputs, Solutions, Packages, Needed

(* A disk that differs in one field only is as it was in the others. *)
Same(fields) == DOMAIN disk' = DOMAIN disk /\ \A f \in fields : disk'[f] = disk[f]

(* The fields of the project on disk after some of them are written. *)
LEMMA DiskWritten ==
  ASSUME Shapes, NEW x, NEW y, NEW z, NEW w
  PROVE  /\ disk' = [disk EXCEPT !.lock = x] => disk'.lock = x /\ Same(Fields \ {"lock"})
         /\ disk' = [disk EXCEPT !.vendor = x] => disk'.vendor = x /\ Same(Fields \ {"vendor"})
         /\ disk' = [disk EXCEPT !.cons = x] => disk'.cons = x /\ Same(Fields \ {"cons"})
         /\ disk' = [disk EXCEPT !.imports = x] => disk'.imports = x /\ Same(Fields \ {"imports"})
         /\ disk' = [disk EXCEPT !.vendorbak = x] => disk'.vendorbak = x /\ Same(Fields \ {"vendorbak"})
         /\ disk' = [disk EXCEPT !.vendor = x, !.vendorbak = y] =>
              disk'.vendor = x /\ Same(Fields \ {"vendor", "vendorbak"})
         /\ disk' = [disk EXCEPT !.lock = x, !.vendor = y, !.vendorbak = z, !.cons = w] =>
              disk'.lock = x /\ disk'.vendor = y /\ Same({"imports", "req"})
<1> USE DEF Shapes, Same, Fields
<1>1. disk' = [disk EXCEPT !.lock = x] => disk'.lock = x /\ Same(Fields \ {"lock"})
  OBVIOUS
<1>2. disk' = [disk EXCEPT !.vendor = x] => disk'.vendor = x /\ Same(Fields \ {"vendor"})
  OBVIOUS
<1>3. disk' = [disk EXCEPT !.cons = x] => disk'.cons = x /\ Same(Fields \ {"cons"})
  OBVIOUS
<1>4. disk' = [disk EXCEPT !.imports = x] => disk'.imports = x /\ Same(Fields \ {"imports"})
  OBVIOUS
<1>5. disk' = [disk EXCEPT !.vendorbak = x] => disk'.vendorbak = x /\ Same(Fields \ {"vendorbak"})
  OBVIOUS
<1>6. disk' = [disk EXCEPT !.vendor = x, !.vendorbak = y] =>
        disk'.vendor = x /\ Same(Fields \ {"vendor", "vendorbak"})
  OBVIOUS
<1>7. disk' = [disk EXCEPT !.lock = x, !.vendor = y, !.vendorbak = z, !.cons = w] =>
        disk'.lock = x /\ disk'.vendor = y /\ Same({"imports", "req"})
  OBVIOUS
<1> QED BY <1>1, <1>2, <1>3, <1>4, <1>5, <1>6, <1>7

(* What is left of a lock by a copy that was cut short is never in sync. *)
LEMMA CutsSound ==
  ASSUME NEW l, NEW x \in Cuts(l) \cup {NoLock}
  PROVE  LockSound(x)
<1>1. NoLock.is = "nil" /\ Torn.is = "torn"
  BY DEF NoLock, Torn
<1>2. \A v : [NoLock EXCEPT !.is = "cut", !.vers = v].is = "cut"
  BY DEF NoLock
<1>3. x.is \in {"nil", "torn", "cut"}
  BY <1>1, <1>2 DEF Cuts
<1> QED BY <1>3 DEF LockSound

(* A project without the fields of the one on disk that it does not load.  *)
LEMMA LoadedFields ==
  /\ DOMAIN Loaded(disk) = {"imports", "cons", "req", "lock"}
  /\ Loaded(disk).imports = disk.imports /\ Loaded(disk).cons = disk.cons
  /\ Loaded(disk).req = disk.req /\ Loaded(disk).lock = disk.lock
  /\ DOMAIN NoProject = {"imports", "cons", "req", "lock"} /\ NoProject.lock = NoLock
  BY DEF Loaded, NoProject

LEMMA NothingIsFunction == <<>> = [r \in DOMAIN <<>> |-> <<>>[r]]
  OBVIOUS

-----------------------------------------------------------------------------
LEMMA EnsureInit == Init => EnsureInv
<1> SUFFICES ASSUME Init PROVE EnsureInv
  OBVIOUS
<1>1. DOMAIN disk = Fields /\ disk.lock = NoLock
  BY DEF Init, Fields
<1>2. Shapes
  BY <1>1, LoadedFields DEF Init, Shapes
<1>3. LocksInv
  BY <1>1, LoadedFields, CutsSound DEF Init, LocksInv, Solved, Moved
<1>4. TreeInv
  BY NothingIsFunction DEF Init, NoTree, TreeInv
<1> QED BY <1>2, <1>3, <1>4
        DEF Init, EnsureInv, LoadedInv, AddInv, EndInv, EnsureGetsInSync, AddTakesEffect, Succeeded,
            Solved, Moved, Restoring, Fields

(* A command that ends leaves nothing but the project on disk, which must  *)
(* be as promised when it succeeds.                                        *)
LEMMA EndKeeps ==
  ASSUME NEW res, End(res), DOMAIN disk' = Fields,
         LockSound(disk'.lock), TreeInv, tree' = tree \/ tree' = <<>>,
         res = "ok" => EnsureGetsInSync' /\ AddTakesEffect'
  PROVE  EnsureInv'
<1>1. pc' = "idle" /\ result' = res /\ p' = NoProject
  BY DEF End
<1>2. Shapes' /\ LocksInv'
  BY <1>1, LoadedFields, CutsSound DEF Shapes, LocksInv, Solved, Moved
<1>3. TreeInv'
  BY <1>1, NothingIsFunction DEF TreeInv
<1>4. LoadedInv' /\ AddInv'
  BY <1>1 DEF LoadedInv, AddInv, Solved, Moved, Restoring
<1>5. EndInv'
  BY <1>1 DEF EndInv, EnsureGetsInSync, AddTakesEffect, Succeeded
<1> QED BY <1>2, <1>3, <1>4, <1>5 DEF EnsureInv

(* A command that fails, and leaves the lock on disk or one that is sound. *)
LEMMA FailureKeeps ==
  ASSUME EnsureInv, NEW res, res # "ok", End(res), DOMAIN disk' = DOMAIN disk,
         disk'.lock = disk.lock \/ LockSound(disk'.lock), tree' = tree \/ tree' = <<>>
  PROVE  EnsureInv'
<1>1. Shapes /\ LocksInv /\ TreeInv
  BY DEF EnsureInv
<1>2. DOMAIN disk' = Fields
  BY <1>1 DEF Shapes
<1>3. LockSound(disk'.lock)
  BY <1>1 DEF LocksInv
<1> QED BY <1>1, <1>2, <1>3, EndKeeps

-----------------------------------------------------------------------------
(* Edit, Run, Invalid and Crash *)

LEMMA EditKeeps ==
  ASSUME EnsureInv, Edit
  PROVE  EnsureInv'
<1>1. Shapes /\ LocksInv /\ TreeInv
  BY DEF EnsureInv
<1>2. PICK x : disk' = [disk EXCEPT !.imports = x] \/ disk' = [disk EXCEPT !.lock = NoLock]
  BY DEF Edit
<1>3. pc = "idle" /\ pc' = "idle" /\ result' = "edited" /\ UNCHANGED <<p, new, tree, writer>>
  BY DEF Edit, treeVars
<1>4. DOMAIN disk' = DOMAIN disk /\ disk'.lock \in {disk.lock, NoLock}
  BY <1>1, <1>2, DiskWritten DEF Same, Fields
<1>5. Shapes' /\ LocksInv' /\ TreeInv'
  BY <1>1, <1>3, <1>4, CutsSound DEF Shapes, LocksInv, TreeInv, Solved, Moved
<1>6. LoadedInv' /\ AddInv' /\ EndInv'
  BY <1>3 DEF LoadedInv, AddInv, EndInv, EnsureGetsInSync, AddTakesEffect, Succeeded, Solved, Moved, Restoring
<1> QED BY <1>5, <1>6 DEF EnsureInv

LEMMA RunKeeps ==
  ASSUME EnsureInv, NEW c, Run(c)
  PROVE  EnsureInv'
<1>1. Shapes /\ LocksInv /\ TreeInv
  BY DEF EnsureInv
<1>2. /\ UNCHANGED <<disk, tree>> /\ DOMAIN instrs' = {}
      /\ \/ pc' = "loaded" /\ p' = Loaded(disk) /\ result' = "running"
         \/ pc' = "idle" /\ p' = NoProject /\ result' = "error"
  BY DEF Run, treeVars
<1>3. Shapes' /\ LocksInv'
  BY <1>1, <1>2, LoadedFields, CutsSound DEF Shapes, LocksInv, Solved, Moved
<1>4. TreeInv'
  BY <1>1, <1>2 DEF TreeInv
<1>5. LoadedInv'
  BY <1>2, LoadedFields DEF LoadedInv, Moved, Restoring
<1>6. AddInv' /\ EndInv'
  BY <1>2 DEF AddInv, EndInv, EnsureGetsInSync, AddTakesEffect, Succeeded, Solved, Moved
<1> QED BY <1>3, <1>4, <1>5, <1>6 DEF EnsureInv

LEMMA CrashKeeps ==
  ASSUME EnsureInv, Crash
  PROVE  EnsureInv'
<1>1. Shapes
  BY DEF EnsureInv
<1>2. PICK l, v, some :
        /\ l \in {disk.lock, NoLock} \cup Cuts(new) \cup Cuts(p.lock)
        /\ disk' = [disk EXCEPT !.lock = l, !.vendor = v, !.vendorbak = <<>>, !.cons = Appended(some)]
  BY DEF Crash, LocksLeft
<1>3. DOMAIN disk' = DOMAIN disk /\ disk'.lock = l
  BY <1>1, <1>2, DiskWritten, Zenon DEF Same
<1>4. disk'.lock = disk.lock \/ LockSound(disk'.lock)
  BY <1>2, <1>3, CutsSound
<1> QED BY <1>3, <1>4, FailureKeeps DEF Crash

-----------------------------------------------------------------------------
(* From the mode to the solver *)

(* What was promised of the command before does not matter while one runs. *)
LEMMA NothingPromised ==
  ASSUME NEW at, at # "idle", pc' = at
  PROVE  EnsureGetsInSync' /\ AddTakesEffect'
  BY DEF EnsureGetsInSync, AddTakesEffect, Succeeded

(* The writer is given a lock that is sound and, but for -vendor-only, for *)
(* this project.                                                           *)
LEMMA WritingKeeps ==
  ASSUME EnsureInv, NEW l, Writing(l), pc \in {"loaded", "solve"}, cmd.mode = "add" => pc = "solve",
         LockSound(l), cmd.mode # "vendor-only" => InSyncWith(l, p),
         UNCHANGED <<disk, cmd, p, todo, errs, instrs, treeVars>>
  PROVE  EnsureInv'
<1>1. Shapes /\ LoadedInv /\ LocksInv /\ TreeInv /\ AddInv
  BY DEF EnsureInv
<1>2. new' = l /\ pc' \in {"print", "write"} /\ (pc' = "print" => cmd.dryRun)
  BY DEF Writing
<1>3. Shapes'
  BY <1>1 DEF Shapes
<1>4. LoadedInv'
  BY <1>1, <1>2 DEF LoadedInv, Moved, Restoring
<1>5. LocksInv'
  BY <1>1, <1>2 DEF LocksInv, InSyncWith, HashInputs, Packages, Needed
<1>6. TreeInv'
  BY <1>1, <1>2 DEF TreeInv, treeVars
<1>7. AddInv'
  BY <1>1, <1>2 DEF AddInv, ArgDone, InstrRight, Ruled, Solved, Moved
<1>8. EndInv'
  BY <1>2, NothingPromised DEF EndInv
<1> QED BY <1>3, <1>4, <1>5, <1>6, <1>7, <1>8 DEF EnsureInv

(* The solver is called for the project as it was loaded. *)
LEMMA ToSolveKeeps ==
  ASSUME EnsureInv, pc = "loaded", pc' = "solve", cmd.mode # "add",
         UNCHANGED <<disk, cmd, p, todo, errs, instrs, new, treeVars>>
  PROVE  EnsureInv'
<1>1. Shapes /\ LoadedInv /\ LocksInv /\ TreeInv
  BY DEF EnsureInv
<1>2. Shapes' /\ LoadedInv' /\ AddInv'
  BY <1>1 DEF Shapes, LoadedInv, AddInv, Solved, Moved, Restoring
<1>3. LocksInv' /\ TreeInv'
  BY <1>1 DEF LocksInv, TreeInv, treeVars, Solved, Moved
<1>4. EndInv'
  BY NothingPromised DEF EndInv
<1> QED BY <1>2, <1>3, <1>4 DEF EnsureInv

LEMMA runDefaultKeeps ==
  ASSUME EnsureInv, runDefault
  PROVE  EnsureInv'
<1>1. Shapes /\ LoadedInv /\ LocksInv /\ TreeInv
  BY DEF EnsureInv
<1>2. pc = "loaded" /\ cmd.mode = "default" /\ UNCHANGED <<disk, treeVars>> /\ tree' = tree
  BY DEF runDefault, Stay, treeVars
<1>3. CASE InSyncWith(p.lock, p) /\ cmd.noVendor /\ End("ok")
  <2>1. cmd' = cmd /\ pc' = "idle"
    BY <1>3 DEF End
  <2>2. EnsureGetsInSync' /\ AddTakesEffect'
    BY <1>2, <1>3, <2>1 DEF EnsureGetsInSync, AddTakesEffect, Succeeded
  <2> QED BY <1>1, <1>2, <1>3, <2>2, EndKeeps DEF Shapes, LocksInv
<1>4. CASE InSyncWith(p.lock, p) /\ Writing(p.lock) /\ UNCHANGED <<cmd, p, todo, errs, instrs>>
  BY <1>1, <1>2, <1>4, WritingKeeps DEF LocksInv
<1>5. CASE End("error")
  BY <1>2, <1>5, FailureKeeps
<1>6. CASE pc' = "solve" /\ UNCHANGED <<cmd, p, todo, errs, instrs, new>>
  BY <1>2, <1>6, ToSolveKeeps
<1> QED BY <1>3, <1>4, <1>5, <1>6 DEF runDefault

LEMMA runVendorOnlyKeeps ==
  ASSUME EnsureInv, runVendorOnly
  PROVE  EnsureInv'
<1>1. LocksInv /\ UNCHANGED <<disk, treeVars>> /\ tree' = tree /\ pc = "loaded" /\ cmd.mode = "vendor-only"
  BY DEF EnsureInv, runVendorOnly, Stay, treeVars
<1>2. CASE End("error")
  BY <1>1, <1>2, FailureKeeps
<1>3. CASE Writing(p.lock) /\ UNCHANGED <<cmd, p, todo, errs, instrs>>
  BY <1>1, <1>3, WritingKeeps DEF LocksInv
<1> QED BY <1>2, <1>3 DEF runVendorOnly

LEMMA runUpdateKeeps ==
  ASSUME EnsureInv, runUpdate
  PROVE  EnsureInv'
<1>1. UNCHANGED <<disk, treeVars>> /\ tree' = tree /\ pc = "loaded" /\ cmd.mode = "update"
  BY DEF runUpdate, Stay, treeVars
<1> QED BY <1>1, FailureKeeps, ToSolveKeeps DEF runUpdate

LEMMA SolveKeeps ==
  ASSUME EnsureInv, Solve
  PROVE  EnsureInv'
<1>1. UNCHANGED <<disk, treeVars>> /\ tree' = tree /\ pc = "solve"
  BY DEF Solve, treeVars
<1>2. CASE End("error")
  BY <1>1, <1>2, FailureKeeps
<1>3. ASSUME NEW s \in Solutions(p), Writing(LockOf(s, p)), UNCHANGED <<cmd, p, todo, errs, instrs>>
      PROVE  EnsureInv'
  BY <1>1, <1>3, SolvedInSync, WritingKeeps
<1> QED BY <1>2, <1>3 DEF Solve

LEMMA PrintKeeps ==
  ASSUME EnsureInv, PrintPreparedActions
  PROVE  EnsureInv'
<1>1. Shapes /\ LocksInv /\ TreeInv /\ EndInv
  BY DEF EnsureInv
<1>2. /\ pc = "print" /\ pc' = "idle" /\ cmd' = cmd /\ UNCHANGED disk /\ tree' = tree /\ End("ok")
  BY DEF PrintPreparedActions, End, Stay, treeVars
<1>3. EnsureGetsInSync' /\ AddTakesEffect'
  BY <1>1, <1>2 DEF EndInv, EnsureGetsInSync, AddTakesEffect, Succeeded
<1> QED BY <1>1, <1>2, <1>3, EndKeeps DEF Shapes, LocksInv

-----------------------------------------------------------------------------
(* The arguments of -add *)

LEMMA runAddKeeps ==
  ASSUME EnsureInv, runAdd
  PROVE  EnsureInv'
<1>1. Shapes /\ LoadedInv /\ LocksInv /\ TreeInv /\ AddInv
  BY DEF EnsureInv
<1>2. UNCHANGED <<disk, treeVars>> /\ tree' = tree /\ pc = "loaded" /\ cmd.mode = "add"
  BY DEF runAdd, Stay, treeVars
<1>3. CASE End("error")
  BY <1>2, <1>3, FailureKeeps
<1>4. CASE pc' = "args" /\ todo' = cmd.args /\ UNCHANGED <<cmd, p, errs, instrs, new, result>>
  <2>1. Shapes' /\ LoadedInv' /\ LocksInv' /\ TreeInv'
    BY <1>1, <1>2, <1>4 DEF Shapes, LoadedInv, LocksInv, TreeInv, treeVars, Solved, Moved, Restoring
  <2>2. EndInv'
    BY <1>4, NothingPromised DEF EndInv
  <2>3. cmd'.args \ todo' = {} /\ DOMAIN instrs' = {}
    BY <1>1, <1>2, <1>4 DEF AddInv
  <2>4. AddInv'
    BY <1>2, <1>4, <2>3 DEF AddInv, Solved, Moved
  <2> QED BY <2>1, <2>2, <2>4 DEF EnsureInv
<1> QED BY <1>3, <1>4 DEF runAdd

(* What an argument that is not rejected leaves in the instruction of its  *)
(* project, and in the others.                                             *)
LEMMA InstructionAdded ==
  ASSUME NEW a, AddInstruction(a)
  PROVE  /\ DOMAIN instrs' = DOMAIN instrs \cup {a.path[1]}
         /\ \A r \in DOMAIN instrs : r # a.path[1] => instrs'[r] = instrs[r]
         /\ instrs'[a.path[1]].con = IF SomeConstraint(a) THEN a.con ELSE Instr(a.path[1]).con
         /\ instrs'[a.path[1]].source = IF SomeConstraint(a) THEN a.source ELSE Instr(a.path[1]).source
         /\ Instr(a.path[1]).ephReq \subseteq instrs'[a.path[1]].ephReq
         /\ Requires(a) => a.path \in instrs'[a.path[1]].ephReq
         /\ instrs'[a.path[1]].typ = Instr(a.path[1]).typ \cup {Kind(a)}
<1> DEFINE r0 == a.path[1]
           i == Instr(r0)
           rules == IF SomeConstraint(a) THEN a ELSE i
           k == Kind(a)
           e == IF Requires(a) THEN {a.path} ELSE {}
           j == [con |-> rules.con, source |-> rules.source, ephReq |-> i.ephReq \cup e,
                 typ |-> i.typ \cup {k}]
<1>1. instrs' = [r \in DOMAIN instrs \cup {r0} |-> IF r = r0 THEN j ELSE instrs[r]]
  BY DEF AddInstruction
<1>2. /\ j.con = rules.con /\ j.source = rules.source
      /\ j.ephReq = i.ephReq \cup e /\ j.typ = i.typ \cup {k}
  OBVIOUS
<1> HIDE DEF j
<1>3. /\ DOMAIN instrs' = DOMAIN instrs \cup {r0} /\ instrs'[r0] = j
      /\ \A r \in DOMAIN instrs : r # r0 => instrs'[r] = instrs[r]
  BY <1>1
<1>4. /\ j.con = IF SomeConstraint(a) THEN a.con ELSE i.con
      /\ j.source = IF SomeConstraint(a) THEN a.source ELSE i.source
  BY <1>2
<1> HIDE DEF i, k
<1>5. i.ephReq \subseteq j.ephReq /\ (Requires(a) => a.path \in j.ephReq)
  BY <1>2
<1> QED BY <1>2, <1>3, <1>4, <1>5 DEF i, k

(* The kind of an addition, for the manifest as it is on disk. *)
LEMMA KindRight ==
  ASSUME NEW a, p.cons = disk.cons, Packages(p) = Packages(disk)
  PROVE  /\ Kind(a) = "isInManifest" <=> a.path[1] \in DOMAIN disk.cons
         /\ a.path[1] \in DOMAIN disk.cons => Kind(a) \notin Ruling
         /\ a.path[1] \notin DOMAIN disk.cons /\ SomeConstraint(a) => Kind(a) \in Ruling
         /\ Requires(a) \/ <<a.path[1], "root">> \in Packages(disk)
  BY DEF Kind, Ruling, Requires

(* At the arguments the project in memory is the one on disk. *)
LEMMA ArgsLoaded ==
  ASSUME EnsureInv, pc = "args"
  PROVE  /\ p.imports = disk.imports /\ p.cons = disk.cons /\ p.req = disk.req
         /\ p.lock = disk.lock /\ Packages(p) = Packages(disk) /\ cmd.mode = "add"
<1>1. p.imports = disk.imports /\ p.cons = disk.cons /\ p.req = disk.req /\ p.lock = disk.lock
  BY DEF EnsureInv, LoadedInv, Moved, Restoring
<1>2. Packages(p) = Packages(disk)
  BY <1>1, SameInputs
<1> QED BY <1>1, <1>2 DEF EnsureInv, AddInv

(* An argument keeps what the others of its project have left: only one of *)
(* them declares rules.                                                    *)
LEMMA AddInstructionKeeps ==
  ASSUME EnsureInv, NEW a \in todo, pc = "args", ~Rejected(a), AddInstruction(a),
         UNCHANGED <<disk, p>>
  PROVE  /\ ArgDone(a)'
         /\ ~errs => \A x \in cmd.args \ todo : ArgDone(x)'
         /\ \A r \in DOMAIN instrs' : InstrRight(r)'
<1> DEFINE r0 == a.path[1]
<1>1. /\ p.cons = disk.cons /\ Packages(p) = Packages(disk)
      /\ disk' = disk /\ Packages(disk)' = Packages(disk)
  BY ArgsLoaded DEF Packages
<1>2. /\ ~errs => \A x \in cmd.args \ todo : ArgDone(x)
      /\ \A r \in DOMAIN instrs : InstrRight(r)
  BY ArgsLoaded DEF EnsureInv, AddInv
<1>3. /\ ~(SomeConstraint(a) /\ SomeConstraint(Instr(r0)))
      /\ SomeConstraint(a) => r0 \notin DOMAIN disk.cons
  BY <1>1 DEF Rejected, Agrees
<1>4. /\ DOMAIN instrs' = DOMAIN instrs \cup {r0}
      /\ \A r \in DOMAIN instrs : r # r0 => instrs'[r] = instrs[r]
      /\ instrs'[r0].con = IF SomeConstraint(a) THEN a.con ELSE Instr(r0).con
      /\ instrs'[r0].source = IF SomeConstraint(a) THEN a.source ELSE Instr(r0).source
      /\ Instr(r0).ephReq \subseteq instrs'[r0].ephReq
      /\ Requires(a) => a.path \in instrs'[r0].ephReq
      /\ instrs'[r0].typ = Instr(r0).typ \cup {Kind(a)}
  BY InstructionAdded
<1>5. /\ Kind(a) = "isInManifest" <=> r0 \in DOMAIN disk.cons
      /\ r0 \in DOMAIN disk.cons => Kind(a) \notin Ruling
      /\ r0 \notin DOMAIN disk.cons /\ SomeConstraint(a) => Kind(a) \in Ruling
      /\ Requires(a) \/ <<r0, "root">> \in Packages(disk)
  BY <1>1, KindRight
<1>6. Instr(r0) = IF r0 \in DOMAIN instrs THEN instrs[r0] ELSE NoInstr
  BY DEF Instr
<1> HIDE DEF r0
<1>7. ArgDone(a)'
  <2>1. r0 \in DOMAIN instrs' /\ r0 = a.path[1]
    BY <1>4 DEF r0
  <2>2. SomeConstraint(a) => instrs'[r0].con = a.con /\ instrs'[r0].source = a.source
    BY <1>4
  <2>3. a.path \in instrs'[r0].ephReq \/ <<r0, "root">> \in Packages(disk)
    BY <1>4, <1>5
  <2> QED BY <1>1, <1>3, <2>1, <2>2, <2>3 DEF ArgDone
<1>8. ASSUME ~errs, NEW x \in cmd.args \ todo
      PROVE  ArgDone(x)'
  <2>1. ArgDone(x)
    BY <1>2, <1>8
  <2>2. CASE x.path[1] # r0
    BY <1>1, <1>4, <2>1, <2>2 DEF ArgDone
  <2>3. CASE x.path[1] = r0
    <3>1. /\ r0 \in DOMAIN instrs
          /\ SomeConstraint(x) => /\ instrs[r0].con = x.con /\ instrs[r0].source = x.source
                                  /\ r0 \notin DOMAIN disk.cons
          /\ x.path \in instrs[r0].ephReq \/ <<r0, "root">> \in Packages(disk)
      BY <2>1, <2>3 DEF ArgDone
    <3>2. SomeConstraint(x) => ~SomeConstraint(a)
      BY <1>3, <1>6, <3>1 DEF SomeConstraint
    <3>3. SomeConstraint(x) => instrs'[r0].con = x.con /\ instrs'[r0].source = x.source
      BY <1>4, <1>6, <3>1, <3>2
    <3>4. x.path \in instrs'[r0].ephReq \/ <<r0, "root">> \in Packages(disk)
      BY <1>4, <1>6, <3>1
    <3> QED BY <1>1, <1>4, <2>3, <3>1, <3>3, <3>4 DEF ArgDone
  <2> QED BY <2>2, <2>3
<1>9. ASSUME NEW r \in DOMAIN instrs'
      PROVE  InstrRight(r)'
  <2>1. CASE r # r0
    BY <1>1, <1>2, <1>4, <1>9, <2>1 DEF InstrRight, SomeConstraint
  <2>2. CASE r = r0
    <3>1. r0 \notin DOMAIN instrs => Instr(r0).typ = {} /\ ~SomeConstraint(Instr(r0))
      BY <1>6 DEF NoInstr, SomeConstraint
    <3>2. r0 \in DOMAIN instrs =>
            /\ "isInManifest" \in Instr(r0).typ <=> r0 \in DOMAIN disk.cons
            /\ r0 \in DOMAIN disk.cons => Instr(r0).typ \cap Ruling = {}
            /\ SomeConstraint(Instr(r0)) => Instr(r0).typ \cap Ruling # {}
      BY <1>2, <1>6 DEF InstrRight
    <3>3. "isInManifest" \in instrs'[r0].typ <=> r0 \in DOMAIN disk.cons
      BY <1>4, <1>5, <3>1, <3>2
    <3>4. r0 \in DOMAIN disk.cons => instrs'[r0].typ \cap Ruling = {}
      BY <1>4, <1>5, <3>1, <3>2
    <3>5. SomeConstraint(instrs'[r0]) => instrs'[r0].typ \cap Ruling # {}
      <4>1. CASE SomeConstraint(a)
        BY <1>3, <1>4, <1>5, <4>1
      <4>2. CASE ~SomeConstraint(a)
        BY <1>4, <3>1, <3>2, <4>2 DEF SomeConstraint
      <4> QED BY <4>1, <4>2
    <3> QED BY <1>1, <2>2, <3>3, <3>4, <3>5 DEF InstrRight, SomeConstraint
  <2> QED BY <2>1, <2>2
<1> QED BY <1>7, <1>8, <1>9

LEMMA AddArgKeeps ==
  ASSUME EnsureInv, NEW a \in todo, AddArg(a)
  PROVE  EnsureInv'
<1>1. Shapes /\ LoadedInv /\ LocksInv /\ TreeInv /\ AddInv
  BY DEF EnsureInv
<1>2. /\ pc = "args" /\ pc' = "args" /\ todo' = todo \ {a} /\ cmd.mode = "add"
      /\ UNCHANGED <<disk, cmd, p, new, writer, canceled, tree>>
  BY ArgsLoaded DEF AddArg, treeVars
<1>3. Shapes' /\ LoadedInv' /\ LocksInv' /\ TreeInv'
  BY <1>1, <1>2 DEF Shapes, LoadedInv, LocksInv, TreeInv, Solved, Moved, Restoring
<1>4. EndInv'
  BY <1>2, NothingPromised DEF EndInv
<1>5. todo \subseteq cmd.args /\ \A r \in DOMAIN instrs : InstrRight(r)
  BY <1>1, <1>2 DEF AddInv
<1>6. CASE ~Rejected(a) /\ AddInstruction(a) /\ UNCHANGED errs
  <2>1. /\ ~errs' => \A x \in cmd'.args \ todo' : ArgDone(x)'
        /\ \A r \in DOMAIN instrs' : InstrRight(r)'
    BY <1>2, <1>6, AddInstructionKeeps
  <2> QED BY <1>2, <1>3, <1>4, <1>5, <2>1 DEF EnsureInv, AddInv, Solved, Moved
<1>7. CASE errs' = TRUE /\ UNCHANGED instrs
  <2>1. \A r \in DOMAIN instrs' : InstrRight(r)'
    BY <1>2, <1>5, <1>7 DEF InstrRight
  <2> QED BY <1>2, <1>3, <1>4, <1>5, <1>7, <2>1 DEF EnsureInv, AddInv, Solved, Moved
<1> QED BY <1>6, <1>7 DEF AddArg

LEMMA ArgsKeeps ==
  ASSUME EnsureInv, Args
  PROVE  EnsureInv'
<1>1. Shapes /\ LoadedInv /\ LocksInv /\ TreeInv /\ AddInv
  BY DEF EnsureInv
<1>2. /\ pc = "args" /\ todo = {} /\ UNCHANGED <<disk, treeVars>> /\ tree' = tree /\ cmd.mode = "add"
      /\ p.cons = disk.cons /\ p.req = disk.req /\ p.imports = disk.imports /\ p.lock = disk.lock
  BY ArgsLoaded DEF Args, Stay, treeVars
<1>3. CASE End("error")
  BY <1>2, <1>3, FailureKeeps
<1>4. CASE ~errs /\ ~End("error")
  <2> DEFINE q == p.req \cup UNION {instrs[r].ephReq : r \in DOMAIN instrs}
             c == [r \in DOMAIN p.cons \cup Ruled |->
                     IF r \in Ruled THEN [con |-> instrs[r].con, source |-> instrs[r].source]
                     ELSE p.cons[r]]
  <2>1. p' = [p EXCEPT !.req = q, !.cons = c]
    BY <1>4 DEF Args
  <2>2. pc' = "solve" /\ UNCHANGED <<cmd, todo, errs, instrs, new>>
    BY <1>4 DEF Args
  <2> HIDE DEF q, c
  <2>3. /\ p'.req = q /\ p'.cons = c /\ p'.imports = p.imports /\ p'.lock = p.lock
        /\ DOMAIN p' = DOMAIN p
    BY <1>1, <2>1 DEF Shapes
  <2>4. Shapes' /\ LoadedInv' /\ LocksInv'
    BY <1>1, <1>2, <2>2, <2>3 DEF Shapes, LoadedInv, LocksInv, Solved, Moved, Restoring
  <2>5. TreeInv'
    BY <1>1, <1>2, <2>2 DEF TreeInv, treeVars
  <2>6. EndInv'
    BY <2>2, NothingPromised DEF EndInv
  <2>7. /\ q = disk.req \cup UNION {instrs[r].ephReq : r \in DOMAIN instrs}
        /\ c = [r \in DOMAIN disk.cons \cup Ruled |->
                  IF r \in Ruled THEN [con |-> instrs[r].con, source |-> instrs[r].source]
                  ELSE disk.cons[r]]
    BY <1>2 DEF q, c
  <2>8. Ruled' = Ruled /\ \A x : (ArgDone(x)' <=> ArgDone(x)) /\ (InstrRight(x)' <=> InstrRight(x))
    BY <1>2, <2>2 DEF Ruled, ArgDone, InstrRight, Packages
  <2>9. AddInv'
    BY <1>1, <1>2, <1>4, <2>2, <2>3, <2>7, <2>8 DEF AddInv, Solved, Moved
  <2> QED BY <2>4, <2>5, <2>6, <2>9 DEF EnsureInv
<1> QED BY <1>3, <1>4 DEF Args

LEMMA InvalidKeeps ==
  ASSUME EnsureInv, Invalid
  PROVE  EnsureInv'
<1>1. UNCHANGED disk /\ tree' = tree /\ End("error")
  BY DEF Invalid, treeVars
<1> QED BY <1>1, FailureKeeps

-----------------------------------------------------------------------------
(* Writing *)

(* What is said of the instructions depends on the manifest and imports. *)
LEMMA AddInvKept ==
  ASSUME AddInv, pc \in Solved, pc' \in Solved,
         disk'.imports = disk.imports, disk'.cons = disk.cons, disk'.req = disk.req,
         UNCHANGED <<cmd, p, todo, errs, instrs>>
  PROVE  AddInv'
<1>1. Ruled' = Ruled /\ \A x : (ArgDone(x)' <=> ArgDone(x)) /\ (InstrRight(x)' <=> InstrRight(x))
  BY DEF Ruled, ArgDone, InstrRight, Packages
<1> QED BY <1>1 DEF AddInv, Solved, Moved

(* Whether vendor/ is written is settled when the writer is made. *)
LEMMA WriteVendorKept ==
  ASSUME UNCHANGED <<cmd, p, new>>
  PROVE  (WriteVendor(new)' <=> WriteVendor(new)) /\ (InSyncWith(new, p)' <=> InSyncWith(new, p))
  BY DEF WriteVendor, VendorAlways, VendorNever, InSyncWith, HashInputs, Packages, Needed

(* A step of the writer that leaves the project on disk as it is. *)
LEMMA WriterKeeps ==
  ASSUME EnsureInv, pc \in {"write", "tree"}, pc' \in {"tree", "moveLock"}, TreeInv',
         UNCHANGED <<disk, cmd, p, todo, errs, instrs, new>>
  PROVE  EnsureInv'
<1>1. Shapes /\ LoadedInv /\ LocksInv /\ AddInv
  BY DEF EnsureInv
<1>2. Shapes' /\ LoadedInv'
  BY <1>1 DEF Shapes, LoadedInv, Moved, Restoring
<1>3. LocksInv'
  BY <1>1, WriteVendorKept DEF LocksInv, Solved
<1>4. AddInv'
  BY <1>1, AddInvKept DEF Solved
<1>5. EndInv'
  BY NothingPromised DEF EndInv
<1> QED BY <1>2, <1>3, <1>4, <1>5 DEF EnsureInv

LEMMA WriteKeeps ==
  ASSUME EnsureInv, Write
  PROVE  EnsureInv'
<1>1. TreeInv /\ pc = "write" /\ UNCHANGED disk
  BY DEF EnsureInv, Write
<1>2. CASE End("error") /\ UNCHANGED treeVars
  BY <1>1, <1>2, FailureKeeps DEF treeVars
<1>3. CASE /\ UNCHANGED <<cmd, p, todo, errs, instrs, new>>
           /\ WriteVendor(new) /\ pc' = "tree" /\ Go(DOMAIN new.vers)
  <2>1. /\ writer' = [r \in DOMAIN new.vers |-> "queued"] /\ tree' = <<>>
    BY <1>3 DEF Go
  <2>2. TreeInv'
    BY <1>1, <1>3, <2>1, NothingIsFunction DEF TreeInv
  <2> QED BY <1>1, <1>3, <2>2, WriterKeeps
<1>4. CASE /\ UNCHANGED <<cmd, p, todo, errs, instrs, new>>
           /\ ~WriteVendor(new) /\ pc' = "moveLock" /\ UNCHANGED treeVars
  <2>1. TreeInv'
    BY <1>1, <1>4, WriteVendorKept DEF TreeInv, treeVars
  <2> QED BY <1>1, <1>4, <2>1, WriterKeeps
<1> QED BY <1>2, <1>3, <1>4 DEF Write

(* What is put into the tree. *)
LEMMA TreePut ==
  ASSUME NEW r, NEW e, Put(r, e)
  PROVE  /\ tree' = [x \in DOMAIN tree' |-> tree'[x]]
         /\ DOMAIN tree' = DOMAIN tree \cup {r} /\ tree'[r] = e
         /\ \A x \in DOMAIN tree : x # r => tree'[x] = tree[x]
  BY DEF Put

(* An entry of the tree that is marked as whole, or not. *)
LEMMA EntryMarked ==
  \A v : \A b, c \in BOOLEAN :
    [[version |-> v, whole |-> b] EXCEPT !.whole = c] = [version |-> v, whole |-> c]
  OBVIOUS

LEMMA TreeStepKeeps ==
  ASSUME EnsureInv, TreeStep
  PROVE  EnsureInv'
<1>1. TreeInv /\ pc = "tree" /\ UNCHANGED <<disk, pc, cmd, p, todo, errs, instrs, new>>
  BY DEF EnsureInv, TreeStep, cmdVars
<1>2. PICK r \in DOMAIN writer : Acquire(r) \/ Export(r, new.vers[r]) \/ PruneProject(r)
  BY DEF TreeStep
<1>3. /\ DOMAIN writer = DOMAIN new.vers /\ DOMAIN tree \subseteq DOMAIN new.vers
      /\ \A x \in DOMAIN writer :
           writer[x] \in {"pruning", "written"} =>
             x \in DOMAIN tree /\ tree[x] = [version |-> new.vers[x], whole |-> writer[x] = "written"]
  BY <1>1 DEF TreeInv
<1>4. ASSUME NEW at \in {"exporting", "failed"}, writer' = [writer EXCEPT ![r] = at], tree' = tree
      PROVE  TreeInv'
  <2>1. /\ DOMAIN writer' = DOMAIN writer /\ writer'[r] = at
        /\ \A x \in DOMAIN writer : x # r => writer'[x] = writer[x]
    BY <1>4
  <2> QED BY <1>1, <1>3, <1>4, <2>1 DEF TreeInv
<1>5. ASSUME NEW at \in {"pruning", "written", "failed"}, NEW e, Put(r, e),
             writer' = [writer EXCEPT ![r] = at],
             at # "failed" => e = [version |-> new.vers[r], whole |-> at = "written"]
      PROVE  TreeInv'
  <2>1. /\ DOMAIN writer' = DOMAIN writer /\ writer'[r] = at
        /\ \A x \in DOMAIN writer : x # r => writer'[x] = writer[x]
    BY <1>5
  <2>2. /\ tree' = [x \in DOMAIN tree' |-> tree'[x]]
        /\ DOMAIN tree' = DOMAIN tree \cup {r} /\ tree'[r] = e
        /\ \A x \in DOMAIN tree : x # r => tree'[x] = tree[x]
    BY <1>5, TreePut
  <2>3. DOMAIN writer' = DOMAIN new'.vers /\ DOMAIN tree' \subseteq DOMAIN new'.vers
    BY <1>1, <1>3, <2>1, <2>2
  <2>4. ASSUME NEW x \in DOMAIN writer', writer'[x] \in {"pruning", "written"}
        PROVE  x \in DOMAIN tree' /\ tree'[x] = [version |-> new'.vers[x], whole |-> writer'[x] = "written"]
    <3>1. CASE x = r
      BY <1>1, <1>5, <2>1, <2>2, <2>4, <3>1
    <3>2. CASE x # r
      BY <1>1, <1>3, <2>1, <2>2, <2>4, <3>2
    <3> QED BY <3>1, <3>2
  <2> QED BY <1>1, <2>2, <2>3, <2>4 DEF TreeInv
<1>6. TreeInv'
  <2>1. CASE Acquire(r)
    BY <1>4, <2>1 DEF Acquire
  <2>2. CASE Export(r, new.vers[r])
    <3>1. CASE Fail(r) /\ UNCHANGED tree
      BY <1>4, <3>1 DEF Fail
    <3>2. CASE /\ Put(r, [version |-> new.vers[r], whole |-> FALSE])
               /\ writer' = [writer EXCEPT ![r] = "pruning"]
      BY <1>5, <3>2
    <3> QED BY <2>2, <3>1, <3>2 DEF Export
  <2>3. CASE PruneProject(r)
    <3> DEFINE e == [tree[r] EXCEPT !.whole = TRUE]
    <3>1. e = [version |-> new.vers[r], whole |-> TRUE]
      <4>1. writer[r] = "pruning" /\ ("pruning" = "written") = FALSE
        BY <2>3 DEF PruneProject
      <4>2. tree[r] = [version |-> new.vers[r], whole |-> FALSE]
        BY <1>3, <4>1
      <4> QED BY <4>2, EntryMarked, Zenon
    <3>2. \/ Put(r, e) /\ Fail(r)
          \/ Put(r, e) /\ writer' = [writer EXCEPT ![r] = "written"]
          \/ Fail(r) /\ UNCHANGED tree
      BY <2>3 DEF PruneProject
    <3> HIDE DEF e
    <3>3. CASE Fail(r) /\ UNCHANGED tree
      BY <1>4, <3>3 DEF Fail
    <3>4. CASE Put(r, e) /\ Fail(r)
      BY <1>5, <3>4 DEF Fail
    <3>5. CASE Put(r, e) /\ writer' = [writer EXCEPT ![r] = "written"]
      BY <1>5, <3>1, <3>5
    <3> QED BY <3>2, <3>3, <3>4, <3>5
  <2> QED BY <1>2, <2>1, <2>2, <2>3
<1> QED BY <1>1, <1>6, WriterKeeps

LEMMA TreeDoneKeeps ==
  ASSUME EnsureInv, TreeDone
  PROVE  EnsureInv'
<1>1. TreeInv /\ pc = "tree" /\ UNCHANGED disk
  BY DEF EnsureInv, TreeDone
<1>2. CASE \E r \in DOMAIN writer : writer[r] = "failed"
  <2>1. End("error") /\ tree' = <<>>
    BY <1>2 DEF TreeDone
  <2> QED BY <1>1, <2>1, FailureKeeps
<1>3. CASE ~ \E r \in DOMAIN writer : writer[r] = "failed"
  <2>1. pc' = "moveLock" /\ tree' = tree /\ UNCHANGED <<cmd, p, todo, errs, instrs, new>>
    BY <1>3 DEF TreeDone
  <2>2. \A r \in DOMAIN writer : writer[r] = "written"
    BY <1>3 DEF TreeDone, Wait
  <2>3. /\ DOMAIN tree = DOMAIN new.vers
        /\ \A r \in DOMAIN new.vers : tree[r] = [version |-> new.vers[r], whole |-> TRUE]
    BY <1>1, <2>2 DEF TreeInv
  <2>4. tree = Whole(new.vers)
    <3>1. tree = [r \in DOMAIN tree |-> tree[r]]
      BY <1>1 DEF TreeInv
    <3> QED BY <2>3, <3>1 DEF Whole
  <2>5. TreeInv'
    BY <1>1, <2>1, <2>4 DEF TreeInv, Whole
  <2> QED BY <1>1, <2>1, <2>5, WriterKeeps
<1> QED BY <1>2, <1>3

(* A move that fails, or is undone, leaves a sound lock and the project. *)
LEMMA RollbackKeeps ==
  ASSUME EnsureInv, pc # "idle", cmd.mode # "add" \/ pc \notin {"loaded", "args"},
         pc' \in Restoring, LockSound(disk'.lock),
         DOMAIN disk' = DOMAIN disk, tree' = tree \/ tree' = <<>>,
         disk'.imports = disk.imports, disk'.cons = disk.cons, disk'.req = disk.req,
         UNCHANGED <<cmd, p, todo, errs, instrs, new, result>>
  PROVE  EnsureInv'
<1>1. Shapes /\ LoadedInv /\ LocksInv /\ TreeInv
  BY DEF EnsureInv
<1>2. Shapes' /\ LocksInv'
  BY <1>1 DEF Shapes, LocksInv, Solved, Moved, Restoring
<1>3. LoadedInv'
  BY <1>1 DEF LoadedInv, Moved, Restoring
<1>4. TreeInv'
  BY <1>1, NothingIsFunction DEF TreeInv, Restoring
<1>5. AddInv'
  BY DEF AddInv, Solved, Moved, Restoring
<1>6. EndInv'
  BY NothingPromised DEF EndInv, Restoring
<1> QED BY <1>2, <1>3, <1>4, <1>5, <1>6 DEF EnsureInv

LEMMA MoveLockKeeps ==
  ASSUME EnsureInv, MoveLock
  PROVE  EnsureInv'
<1>1. Shapes /\ LoadedInv /\ LocksInv /\ TreeInv /\ AddInv
  BY DEF EnsureInv
<1>2. pc = "moveLock" /\ UNCHANGED <<cmd, p, todo, errs, instrs, new, result, writer, canceled, tree>>
  BY DEF MoveLock, treeVars
<1>3. CASE /\ \E l \in {disk.lock, NoLock, new} \cup Cuts(new) : disk' = [disk EXCEPT !.lock = l]
           /\ pc' = "restoreLock"
  <2>1. PICK l \in {disk.lock, NoLock, new} \cup Cuts(new) : disk' = [disk EXCEPT !.lock = l]
    BY <1>3
  <2>2. disk'.lock = l /\ Same(Fields \ {"lock"})
    BY <1>1, <2>1, DiskWritten, Zenon
  <2>3. LockSound(disk'.lock)
    BY <1>1, <1>2, <2>1, <2>2, CutsSound DEF LocksInv, Solved
  <2> QED BY <1>2, <1>3, <2>2, <2>3, RollbackKeeps DEF Same, Fields, Restoring
<1>4. CASE /\ disk' = IF WriteLock(new) THEN [disk EXCEPT !.lock = new] ELSE disk
           /\ pc' = "moveVendor"
  <2>1. /\ DOMAIN disk' = DOMAIN disk /\ disk'.lock = new
        /\ disk'.imports = disk.imports /\ disk'.cons = disk.cons /\ disk'.req = disk.req
    <3>1. CASE WriteLock(new)
      <4>1. disk' = [disk EXCEPT !.lock = new]
        BY <1>4, <3>1
      <4>2. disk'.lock = new /\ Same(Fields \ {"lock"})
        BY <1>1, <4>1, DiskWritten, Zenon
      <4> QED BY <4>2 DEF Same, Fields
    <3>2. CASE ~WriteLock(new)
      BY <1>1, <1>2, <1>4, <3>2 DEF WriteLock, LoadedInv, Moved, Restoring
    <3> QED BY <3>1, <3>2
  <2>2. Shapes' /\ LoadedInv'
    BY <1>1, <1>2, <1>4, <2>1 DEF Shapes, LoadedInv, Moved, Restoring
  <2>3. LocksInv'
    BY <1>1, <1>2, <1>4, <2>1, WriteVendorKept DEF LocksInv, Solved
  <2>4. TreeInv'
    BY <1>1, <1>2, <1>4, WriteVendorKept DEF TreeInv, Whole
  <2>5. AddInv'
    BY <1>1, <1>2, <1>4, <2>1, AddInvKept DEF Solved, Moved
  <2>6. EndInv'
    BY <1>4, NothingPromised DEF EndInv
  <2> QED BY <2>2, <2>3, <2>4, <2>5, <2>6 DEF EnsureInv
<1> QED BY <1>3, <1>4 DEF MoveLock

(* Once the new lock is in, and vendor/ is when it must be, the project is *)
(* in sync.                                                                *)
LEMMA MovedInSync ==
  ASSUME EnsureInv, pc = "moveVendor", cmd.mode = "default", ~cmd.noVendor
  PROVE  /\ disk.lock = new /\ InSyncWith(new, disk) /\ new.vers \in Solutions(disk)
         /\ WriteVendor(new) /\ tree = Whole(new.vers)
<1>1. /\ disk.lock = new /\ p.imports = disk.imports /\ p.cons = disk.cons /\ p.req = disk.req
  BY DEF EnsureInv, LoadedInv, Moved, Restoring
<1>2. InSyncWith(new, p) /\ LockSound(new)
  BY DEF EnsureInv, LocksInv, Solved, Moved
<1>3. HashInputs(p) = HashInputs(disk)
  BY <1>1, SameInputs
<1>4. InSyncWith(new, disk)
  BY <1>2, <1>3 DEF InSyncWith
<1>5. WriteVendor(new)
  BY <1>2 DEF WriteVendor, VendorAlways, VendorNever
<1>6. tree = Whole(new.vers)
  BY <1>5 DEF EnsureInv, TreeInv
<1> QED BY <1>1, <1>2, <1>4, <1>5, <1>6, InSyncSolves

LEMMA MoveVendorKeeps ==
  ASSUME EnsureInv, MoveVendor
  PROVE  EnsureInv'
<1>1. Shapes /\ LoadedInv /\ LocksInv /\ TreeInv /\ AddInv
  BY DEF EnsureInv
<1>2. pc = "moveVendor" /\ tree' = <<>>
  BY DEF MoveVendor
<1>3. CASE /\ \E v, w : \/ disk' = [disk EXCEPT !.vendor = v]
                       \/ disk' = [disk EXCEPT !.vendor = v, !.vendorbak = w]
           /\ pc' = "restoreLock" /\ UNCHANGED <<cmd, p, todo, errs, instrs, new, result>>
  <2>1. Same(Fields \ {"vendor", "vendorbak"})
    <3>1. PICK v, w : \/ disk' = [disk EXCEPT !.vendor = v]
                      \/ disk' = [disk EXCEPT !.vendor = v, !.vendorbak = w]
      BY <1>3
    <3>2. Same(Fields \ {"vendor"}) \/ Same(Fields \ {"vendor", "vendorbak"})
      BY <1>1, <3>1, DiskWritten, Zenon
    <3> QED BY <3>2 DEF Same
  <2>2. LockSound(disk'.lock)
    BY <1>1, <2>1 DEF Same, Fields, LocksInv
  <2> QED BY <1>2, <1>3, <2>1, <2>2, RollbackKeeps DEF Same, Fields, Restoring
<1>4. CASE /\ disk' = IF WriteVendor(new) THEN [disk EXCEPT !.vendor = tree] ELSE disk
           /\ IF cmd.mode = "add"
              THEN pc' = "append" /\ UNCHANGED <<cmd, p, todo, errs, instrs, new, result>>
              ELSE End("ok")
  <2>1. /\ DOMAIN disk' = DOMAIN disk /\ disk'.lock = disk.lock
        /\ disk'.imports = disk.imports /\ disk'.cons = disk.cons /\ disk'.req = disk.req
        /\ WriteVendor(new) => disk'.vendor = tree
    <3>1. CASE WriteVendor(new)
      <4>1. disk' = [disk EXCEPT !.vendor = tree]
        BY <1>4, <3>1
      <4>2. disk'.vendor = tree /\ Same(Fields \ {"vendor"})
        BY <1>1, <4>1, DiskWritten, Zenon
      <4> QED BY <4>2 DEF Same, Fields
    <3>2. CASE ~WriteVendor(new)
      BY <1>4, <3>2
    <3> QED BY <3>1, <3>2
  <2>2. CASE cmd.mode = "add" /\ pc' = "append" /\ UNCHANGED <<cmd, p, todo, errs, instrs, new>>
    <3>1. Shapes' /\ LoadedInv'
      BY <1>1, <1>2, <2>1, <2>2 DEF Shapes, LoadedInv, Moved, Restoring
    <3>2. LocksInv'
      BY <1>1, <1>2, <2>1, <2>2, WriteVendorKept DEF LocksInv, Solved, Moved
    <3>3. TreeInv'
      BY <1>2, <2>2, NothingIsFunction DEF TreeInv
    <3>4. AddInv'
      BY <1>1, <1>2, <2>1, <2>2, AddInvKept DEF Solved, Moved
    <3>5. EndInv'
      BY <2>2, NothingPromised DEF EndInv
    <3> QED BY <3>1, <3>2, <3>3, <3>4, <3>5 DEF EnsureInv
  <2>3. CASE cmd.mode # "add" /\ End("ok")
    <3>1. cmd' = cmd
      BY <2>3 DEF End
    <3>2. AddTakesEffect'
      BY <2>3, <3>1 DEF AddTakesEffect, Succeeded
    <3>3. EnsureGetsInSync'
      <4> SUFFICES ASSUME cmd.mode = "default", ~cmd.noVendor
                   PROVE  /\ InSyncWith(disk'.lock, disk') /\ disk'.lock.vers \in Solutions(disk')
                          /\ disk'.vendor = Whole(disk'.lock.vers)
        BY <3>1 DEF EnsureGetsInSync, Succeeded, InSyncWith, HashInputs, Packages, Needed, Solutions, Whole
      <4>1. /\ disk.lock = new /\ InSyncWith(new, disk) /\ new.vers \in Solutions(disk)
            /\ WriteVendor(new) /\ tree = Whole(new.vers)
        BY <1>2, MovedInSync
      <4>2. HashInputs(disk') = HashInputs(disk) /\ Solutions(disk') = Solutions(disk)
        BY <2>1, SameInputs
      <4> QED BY <2>1, <4>1, <4>2 DEF InSyncWith
    <3> QED BY <1>1, <1>2, <2>1, <2>3, <3>2, <3>3, EndKeeps DEF Shapes, LocksInv
  <2> QED BY <1>4, <2>2, <2>3
<1> QED BY <1>3, <1>4 DEF MoveVendor

LEMMA RestoreLockKeeps ==
  ASSUME EnsureInv, RestoreLock
  PROVE  EnsureInv'
<1>1. Shapes /\ LocksInv
  BY DEF EnsureInv
<1>2. /\ pc = "restoreLock" /\ pc' = "restoreVendor"
      /\ UNCHANGED <<cmd, p, todo, errs, instrs, new, result, tree>>
  BY DEF RestoreLock, treeVars
<1>3. /\ DOMAIN disk' = DOMAIN disk /\ LockSound(disk'.lock)
      /\ disk'.imports = disk.imports /\ disk'.cons = disk.cons /\ disk'.req = disk.req
  <2>1. CASE disk' = disk
    BY <1>1, <2>1 DEF LocksInv
  <2>2. CASE \E l \in {disk.lock, p.lock} \cup Cuts(p.lock) : disk' = [disk EXCEPT !.lock = l]
    <3>1. PICK l \in {disk.lock, p.lock} \cup Cuts(p.lock) : disk' = [disk EXCEPT !.lock = l]
      BY <2>2
    <3>2. disk'.lock = l /\ Same(Fields \ {"lock"})
      BY <1>1, <3>1, DiskWritten, Zenon
    <3> QED BY <1>1, <3>1, <3>2, CutsSound DEF Same, Fields, LocksInv
  <2> QED BY <2>1, <2>2 DEF RestoreLock
<1> QED BY <1>2, <1>3, RollbackKeeps DEF Restoring

LEMMA RestoreVendorKeeps ==
  ASSUME EnsureInv, RestoreVendor
  PROVE  EnsureInv'
<1>1. Shapes
  BY DEF EnsureInv
<1>2. PICK v, w : \/ disk' = [disk EXCEPT !.vendorbak = v]
                  \/ disk' = [disk EXCEPT !.vendor = v, !.vendorbak = w]
  BY DEF RestoreVendor
<1>3. Same(Fields \ {"vendorbak"}) \/ Same(Fields \ {"vendor", "vendorbak"})
  BY <1>1, <1>2, DiskWritten, Zenon
<1>4. DOMAIN disk' = DOMAIN disk /\ disk'.lock = disk.lock
  BY <1>3 DEF Same, Fields
<1> QED BY <1>4, FailureKeeps DEF RestoreVendor

(* The new lock has a version of every project that was added, within the  *)
(* rules it was solved for.                                                *)
LEMMA AddedSelected ==
  ASSUME EnsureInv, pc = "append", NEW a \in cmd.args
  PROVE  /\ ArgDone(a) /\ InstrRight(a.path[1])
         /\ a.path[1] \in DOMAIN new.vers
         /\ a.path[1] \in DOMAIN p.cons => Allowed(p.cons[a.path[1]].con, new.vers[a.path[1]])
<1> DEFINE r == a.path[1]
<1>1. /\ cmd.mode = "add" /\ p.imports = disk.imports
      /\ ArgDone(a) /\ r \in DOMAIN instrs /\ InstrRight(r)
      /\ p.req = disk.req \cup UNION {instrs[x].ephReq : x \in DOMAIN instrs}
  BY DEF EnsureInv, EndInv, LoadedInv, AddInv, ArgDone, Solved, Moved, Restoring
<1>2. new.vers \in Solutions(p)
  BY <1>1, InSyncSolves DEF EnsureInv, LocksInv, Solved, Moved
<1>3. a.path \in instrs[r].ephReq \/ <<r, "root">> \in disk.imports \cup disk.req
  BY <1>1 DEF ArgDone, Packages
<1>4. r \in Needed(p)
  <2>1. CASE a.path \in instrs[r].ephReq
    BY <1>1, <2>1 DEF Needed, Packages
  <2>2. CASE <<r, "root">> \in disk.imports \cup disk.req
    <3>1. <<r, "root">> \in Packages(p) /\ <<r, "root">>[1] = r
      BY <1>1, <2>2 DEF Packages
    <3> QED BY <3>1 DEF Needed
  <2> QED BY <1>3, <2>1, <2>2
<1> QED BY <1>1, <1>2, <1>4 DEF Solutions

LEMMA AppendKeeps ==
  ASSUME EnsureInv, Append
  PROVE  EnsureInv'
<1>1. /\ Shapes /\ LoadedInv /\ LocksInv /\ TreeInv /\ AddInv
      /\ pc = "append" /\ cmd.mode = "add" /\ tree' = tree
  BY DEF EnsureInv, EndInv, Append, treeVars
<1>2. CASE (\E some \in SUBSET Added : disk' = [disk EXCEPT !.cons = Appended(some)]) /\ End("error")
  <2>1. PICK some : disk' = [disk EXCEPT !.cons = Appended(some)]
    BY <1>2
  <2>2. Same(Fields \ {"cons"})
    BY <1>1, <2>1, DiskWritten, Zenon
  <2> QED BY <1>1, <1>2, <2>2, FailureKeeps DEF Same, Fields
<1>3. CASE disk' = [disk EXCEPT !.cons = Appended(Added)] /\ End("ok")
  <2> DEFINE added == Added
             c == Appended(Added)
  <2>1. DOMAIN c = DOMAIN disk.cons \cup added
    BY DEF Appended
  <2>2. \A r \in added : /\ c[r].con = IF instrs[r].con # 0 THEN instrs[r].con ELSE new.vers[r]
                         /\ c[r].source = instrs[r].source
    BY DEF Appended
  <2>3. \A r \in DOMAIN disk.cons : r \notin added => c[r] = disk.cons[r]
    BY DEF Appended
  <2>4. disk'.cons = c /\ Same(Fields \ {"cons"})
    BY <1>1, <1>3, DiskWritten, Zenon
  <2> HIDE DEF c
  <2>5. disk'.cons = c /\ disk'.lock = disk.lock /\ DOMAIN disk' = DOMAIN disk
    BY <2>4 DEF Same, Fields
  <2>6. disk.lock = new /\ LockSound(disk'.lock)
    BY <1>1, <2>5 DEF LoadedInv, LocksInv, Moved, Restoring
  <2>7. cmd' = cmd
    BY <1>3 DEF End
  <2>8. EnsureGetsInSync'
    BY <1>1, <2>7 DEF EnsureGetsInSync, Succeeded
  <2>9. p.cons = [r \in DOMAIN disk.cons \cup Ruled |->
                    IF r \in Ruled THEN [con |-> instrs[r].con, source |-> instrs[r].source]
                    ELSE disk.cons[r]]
    BY <1>1 DEF AddInv, Solved, Moved
  <2>10. ASSUME NEW a \in cmd.args, NEW r, r = a.path[1]
         PROVE  /\ r \in DOMAIN c \cap DOMAIN new.vers
                /\ Allowed(c[r].con, new.vers[r])
                /\ a.con # 0 => c[r].con = a.con
                /\ a.source # NoSource => c[r].source = a.source
    <3>1. /\ r \in DOMAIN instrs /\ r \in DOMAIN new.vers
          /\ SomeConstraint(a) => /\ instrs[r].con = a.con /\ instrs[r].source = a.source
                                  /\ r \notin DOMAIN disk.cons
          /\ InstrRight(r)
          /\ r \in DOMAIN p.cons => Allowed(p.cons[r].con, new.vers[r])
      BY <1>1, <2>10, AddedSelected DEF ArgDone
    <3>2. CASE r \in DOMAIN disk.cons
      <4>1. r \notin added /\ r \notin Ruled
        BY <3>1, <3>2 DEF InstrRight, Ruled, Ruling, Added
      <4>2. p.cons[r] = disk.cons[r] /\ r \in DOMAIN p.cons
        BY <2>9, <3>2, <4>1
      <4>3. ~SomeConstraint(a)
        BY <3>1, <3>2
      <4> QED BY <2>1, <2>3, <3>1, <3>2, <4>1, <4>2, <4>3 DEF SomeConstraint
    <3>3. CASE r \notin DOMAIN disk.cons
      <4>1. r \in added
        BY <3>1, <3>3 DEF InstrRight, Added
      <4>2. CASE instrs[r].con # 0
        <5>1. r \in Ruled
          BY <3>1, <4>2 DEF InstrRight, SomeConstraint, Ruled, Ruling
        <5>2. r \in DOMAIN p.cons /\ p.cons[r].con = instrs[r].con
          BY <2>9, <5>1
        <5> QED BY <2>1, <2>2, <3>1, <4>1, <4>2, <5>2 DEF SomeConstraint
      <4>3. CASE instrs[r].con = 0
        <5>1. c[r].con = new.vers[r] /\ c[r].source = instrs[r].source
          BY <2>2, <4>1, <4>3
        <5> QED BY <2>1, <3>1, <4>1, <4>3, <5>1 DEF SomeConstraint, Allowed
      <4> QED BY <4>2, <4>3
    <3> QED BY <3>2, <3>3
  <2>11. AddTakesEffect'
    BY <2>5, <2>6, <2>7, <2>10 DEF AddTakesEffect
  <2> QED BY <1>1, <1>3, <2>5, <2>6, <2>8, <2>11, EndKeeps DEF Shapes
<1> QED BY <1>2, <1>3 DEF Append

-----------------------------------------------------------------------------
LEMMA EnsureStep ==
  ASSUME EnsureInv, [Next]_vars
  PROVE  EnsureInv'
<1>1. CASE UNCHANGED vars
  <2>1. /\ UNCHANGED <<disk, cmd, pc, p, todo, errs, instrs, new, result>>
        /\ UNCHANGED <<writer, canceled, tree>>
    BY <1>1 DEF vars, cmdVars, treeVars
  <2>2. Shapes' /\ LoadedInv'
    BY <2>1 DEF EnsureInv, Shapes, LoadedInv
  <2>3. LocksInv' /\ TreeInv'
    BY <2>1, WriteVendorKept DEF EnsureInv, LocksInv, TreeInv, Whole
  <2>4. AddInv'
    BY <2>1 DEF EnsureInv, AddInv, Ruled, ArgDone, InstrRight, Packages
  <2>5. EnsureGetsInSync'
    BY <2>1 DEF EnsureInv, EndInv, EnsureGetsInSync, Succeeded, InSyncWith, HashInputs, Solutions,
                Packages, Needed, Whole
  <2>6. EndInv'
    BY <2>1, <2>5 DEF EnsureInv, EndInv, AddTakesEffect, Succeeded
  <2> QED BY <2>2, <2>3, <2>4, <2>6 DEF EnsureInv
<1>2. CASE Step
  BY <1>2, runDefaultKeeps, runVendorOnlyKeeps, runUpdateKeeps, runAddKeeps, AddArgKeeps, ArgsKeeps,
     SolveKeeps, PrintKeeps, WriteKeeps, TreeStepKeeps, TreeDoneKeeps, MoveLockKeeps, MoveVendorKeeps,
     RestoreLockKeeps, RestoreVendorKeeps, AppendKeeps DEF Step
<1> QED BY <1>1, <1>2, InvalidKeeps, EditKeeps, CrashKeeps, RunKeeps DEF Next

(* Of the steps only the moves and what is cut short of them change vendor. *)
LEMMA VendorMoves ==
  ASSUME EnsureInv, Next, disk'.vendor # disk.vendor
  PROVE  \/ disk'.vendor = Whole(new.vers)
         \/ /\ pc' = "restoreLock" \/ result' \in {"error", "killed"}
            /\ \E t \in {disk.vendor, disk.vendorbak, Whole(new.vers)} : disk'.vendor \in {t} \cup PartsOf(t)
<1>1. Shapes
  BY DEF EnsureInv
<1>2. ASSUME pc = "moveVendor", WriteVendor(new)
      PROVE  tree = Whole(new.vers)
  BY <1>2 DEF EnsureInv, TreeInv
<1>3. CASE \E x : \/ disk' = [disk EXCEPT !.lock = x]
                  \/ disk' = [disk EXCEPT !.cons = x]
                  \/ disk' = [disk EXCEPT !.imports = x]
                  \/ disk' = [disk EXCEPT !.vendorbak = x]
  <2>1. PICK x : \/ disk' = [disk EXCEPT !.lock = x]
                 \/ disk' = [disk EXCEPT !.cons = x]
                 \/ disk' = [disk EXCEPT !.imports = x]
                 \/ disk' = [disk EXCEPT !.vendorbak = x]
    BY <1>3
  <2>2. \/ Same(Fields \ {"lock"}) \/ Same(Fields \ {"cons"})
        \/ Same(Fields \ {"imports"}) \/ Same(Fields \ {"vendorbak"})
    BY <1>1, <2>1, DiskWritten, Zenon
  <2>3. disk'.vendor = disk.vendor
    BY <2>2 DEF Same, Fields
  <2> QED BY <2>3
<1>4. ASSUME NEW v, NEW w, disk' = [disk EXCEPT !.vendor = v] \/ disk' = [disk EXCEPT !.vendor = v, !.vendorbak = w]
      PROVE  disk'.vendor = v
  BY <1>1, <1>4, DiskWritten, Zenon
<1>5. CASE MoveVendor
  <2>1. CASE disk' = IF WriteVendor(new) THEN [disk EXCEPT !.vendor = tree] ELSE disk
    <3>1. disk' = [disk EXCEPT !.vendor = tree] /\ WriteVendor(new)
      BY <2>1
    <3> QED BY <1>2, <1>4, <1>5, <3>1 DEF MoveVendor
  <2>2. CASE /\ WriteVendor(new) /\ pc' = "restoreLock"
             /\ \E v \in PartsOf(disk.vendor) : disk' = [disk EXCEPT !.vendor = v]
    BY <1>4, <2>2
  <2>3. CASE /\ WriteVendor(new) /\ pc' = "restoreLock"
             /\ \E v \in PartsOf(tree) : disk' = [disk EXCEPT !.vendor = v, !.vendorbak = disk.vendor]
    <3>1. tree = Whole(new.vers)
      BY <1>2, <1>5, <2>3 DEF MoveVendor
    <3> QED BY <1>4, <2>3, <3>1
  <2> QED BY <1>5, <2>1, <2>2, <2>3 DEF MoveVendor
<1>6. CASE RestoreVendor
  <2>1. result' = "error"
    BY <1>6 DEF RestoreVendor, End
  <2> QED BY <1>3, <1>4, <1>6, <2>1 DEF RestoreVendor
<1>7. CASE Crash
  <2>1. result' = "killed"
    BY <1>7 DEF Crash, End
  <2>2. PICK l, v, some :
          /\ disk' = [disk EXCEPT !.lock = l, !.vendor = v, !.vendorbak = <<>>, !.cons = Appended(some)]
          /\ \/ v = disk.vendor
             \/ pc = "moveVendor" /\ WriteVendor(new) /\ v \in PartsOf(disk.vendor) \cup PartsOf(tree)
             \/ v \in PartsOf(disk.vendorbak)
    BY <1>7 DEF Crash, VendorsLeft
  <2>3. disk'.vendor = v
    BY <1>1, <2>2, DiskWritten, Zenon
  <2> QED BY <1>2, <2>1, <2>2, <2>3
<1>8. CASE Step
  <2>1. CASE MoveLock
    BY <1>3, <2>1 DEF MoveLock
  <2>2. CASE RestoreLock
    BY <1>3, <2>2 DEF RestoreLock
  <2>3. CASE Append
    BY <1>3, <2>3 DEF Append
  <2>4. CASE UNCHANGED disk
    BY <2>4
  <2> QED BY <1>5, <1>6, <1>8, <2>1, <2>2, <2>3, <2>4
          DEF Step, runDefault, runVendorOnly, runUpdate, runAdd, AddArg, Args, Solve,
              PrintPreparedActions, Write, TreeStep, TreeDone, Stay
<1>9. CASE Edit
  BY <1>3, <1>9 DEF Edit
<1> QED BY <1>7, <1>8, <1>9 DEF Next, Invalid, Run

(* After "dep ensure" that succeeds the lock is for the project's imports  *)
(* and rules, its versions are within them and vendor/ is populated from   *)
(* it: what runDefault() and SafeWriter.Write() of cmd/dep/ensure.go leave *)
(* on disk, whatever was run, killed or failed before.                     *)
THEOREM EnsureSyncs == Spec => []EnsureGetsInSync
<1>1. EnsureInv => EnsureGetsInSync
  BY DEF EnsureInv, EndInv
<1> QED BY <1>1, EnsureInit, EnsureStep, PTL DEF Spec

(* After "dep ensure -add" that succeeds every rule that was given is in   *)
(* the manifest and the lock has a version within the rules of every       *)
(* project that was added, in whatever order the goroutines of runAdd()    *)
(* ran.                                                                    *)
THEOREM AddsTakeEffect == Spec => []AddTakesEffect
<1>1. EnsureInv => AddTakesEffect
  BY DEF EnsureInv, EndInv
<1> QED BY <1>1, EnsureInit, EnsureStep, PTL DEF Spec

(* vendor/ changes to the whole tree of the lock that is written, exported *)
(* and pruned by all goroutines of WriteDepTree(), or a move of Write() or *)
(* of its rollback is cut short and it is left with a part of one tree, in *)
(* a command that does not succeed.                                        *)
THEOREM VendorIsWhole == Spec => VendorWhole
<1>1. EnsureInv /\ [Next]_vars =>
        [disk'.vendor # disk.vendor =>
           \/ disk'.vendor = Whole(new.vers)
           \/ /\ pc' = "restoreLock" \/ result' \in {"error", "killed"}
              /\ \E t \in {disk.vendor, disk.vendorbak, Whole(new.vers)} : disk'.vendor \in {t} \cup PartsOf(t)]_vars
  BY VendorMoves
<1> QED BY <1>1, EnsureInit, EnsureStep, PTL DEF Spec, VendorWhole

-----------------------------------------------------------------------------
(* The rollback runs after a failure, and past the lock's turn the lock is *)
(* back unless that move failed too.                                       *)
RollbackInv ==
  /\ count \in [commands : Nat, crashes : Nat, failures : Nat]
  /\ pc = "idle" => result # "running"
  /\ pc \in Restoring => count.failures >= 1
  /\ pc = "restoreVendor" /\ count.failures <= 1 => disk.lock = p.lock \/ p.lock = NoLock

(* How far the count of failures goes up. *)
LEMMA Counted ==
  ASSUME count \in [commands : Nat, crashes : Nat, failures : Nat]
  PROVE  /\ Failing => /\ count' \in [commands : Nat, crashes : Nat, failures : Nat]
                       /\ count'.failures = count.failures + 1
         /\ count' = [count EXCEPT !.commands = @ + 1] =>
              count' \in [commands : Nat, crashes : Nat, failures : Nat]
         /\ count' = [count EXCEPT !.crashes = @ + 1] =>
              count' \in [commands : Nat, crashes : Nat, failures : Nat]
  BY DEF Failing

LEMMA RollbackStep ==
  ASSUME EnsureInv, RollbackInv, [Next]_vars
  PROVE  RollbackInv'
<1>1. Shapes /\ count \in [commands : Nat, crashes : Nat, failures : Nat]
  BY DEF EnsureInv, RollbackInv
<1>2. CASE UNCHANGED vars
  BY <1>2 DEF RollbackInv, vars, cmdVars
<1>3. ASSUME pc' \notin Restoring, pc' = "idle" => result' # "running",
             \/ UNCHANGED count
             \/ Failing
             \/ count' = [count EXCEPT !.commands = @ + 1]
             \/ count' = [count EXCEPT !.crashes = @ + 1]
      PROVE  RollbackInv'
  <2>1. count' \in [commands : Nat, crashes : Nat, failures : Nat]
    BY <1>1, <1>3, Counted
  <2> QED BY <1>3, <2>1 DEF RollbackInv, Restoring
<1>4. ASSUME pc' = "restoreLock", Failing
      PROVE  RollbackInv'
  BY <1>1, <1>4, Counted DEF RollbackInv, Restoring
<1>5. CASE RestoreLock
  <2>1. pc = "restoreLock" /\ pc' = "restoreVendor" /\ p' = p /\ count.failures >= 1
    BY <1>5 DEF RestoreLock, RollbackInv, Restoring
  <2>2. CASE Failing
    BY <1>1, <2>1, <2>2, Counted DEF RollbackInv, Restoring
  <2>3. CASE disk' = (IF p.lock = NoLock THEN disk ELSE [disk EXCEPT !.lock = p.lock]) /\ UNCHANGED count
    <3>1. p.lock = NoLock \/ disk'.lock = p.lock
      BY <1>1, <2>3, DiskWritten
    <3> QED BY <1>1, <2>1, <2>3, <3>1 DEF RollbackInv, Restoring
  <2> QED BY <1>5, <2>2, <2>3 DEF RestoreLock
<1>6. CASE MoveLock
  BY <1>3, <1>4, <1>6 DEF MoveLock, Restoring
<1>7. CASE MoveVendor
  BY <1>3, <1>4, <1>7 DEF MoveVendor, Restoring, End
<1>8. CASE RestoreVendor \/ Append \/ Crash \/ Invalid \/ Edit \/ PrintPreparedActions
  BY <1>3, <1>8 DEF RestoreVendor, Append, Crash, Invalid, Edit, PrintPreparedActions, End, Stay, Restoring
<1>9. CASE runDefault \/ runVendorOnly \/ runUpdate \/ runAdd \/ Args \/ Solve
  BY <1>3, <1>9 DEF runDefault, runVendorOnly, runUpdate, runAdd, Args, Solve, Writing, End, Stay, Restoring
<1>10. CASE Write \/ TreeStep \/ TreeDone
  BY <1>3, <1>10 DEF Write, TreeStep, TreeDone, End, Restoring, cmdVars
<1>11. CASE \/ \E a \in todo : AddArg(a)
            \/ \E c \in Commands : Run(c)
  BY <1>3, <1>11 DEF AddArg, Run, Restoring
<1> QED BY <1>2, <1>5, <1>6, <1>7, <1>8, <1>9, <1>10, <1>11 DEF Next, Step

(* A command that fails has left the lock, or the rollback has.            *)
LEMMA FailureRestores ==
  ASSUME EnsureInv, RollbackInv, Next,
         result = "running", result' = "error", pc # "append", count'.failures <= 1
  PROVE  disk'.lock = p.lock \/ p.lock = NoLock
<1>1. Shapes /\ LoadedInv /\ pc # "idle"
  BY DEF EnsureInv, RollbackInv
<1>2. CASE UNCHANGED disk /\ pc \notin Moved \cup Restoring
  BY <1>1, <1>2 DEF LoadedInv
<1>3. CASE RestoreVendor
  <2>1. pc = "restoreVendor" /\ (UNCHANGED count \/ Failing)
    BY <1>3 DEF RestoreVendor
  <2>2. count.failures \in Nat /\ (count'.failures = count.failures \/ count'.failures = count.failures + 1)
    BY <2>1, Counted DEF RollbackInv
  <2>3. count.failures <= 1
    BY <2>2
  <2>4. disk'.lock = disk.lock
    <3>1. PICK v, w : \/ disk' = [disk EXCEPT !.vendorbak = v]
                      \/ disk' = [disk EXCEPT !.vendor = v, !.vendorbak = w]
      BY <1>3 DEF RestoreVendor
    <3>2. Same(Fields \ {"vendorbak"}) \/ Same(Fields \ {"vendor", "vendorbak"})
      BY <1>1, <3>1, DiskWritten, Zenon
    <3> QED BY <3>2 DEF Same, Fields
  <2> QED BY <2>1, <2>3, <2>4 DEF RollbackInv
<1>4. CASE runDefault \/ runVendorOnly \/ runUpdate \/ runAdd \/ Args \/ Solve \/ Invalid
            \/ Write \/ TreeDone
  BY <1>2, <1>4 DEF runDefault, runVendorOnly, runUpdate, runAdd, Args, Solve, Invalid, Write, TreeDone, Stay,
                    Moved, Restoring
<1>5. ASSUME \/ \E a \in todo : AddArg(a)
             \/ PrintPreparedActions \/ TreeStep
             \/ MoveLock \/ MoveVendor \/ RestoreLock \/ Append
             \/ Edit \/ Crash \/ \E c \in Commands : Run(c)
      PROVE  FALSE
  BY <1>1, <1>5 DEF AddArg, PrintPreparedActions, TreeStep, MoveLock, MoveVendor, RestoreLock,
                    Append, Edit, Crash, Run, End, cmdVars
<1> QED BY <1>3, <1>4, <1>5 DEF Next, Step

(* When "dep ensure" fails and nothing else has, the lock is the one it    *)
(* found: Write() of txn_writer.go puts back what it moved out, whatever   *)
(* is left of the copy that failed.  Failing to append to the manifest,    *)
(* after Write(), is the exception, and having had no lock.                *)
THEOREM LockIsPutBack == Spec => LockPutBack
<1>1. Init => RollbackInv
  BY DEF Init, RollbackInv, Restoring
<1>2. EnsureInv /\ RollbackInv /\ [Next]_vars =>
        [result = "running" /\ result' = "error" /\ pc # "append" /\ count'.failures <= 1 =>
           disk'.lock = p.lock \/ p.lock = NoLock]_vars
  BY FailureRestores
<1> QED BY <1>1, <1>2, EnsureInit, EnsureStep, RollbackStep, PTL DEF Spec, LockPutBack
=============================================================================
