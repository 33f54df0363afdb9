-------------------------- MODULE SafeWriterProofs --------------------------
(***************************************************************************)
(* What SafeWriter.Write() leaves on disk, proved for any number of failed *)
(* disk operations and any placement of the temporary directory.           *)
(***************************************************************************)
EXTENDS SafeWriter, TLAPS

Paths == InTemp \cup InPlace
Names == {"manifest", "lock", "vendor"}

(* The position of an artifact in the order Write() goes through them. *)
Pos(x) == CASE x = "manifest" -> 1 [] x = "lock" -> 2 [] x = "vendor" -> 3

(* Where the old artifact may be moved to. *)
Aside(x) == Places(x) \ {x}

(* The artifact is on the list of what to move back. *)
Pending(x) == \E k \in 1..Len(restore) : restore[k].to = x

-----------------------------------------------------------------------------
(* The parts of the inductive invariant. *)

Typed ==
  /\ req \in Requests
  /\ xdev \in BOOLEAN
  /\ disk \in [Paths -> Contents]
  /\ pc \in Ended \cup {"new", "stage", "dotgit", "out", "in", "removebak", "fail",
                        "cleanup:ok", "cleanup:err"}
  /\ at \in 1..3
  /\ restore \in Seq([from : Paths, to : Names])
  /\ bak \in {"none", "vendor.orig", "td/.vendor.orig"}
  /\ faults \in 0..MaxFaults

(* What may be there before the call. *)
Started ==
  /\ start \in [Paths -> Contents]
  /\ \A x \in Names : start[x].is \in {"none", "old"}
  /\ start["vendor.orig"].is \in {"none", "kept"}
  /\ start["vendor"].git => start["vendor"].is = "old"

(* The list of what to move back is in the order of the artifacts, and the *)
(* vendor was moved beside itself exactly when nothing was there.          *)
Listed ==
  /\ \A k \in 1..Len(restore) :
       /\ restore[k].from \in Aside(restore[k].to)
       /\ restore[k].to = "vendor" =>
            (restore[k].from = "vendor.orig" <=> start["vendor.orig"].is = "none")
  /\ \A j, k \in 1..Len(restore) : j < k => Pos(restore[j].to) < Pos(restore[k].to)

(* Neither the move of the vendor nor the deletion of its backup is at     *)
(* somebody else's vendor.orig.                                            *)
Spared ==
  /\ LeftoverKept
  /\ bak = "vendor.orig" => start["vendor.orig"].is = "none"

(* Until the artifacts are moved, all is in place. *)
Staging ==
  pc \in {"new", "stage", "dotgit"} =>
    /\ restore = <<>>
    /\ \A p \in InPlace : disk[p] = start[p]
    /\ \A x \in Names : \A p \in Aside(x) \cap InTemp : disk[p].is = "none"
    /\ pc \in {"new", "dotgit"} => at = 1
    /\ \A x \in Names : Writes(x) /\ pc # "new" /\ (pc = "stage" => Pos(x) < at) =>
                          disk[Staged[x]].is = "new"

(* The artifact's old content is out of the way. *)
Out(x) == Pos(x) < at \/ (pc = "in" /\ Pos(x) = at)

(* While they are moved, those before `at' are done and those after it are *)
(* as they were, and what was moved out is listed and at its backup.       *)
Moving ==
  pc \in {"out", "in"} =>
    /\ \A x \in Names :
         /\ ~Writes(x) \/ ~Out(x) => disk[x].is = start[x].is
         /\ Writes(x) /\ Pos(x) < at => disk[x].is = "new"
         /\ Writes(x) /\ Out(x) /\ Pos(x) = at => disk[x].is = "none"
         /\ Writes(x) /\ Pos(x) >= at => disk[Staged[x]].is = "new"
         /\ Pending(x) <=> Writes(x) /\ Out(x) /\ start[x].is = "old"
    /\ \A k \in 1..Len(restore) : disk[restore[k].from].is = "old"
    /\ ~Pending("vendor") =>
         disk["vendor.orig"].is = start["vendor.orig"].is /\ disk["td/.vendor.orig"].is = "none"

(* Past the moves, all is written. *)
Written ==
  pc \in {"removebak", "cleanup:ok", "ok"} =>
    \A x \in Names : disk[x].is = IF Writes(x) THEN "new" ELSE start[x].is

(* The vendor's old content is stuck in its backup. *)
Stranded(x) ==
  /\ x = "vendor" /\ xdev
  /\ start["vendor.orig"].is = "none" => disk["vendor.orig"].is = "old"

(* What is left to do for the artifact suffices to have its old content    *)
(* back, if nothing else fails.                                            *)
Recoverable(x) ==
  \/ disk[x].is = "old" /\ ~Pending(x)
  \/ \E k \in 1..Len(restore) :
       /\ restore[k].to = x
       /\ disk[restore[k].from].is = "old"
       /\ x = "vendor" /\ ~xdev => disk["vendor"].is = "none"
  \/ Stranded(x)

Failing ==
  pc = "fail" =>
    /\ faults >= 1
    /\ faults = 1 => \A x \in Names : start[x].is = "old" => Recoverable(x)

RolledBack ==
  pc \in {"cleanup:err", "err"} /\ faults <= 1 =>
    \A x \in Names : start[x].is = "old" => disk[x].is = "old" \/ Stranded(x)

Survived == pc \in {"refused", "killed"} => OldSurvives

(* Where .git is while nothing has failed. *)
GitAlong ==
  faults = 0 /\ WriteVendor /\ start["vendor"].git =>
    /\ pc \in {"out", "in"} => disk["td/vendor"].git
    /\ pc \in {"removebak", "cleanup:ok", "ok"} => disk["vendor"].git

WriterInv ==
  /\ Typed /\ Started /\ Listed /\ Spared /\ Staging
  /\ Moving /\ Written /\ Failing /\ RolledBack /\ Survived /\ GitAlong
-----------------------------------------------------------------------------
(* The paths. *)

LEMMA NameCases ==
  ASSUME NEW x \in Names
  PROVE  /\ Pos(x) \in 1..3
         /\ x \in InPlace /\ x \notin InTemp
         /\ x = "vendor" <=> x \in Vendors
         /\ x = "vendor" <=> Pos(x) = 3
         /\ Aside(x) \subseteq Paths
         /\ "vendor.orig" \in Aside(x) => x = "vendor"
BY DEF Names, Pos, InPlace, InTemp, Vendors, Aside, Places, Paths

LEMMA StagedFacts ==
  ASSUME NEW x \in Names
  PROVE  /\ Staged[x] \in InTemp /\ Staged[x] \in Paths
         /\ Staged[x] \notin InPlace
         /\ Staged[x] \in Vendors <=> x = "vendor"
         /\ \A y \in Names : /\ Staged[x] # y /\ Staged[x] \notin Aside(y)
                             /\ Staged[x] = Staged[y] => x = y
BY DEF Names, InPlace, InTemp, Vendors, Aside, Places, Paths, Staged

LEMMA AsideFacts ==
  ASSUME NEW x \in Names, NEW y \in Names
  PROVE  /\ \A p \in Aside(x) : p # y /\ p \in Paths
         /\ x # y => Aside(x) \cap Aside(y) = {}
         /\ Pos(x) = Pos(y) => x = y
BY DEF Names, InPlace, InTemp, Aside, Places, Paths, Pos

LEMMA AtFacts ==
  ASSUME at \in 1..3
  PROVE  /\ Artifacts[at] \in Names
         /\ Pos(Artifacts[at]) = at
         /\ Len(Artifacts) = 3
BY DEF Artifacts, Names, Pos

(* The properties speak of the artifacts by index, the invariant by name.  *)
LEMMA ArtifactNames ==
  /\ DOMAIN Artifacts = 1..3
  /\ \A i \in DOMAIN Artifacts : Artifacts[i] \in Names
  /\ \A x \in Names : \E i \in DOMAIN Artifacts : Artifacts[i] = x
<1>1. DOMAIN Artifacts = 1..3 BY DEF Artifacts
<1>2. Artifacts[1] = "manifest" /\ Artifacts[2] = "lock" /\ Artifacts[3] = "vendor"
  BY DEF Artifacts
<1> QED BY <1>1, <1>2 DEF Names

LEMMA BackupFacts ==
  ASSUME NEW x \in Names
  PROVE  /\ Backup(x) \in Aside(x)
         /\ x # "vendor" => Backup(x) \in InTemp /\ Backup(x) \notin Vendors
         /\ Backup(x) \in Paths
         /\ x = "vendor" => (Backup(x) = "vendor.orig" <=> disk["vendor.orig"].is = "none")
         /\ x = "vendor" => Backup(x) \in {"vendor.orig", "td/.vendor.orig"}
BY DEF Names, InPlace, InTemp, Vendors, Aside, Places, Paths, Backup

-----------------------------------------------------------------------------
(* RenameWithFallback(). *)

LEMMA ContentsFacts ==
  /\ Nothing \in Contents /\ Nothing.is = "none" /\ Nothing.git = FALSE
  /\ \A c \in {"old", "new", "part", "kept"} :
       Plain(c) \in Contents /\ Plain(c).is = c /\ Plain(c).git = FALSE
BY DEF Nothing, Contents, Plain

LEMMA MoveOkFacts ==
  ASSUME disk \in [Paths -> Contents], NEW src \in Paths, NEW dst \in Paths, src # dst,
         MoveOk(src, dst)
  PROVE  /\ disk' \in [Paths -> Contents]
         /\ disk'[dst] = disk[src] /\ disk'[src] = Nothing
         /\ \A p \in Paths \ {src, dst} : disk'[p] = disk[p]
         /\ faults' = faults
         /\ disk[src].is # "none" /\ ~Blocked(dst)
BY ContentsFacts DEF MoveOk, Moved

(* A rename that fails loses nothing of a file, and nothing at all on one  *)
(* device.                                                                 *)
LEMMA BotchedFacts ==
  ASSUME disk \in [Paths -> Contents], NEW src \in Paths, NEW dst \in Paths, src # dst,
         NEW d \in Botched(src, dst)
  PROVE  /\ d \in [Paths -> Contents]
         /\ \A p \in Paths \ {src, dst} : d[p] = disk[p]
         /\ ~Across(src, dst) => d = disk
         /\ d[src] = disk[src] \/ (src \in Vendors /\ Across(src, dst) /\ d[dst] = disk[src])
<1>1. CASE d = disk BY <1>1
<1>2. CASE Across(src, dst) /\ d = [disk EXCEPT ![dst] = Plain("part")]
  BY <1>2, ContentsFacts
<1>3. CASE Across(src, dst) /\ d = [disk EXCEPT ![dst] = disk[src]]
  BY <1>3, ContentsFacts
<1>4. CASE Across(src, dst) /\ src \in Vendors
           /\ d = [disk EXCEPT ![dst] = disk[src], ![src] = Plain("part")]
  BY <1>4, ContentsFacts
<1> QED BY <1>1, <1>2, <1>3, <1>4 DEF Botched

LEMMA MoveFailsFacts ==
  ASSUME disk \in [Paths -> Contents], faults \in 0..MaxFaults,
         NEW src \in Paths, NEW dst \in Paths, src # dst,
         MoveFails(src, dst)
  PROVE  /\ disk' \in [Paths -> Contents]
         /\ \A p \in Paths \ {src, dst} : disk'[p] = disk[p]
         /\ ~Across(src, dst) => disk' = disk
         /\ disk'[src] = disk[src]
              \/ (src \in Vendors /\ Across(src, dst) /\ disk'[dst] = disk[src])
         /\ faults' \in 0..MaxFaults
         /\ \/ faults' = faults /\ disk' = disk /\ (disk[src].is = "none" \/ Blocked(dst))
            \/ faults' = faults + 1 /\ disk[src].is # "none" /\ ~Blocked(dst)
<1>1. CASE (disk[src].is = "none" \/ Blocked(dst)) /\ UNCHANGED <<disk, faults>>
  BY <1>1
<1>2. CASE /\ disk[src].is # "none" /\ ~Blocked(dst)
           /\ faults < MaxFaults
           /\ disk' \in Botched(src, dst)
           /\ faults' = faults + 1
  BY <1>2, BotchedFacts, SafeWriterAssumption
<1> QED BY <1>1, <1>2 DEF MoveFails
LEMMA PairFacts ==
  ASSUME Typed, NEW k \in 1..Len(restore)
  PROVE  restore[k].to \in Names /\ restore[k].from \in Paths
<1> DEFINE P == [from : Paths, to : Names]
<1>1. restore \in Seq(P)
  BY DEF Typed
<1>2. ASSUME NEW r \in P PROVE r.to \in Names /\ r.from \in Paths
  OBVIOUS
<1> HIDE DEF P
<1>3. restore[k] \in P
  BY <1>1
<1> QED BY <1>2, <1>3

-----------------------------------------------------------------------------
(* Every state. *)

LEMMA InitInv == Init => WriterInv
<1> SUFFICES ASSUME Init PROVE WriterInv
  OBVIOUS
<1> USE DEF Init
<1>1. PICK v \in {Nothing, Plain("old"), [is |-> "old", git |-> TRUE]},
           m \in {Nothing, Plain("old")}, left \in {Nothing, Plain("kept")} :
       disk = [p \in InTemp \cup InPlace |->
                 CASE p = "manifest" -> m
                   [] p = "lock" -> IF req.old = "none" THEN Nothing ELSE Plain("old")
                   [] p = "vendor" -> v
                   [] p = "vendor.orig" -> left
                   [] OTHER -> Nothing]
  OBVIOUS
<1>2. /\ v \in Contents /\ v.is \in {"none", "old"} /\ (v.git => v.is = "old")
      /\ m \in Contents /\ m.is \in {"none", "old"}
      /\ left \in Contents /\ left.is \in {"none", "kept"}
  <2> DEFINE g == [is |-> "old", git |-> TRUE]
  <2>1. g \in Contents /\ g.is = "old"
    BY DEF Contents
  <2> HIDE DEF g
  <2>2. v \in {Nothing, Plain("old"), g}
    BY Zenon DEF g
  <2> QED BY <2>1, <2>2, ContentsFacts
<1>3. disk \in [Paths -> Contents]
  BY <1>1, <1>2, ContentsFacts DEF Paths
<1>4. /\ disk["manifest"] = m /\ disk["vendor"] = v /\ disk["vendor.orig"] = left
      /\ disk["lock"].is \in {"none", "old"}
      /\ \A p \in InTemp : disk[p] = Nothing
  BY <1>1, ContentsFacts DEF InTemp, InPlace
<1>5. Typed
  BY <1>3, SafeWriterAssumption DEF Typed, Requests, Names
<1>6. Started
  BY <1>2, <1>3, <1>4 DEF Started, Names
<1>7. Listed
  BY DEF Listed
<1>8. Spared
  BY DEF Spared, LeftoverKept
<1>9. Staging
  BY <1>4, ContentsFacts DEF Staging
<1> QED BY <1>5, <1>6, <1>7, <1>8, <1>9
        DEF WriterInv, Moving, Written, Failing, RolledBack, Survived, GitAlong

(* The arguments do not change. *)
LEMMA SameRequest ==
  ASSUME UNCHANGED <<req, xdev, start>>
  PROVE  /\ WriteVendor' <=> WriteVendor
         /\ \A x : Writes(x)' <=> Writes(x)
         /\ Started => Started'
<1>1. (WriteVendor' <=> WriteVendor) /\ (WriteLock' <=> WriteLock)
  BY DEF WriteVendor, WriteLock, LockDiff
<1>2. \A x : Writes(x)' = Writes(x)
  BY DEF Writes, WriteVendor, WriteLock, LockDiff
<1> QED BY <1>1, <1>2 DEF Started

LEMMA SameList ==
  ASSUME Listed, UNCHANGED <<restore, start>>
  PROVE  Listed' /\ \A x : Pending(x)' <=> Pending(x)
BY DEF Listed, Pending

LEMMA NewInv ==
  ASSUME WriterInv, New
  PROVE  WriterInv'
<1> USE DEF New, WriterInv
<1>0. Writes("manifest") = req.manifest /\ Writes("lock") = WriteLock /\ Writes("vendor") = WriteVendor
  BY DEF Writes
<1>1. Typed' BY SafeWriterAssumption DEF Typed, Ended
<1>2. Started' /\ Listed' BY SameRequest, SameList
<1>3. Spared' BY DEF Spared, LeftoverKept
<1>4. Staging'
  <2>1. CASE pc' = "stage"
    BY <2>1, SameRequest, NameCases DEF Staging, Names
  <2> QED BY <2>1 DEF Staging
<1>5. Written'
  <2>1. CASE pc' = "ok"
    <3>1. \A x \in Names : ~Writes(x) BY <1>0, <2>1 DEF Names
    <3>2. \A x \in Names : disk[x].is = start[x].is BY NameCases DEF Staging
    <3> QED BY <3>1, <3>2, SameRequest DEF Written
  <2> QED BY <2>1 DEF Written
<1>6. RolledBack'
  BY NameCases DEF RolledBack, Staging
<1>7. GitAlong'
  BY SameRequest DEF GitAlong
<1>8. Survived'
  <2>1. \A x \in Names : disk'[x] = start'[x] /\ x \in Places(x)
    BY NameCases DEF Staging, Places
  <2>2. OldSurvives'
    BY <2>1, ArtifactNames DEF OldSurvives
  <2> QED BY <2>2 DEF Survived
<1> QED BY <1>1, <1>2, <1>3, <1>4, <1>5, <1>6, <1>7, <1>8 DEF Moving, Failing

LEMMA StageInv ==
  ASSUME WriterInv, Stage
  PROVE  WriterInv'
<1> DEFINE a == Artifacts[at]
<1> USE DEF Stage, WriterInv
<1>0. /\ a \in Names /\ Pos(a) = at /\ Len(Artifacts) = 3
      /\ Staged[a] \in Paths /\ Staged[a] \in InTemp /\ Staged[a] \notin InPlace
      /\ \A y \in Names : /\ Staged[a] # y /\ Staged[a] \notin Aside(y)
                          /\ Staged[a] = Staged[y] => a = y
      /\ at \in 1..3 /\ pc = "stage"
  BY AtFacts, StagedFacts DEF Typed
<1>1. \/ Writes(a) /\ disk' = [disk EXCEPT ![Staged[a]] = Plain("new")]
         /\ GoOn("stage", "dotgit") /\ faults' = faults
      \/ /\ Writes(a) /\ faults < MaxFaults /\ faults' = faults + 1
         /\ disk' \in {disk, [disk EXCEPT ![Staged[a]] = IF a = "vendor" THEN Nothing ELSE Plain("part")]}
         /\ pc' = "cleanup:err" /\ at' = at
      \/ ~Writes(a) /\ GoOn("stage", "dotgit") /\ disk' = disk /\ faults' = faults
  OBVIOUS
<1>2. /\ disk' \in [Paths -> Contents]
      /\ \A p \in Paths \ {Staged[a]} : disk'[p] = disk[p]
  BY <1>0, <1>1, ContentsFacts DEF Typed
<1>3. \/ pc' = "cleanup:err" /\ at' = at
      \/ at < 3 /\ at' = at + 1 /\ pc' = "stage"
      \/ at = 3 /\ at' = 1 /\ pc' = "dotgit"
  BY <1>0, <1>1 DEF GoOn
<1> HIDE DEF a
<1>4. Typed' BY <1>0, <1>1, <1>2, <1>3, SafeWriterAssumption DEF Typed, Ended
<1>5. Started' /\ Listed' BY SameRequest, SameList
<1>6. "vendor.orig" \in Paths \ {Staged[a]}
  BY <1>0 DEF Paths, InPlace
<1>7. Spared' BY <1>2, <1>6 DEF Spared, LeftoverKept
<1>8. \A p \in InPlace : disk'[p] = start[p]
  BY <1>0, <1>2 DEF Paths, Staging
<1>9. Staging'
  <2>1. ASSUME NEW x \in Names, NEW p \in Aside(x) \cap InTemp
        PROVE  disk'[p].is = "none"
    BY <1>0, <1>2, NameCases DEF Staging
  <2>2. ASSUME NEW x \in Names, Writes(x), pc' \in {"stage", "dotgit"},
               pc' = "stage" => Pos(x) < at'
        PROVE  disk'[Staged[x]].is = "new"
    <3>1. CASE x = a
      BY <1>0, <1>1, <3>1, <2>2, ContentsFacts DEF Typed
    <3>2. CASE x # a
      <4>1. Pos(x) < at
        BY <1>0, <1>3, <2>2, <3>2, NameCases, AsideFacts
      <4>2. disk[Staged[x]].is = "new"
        BY <1>0, <2>2, <4>1 DEF Staging
      <4> QED BY <1>0, <1>2, <3>2, <4>2, StagedFacts
    <3> QED BY <3>1, <3>2
  <2>3. restore' = <<>>
    BY <1>0 DEF Staging
  <2> QED BY <1>0, <1>3, <1>8, <2>1, <2>2, <2>3, SameRequest DEF Staging
<1>10. RolledBack'
  BY <1>8, NameCases DEF RolledBack
<1>11. GitAlong' /\ Moving' /\ Written' /\ Failing' /\ Survived'
  BY <1>3 DEF GitAlong, Moving, Written, Failing, Survived
<1> QED BY <1>4, <1>5, <1>7, <1>9, <1>10, <1>11

LEMMA DotGitInv ==
  ASSUME WriterInv, DotGit
  PROVE  WriterInv'
<1> USE DEF DotGit, WriterInv
<1>1. /\ disk' \in [Paths -> Contents]
      /\ \A p \in Paths \ {"vendor", "td/vendor"} : disk'[p] = disk[p]
      /\ \A p \in Paths : disk'[p].is = disk[p].is
  <2>1. \/ disk' = disk
        \/ disk' = GitCopied
        \/ disk' = [GitCopied EXCEPT !["vendor"].git = FALSE]
    OBVIOUS
  <2>2. "vendor" \in Paths /\ "td/vendor" \in Paths
    BY DEF Paths, InTemp, InPlace
  <2>3. /\ GitCopied \in [Paths -> Contents]
        /\ GitCopied = [disk EXCEPT !["td/vendor"] = [disk["td/vendor"] EXCEPT !.git = TRUE]]
        /\ [disk["td/vendor"] EXCEPT !.git = TRUE] \in Contents
        /\ [disk["td/vendor"] EXCEPT !.git = TRUE].is = disk["td/vendor"].is
    BY <2>2 DEF GitCopied, Typed, Contents
  <2>4. /\ \A p \in Paths \ {"vendor", "td/vendor"} : GitCopied[p] = disk[p]
        /\ \A p \in Paths : GitCopied[p].is = disk[p].is
    BY <2>2, <2>3 DEF Typed
  <2>5. ASSUME disk' = [GitCopied EXCEPT !["vendor"].git = FALSE]
        PROVE  <1>1!:
    <3>1. /\ [GitCopied["vendor"] EXCEPT !.git = FALSE] \in Contents
          /\ [GitCopied["vendor"] EXCEPT !.git = FALSE].is = GitCopied["vendor"].is
      BY <2>2, <2>3 DEF Contents
    <3>2. disk' = [GitCopied EXCEPT !["vendor"] = [GitCopied["vendor"] EXCEPT !.git = FALSE]]
      BY <2>5
    <3> QED BY <2>2, <2>3, <2>4, <3>1, <3>2
  <2> QED BY <2>1, <2>3, <2>4, <2>5 DEF Typed
<1>2. /\ pc = "dotgit" /\ pc' = "out" /\ at' = 1
      /\ \A p \in InPlace : disk'[p].is = start[p].is
  BY <1>1 DEF Staging, Paths
<1>3. Typed' BY <1>1, SafeWriterAssumption DEF Typed, Ended
<1>4. Started' /\ Listed' BY SameRequest, SameList
<1>5. Spared' BY <1>2 DEF Spared, LeftoverKept, InPlace
<1>6. Moving'
  <2>1. restore' = <<>> /\ \A x : ~Pending(x)'
    BY <1>2 DEF Staging, Pending
  <2>2. ASSUME NEW x \in Names
        PROVE  /\ disk'[x].is = start[x].is
               /\ ~Out(x)'
               /\ ~(Pos(x) < 1)
               /\ Writes(x) => disk'[Staged[x]].is = "new"
    BY <1>1, <1>2, NameCases, StagedFacts DEF Staging, Out
  <2>3. disk'["td/.vendor.orig"].is = "none" /\ disk'["vendor.orig"].is = start["vendor.orig"].is
    <3>1. "td/.vendor.orig" \in Aside("vendor") \cap InTemp /\ "td/.vendor.orig" \in Paths
          /\ "vendor.orig" \in InPlace /\ "vendor" \in Names
      BY DEF Aside, Places, InTemp, Paths, InPlace, Names
    <3> QED BY <1>1, <1>2, <3>1 DEF Staging
  <2> QED BY <1>2, <2>1, <2>2, <2>3, SameRequest DEF Moving
<1>7. GitAlong'
  <2> SUFFICES ASSUME faults' = 0, WriteVendor, start["vendor"].git
               PROVE  disk'["td/vendor"].git
    BY <1>2, SameRequest DEF GitAlong
  <2>1. "vendor" \in InPlace /\ "vendor" \in Names /\ Staged["vendor"] = "td/vendor" /\ Writes("vendor")
    BY DEF InPlace, Names, Staged, Writes
  <2>2. disk["vendor"].git /\ disk["td/vendor"].is # "none"
    BY <1>2, <2>1 DEF Staging
  <2>3. disk' = [GitCopied EXCEPT !["vendor"].git = FALSE]
    BY <2>2, SafeWriterAssumption DEF Typed
  <2> QED BY <2>3 DEF GitCopied, Typed, Contents, Paths, InTemp, InPlace
<1> QED BY <1>2, <1>3, <1>4, <1>5, <1>6, <1>7
        DEF Staging, Written, Failing, RolledBack, Survived
(* A failure at one artifact leaves the others to be recovered. *)
LEMMA OthersRecoverable ==
  ASSUME WriterInv, pc \in {"out", "in"}, UNCHANGED <<restore, xdev, start>>,
         NEW a \in Names, Pos(a) = at,
         \A p \in Paths : p \notin Aside(a) \cup {a, Staged[a]} => disk'[p] = disk[p],
         NEW x \in Names, x # a, start[x].is = "old"
  PROVE  Recoverable(x)'
<1> USE DEF WriterInv
<1>1. /\ disk'[x] = disk[x]
      /\ \A p \in Aside(x) : disk'[p] = disk[p]
  BY AsideFacts, StagedFacts, NameCases DEF Paths
<1>2. Pos(x) # at /\ Pos(x) \in 1..3 /\ (x = "vendor" => Pos(x) = 3) /\ at \in 1..3
  BY AsideFacts, NameCases DEF Typed
<1>3. CASE Writes(x) /\ Pos(x) < at
  <2>1. Pending(x)
    BY <1>3 DEF Moving, Out
  <2>2. PICK k \in 1..Len(restore) : restore[k].to = x
    BY <2>1 DEF Pending
  <2>3. disk[restore[k].from].is = "old" /\ restore[k].from \in Aside(x)
    BY <2>2 DEF Moving, Listed
  <2>4. disk'[restore'[k].from].is = "old"
    BY <1>1, <2>3
  <2> QED BY <1>2, <1>3, <2>2, <2>4 DEF Recoverable
<1>4. CASE ~(Writes(x) /\ Pos(x) < at)
  <2>1. ~Writes(x) \/ ~Out(x)
    BY <1>2, <1>4 DEF Out
  <2>2. disk[x].is = "old" /\ ~Pending(x)
    BY <2>1 DEF Moving
  <2>3. ~Pending(x)'
    BY <2>2 DEF Pending
  <2> QED BY <1>1, <2>2, <2>3 DEF Recoverable
<1> QED BY <1>3, <1>4

LEMMA MoveOutInv ==
  ASSUME WriterInv, MoveOut
  PROVE  WriterInv'
<1> DEFINE a == Artifacts[at]
           b == Backup(a)
<1> USE DEF WriterInv
<1>0. /\ a \in Names /\ Pos(a) = at /\ at \in 1..3 /\ a \in Paths /\ b \in Paths
      /\ b \in Aside(a) /\ a # b
      /\ pc = "out" /\ at' = at
  BY AtFacts, BackupFacts, AsideFacts, NameCases DEF Typed, MoveOut, Paths
<1>1. \/ /\ Writes(a) /\ disk[a].is # "none" /\ MoveOk(a, b)
         /\ restore' = Append(restore, [from |-> b, to |-> a])
         /\ pc' = "in" /\ bak' = IF a = "vendor" THEN b ELSE bak
      \/ /\ Writes(a) /\ disk[a].is # "none" /\ MoveFails(a, b)
         /\ restore' = restore
         /\ pc' = "fail" /\ bak' = IF a = "vendor" THEN b ELSE bak
      \/ /\ ~Writes(a) \/ disk[a].is = "none"
         /\ pc' = "in" /\ UNCHANGED <<disk, faults, restore, bak>>
  BY DEF MoveOut
<1>2. UNCHANGED <<req, xdev, start>>
  BY DEF MoveOut
<1>3. Started'
  BY <1>2, SameRequest
<1>4. /\ disk[a].is = start[a].is
      /\ ~Pending(a) /\ ~Pending("vendor")
      /\ disk["vendor.orig"].is = start["vendor.orig"].is
      /\ disk["td/.vendor.orig"].is = "none"
  BY <1>0, NameCases DEF Moving, Out, Names
<1>5. /\ a = "vendor" => (b = "vendor.orig" <=> start["vendor.orig"].is = "none")
      /\ a = "vendor" => b \in {"vendor.orig", "td/.vendor.orig"}
      /\ a # "vendor" => b # "vendor.orig" /\ b \in InTemp
      /\ ~Blocked(b)
      /\ a # "vendor.orig" /\ a # "td/vendor" /\ b # "td/vendor"
  <2>1. a # "vendor" => b # "vendor.orig"
    BY <1>0, NameCases
  <2>2. a # "vendor.orig" /\ a # "td/vendor" /\ b # "td/vendor"
    BY <1>0 DEF Names, Aside, Places
  <2> QED BY <1>0, <1>4, <2>1, <2>2, BackupFacts DEF Blocked
<1> HIDE DEF a, b
<1>6. CASE /\ Writes(a) /\ disk[a].is # "none" /\ MoveOk(a, b)
           /\ restore' = Append(restore, [from |-> b, to |-> a])
           /\ pc' = "in" /\ bak' = IF a = "vendor" THEN b ELSE bak
  <2>1. /\ disk' \in [Paths -> Contents]
        /\ disk'[b] = disk[a] /\ disk'[a] = Nothing
        /\ \A p \in Paths \ {a, b} : disk'[p] = disk[p]
        /\ faults' = faults
    BY <1>0, <1>6, MoveOkFacts DEF Typed
  <2>2. start[a].is = "old" /\ disk'[b].is = "old" /\ disk'[a].is = "none"
    BY <1>0, <1>4, <1>6, <2>1, ContentsFacts DEF Started
  <2>3. /\ Len(restore') = Len(restore) + 1 /\ Len(restore) \in Nat
        /\ \A k \in 1..Len(restore) : restore'[k] = restore[k]
        /\ restore'[Len(restore) + 1] = [from |-> b, to |-> a]
        /\ restore' \in Seq([from : Paths, to : Names])
    BY <1>0, <1>6 DEF Typed
  <2>4. \A x : Pending(x)' <=> Pending(x) \/ x = a
    BY <2>3 DEF Pending
  <2>5. \A k \in 1..Len(restore) : Pos(restore[k].to) < at /\ restore[k].to \in Names
    <3>1. ASSUME NEW k \in 1..Len(restore)
          PROVE  Pos(restore[k].to) < at /\ restore[k].to \in Names
      <4>1. restore[k].to \in Names
        BY PairFacts
      <4>2. Pending(restore[k].to) BY DEF Pending
      <4> QED BY <1>0, <4>1, <4>2 DEF Moving, Out
    <3> QED BY <3>1
  <2>6. Typed'
    BY <1>0, <1>2, <1>5, <1>6, <2>1, <2>3 DEF Typed
  <2>7. Listed'
    <3>1. ASSUME NEW k \in 1..Len(restore')
          PROVE  /\ restore'[k].from \in Aside(restore'[k].to)
                 /\ restore'[k].to = "vendor" =>
                      (restore'[k].from = "vendor.orig" <=> start["vendor.orig"].is = "none")
      <4>1. CASE k \in 1..Len(restore) BY <2>3, <4>1 DEF Listed
      <4>2. CASE k = Len(restore) + 1 BY <1>0, <1>5, <2>3, <4>2
      <4> QED BY <2>3, <4>1, <4>2
    <3>2. ASSUME NEW j \in 1..Len(restore'), NEW k \in 1..Len(restore'), j < k
          PROVE  Pos(restore'[j].to) < Pos(restore'[k].to)
      <4>1. CASE k \in 1..Len(restore)
        <5>1. j \in 1..Len(restore) BY <3>2, <4>1
        <5> QED BY <2>3, <3>2, <4>1, <5>1 DEF Listed
      <4>2. CASE k = Len(restore) + 1
        <5>1. j \in 1..Len(restore) BY <2>3, <3>2, <4>2
        <5>2. restore'[k].to = a /\ restore'[j] = restore[j] BY <2>3, <4>2, <5>1
        <5> QED BY <1>0, <2>5, <5>1, <5>2
      <4> QED BY <2>3, <4>1, <4>2
    <3> QED BY <1>2, <3>1, <3>2 DEF Listed
  <2>8. Spared'
    <3>1. start["vendor.orig"].is = "kept" => b # "vendor.orig"
      BY <1>5
    <3>2. "vendor.orig" \in Paths
      BY DEF Paths, InPlace
    <3> QED BY <1>2, <1>5, <1>6, <2>1, <3>1, <3>2 DEF Spared, LeftoverKept
  <2>9. Moving'
    <3>1. ASSUME NEW x \in Names
          PROVE  /\ ~Writes(x)' \/ ~Out(x)' => disk'[x].is = start'[x].is
                 /\ Writes(x)' /\ Pos(x) < at' => disk'[x].is = "new"
                 /\ Writes(x)' /\ Out(x)' /\ Pos(x) = at' => disk'[x].is = "none"
                 /\ Writes(x)' /\ Pos(x) >= at' => disk'[Staged[x]].is = "new"
                 /\ Pending(x)' <=> Writes(x)' /\ Out(x)' /\ start'[x].is = "old"
      <4>1. disk'[Staged[x]] = disk[Staged[x]]
        BY <1>0, <2>1, StagedFacts
      <4>2. CASE x = a
        BY <1>0, <1>2, <1>6, <2>2, <2>4, <4>1, <4>2, SameRequest DEF Moving, Out
      <4>3. CASE x # a
        <5>1. disk'[x] = disk[x]
          BY <1>0, <2>1, <4>3, AsideFacts, NameCases DEF Paths
        <5>2. Pos(x) # at /\ Pos(x) \in 1..3
          BY <1>0, <4>3, AsideFacts, NameCases
        <5>3. Out(x)' <=> Out(x)
          BY <1>0, <5>2 DEF Out
        <5> QED BY <1>0, <1>2, <2>4, <4>1, <4>3, <5>1, <5>2, <5>3, SameRequest DEF Moving
      <4> QED BY <4>2, <4>3
    <3>2. ASSUME NEW k \in 1..Len(restore')
          PROVE  disk'[restore'[k].from].is = "old"
      <4>1. CASE k \in 1..Len(restore)
        <5>1. restore[k].to # a /\ restore[k].from \in Aside(restore[k].to)
          BY <1>0, <2>5, <4>1 DEF Listed
        <5>2. restore[k].from \notin {a, b} /\ restore[k].from \in Paths
          BY <1>0, <2>5, <4>1, <5>1, AsideFacts
        <5> QED BY <1>0, <2>1, <2>3, <4>1, <5>2 DEF Moving
      <4>2. CASE k = Len(restore) + 1 BY <2>2, <2>3, <4>2
      <4> QED BY <2>3, <4>1, <4>2
    <3>3. ~Pending("vendor")' => /\ disk'["vendor.orig"].is = start["vendor.orig"].is
                                 /\ disk'["td/.vendor.orig"].is = "none"
      <4>1. a # "vendor" => "vendor.orig" \notin {a, b} /\ "td/.vendor.orig" \notin {a, b}
        BY <1>0 DEF Names, Aside, Places
      <4>2. "vendor.orig" \in Paths /\ "td/.vendor.orig" \in Paths
        BY DEF Paths, InPlace, InTemp
      <4> QED BY <1>4, <2>1, <2>4, <4>1, <4>2
    <3> QED BY <1>2, <3>1, <3>2, <3>3 DEF Moving
  <2>10. GitAlong'
    <3>1. "td/vendor" \in Paths
      BY DEF Paths, InTemp
    <3> QED BY <1>0, <1>2, <1>5, <1>6, <2>1, <3>1, SameRequest DEF GitAlong
  <2> QED BY <1>3, <1>6, <2>6, <2>7, <2>8, <2>9, <2>10
          DEF Staging, Written, Failing, RolledBack, Survived
<1>7. CASE /\ Writes(a) /\ disk[a].is # "none" /\ MoveFails(a, b)
           /\ restore' = restore
           /\ pc' = "fail" /\ bak' = IF a = "vendor" THEN b ELSE bak
  <2>1. /\ disk' \in [Paths -> Contents]
        /\ \A p \in Paths \ {a, b} : disk'[p] = disk[p]
        /\ disk'[a] = disk[a] \/ (a \in Vendors /\ Across(a, b) /\ disk'[b] = disk[a])
        /\ faults' \in 0..MaxFaults /\ faults' = faults + 1
    BY <1>0, <1>5, <1>7, MoveFailsFacts DEF Typed
  <2>2. Typed'
    BY <1>0, <1>2, <1>5, <1>7, <2>1 DEF Typed
  <2>3. Spared'
    <3>1. start["vendor.orig"].is = "kept" => b # "vendor.orig"
      BY <1>5
    <3>2. "vendor.orig" \in Paths
      BY DEF Paths, InPlace
    <3> QED BY <1>2, <1>5, <1>7, <2>1, <3>1, <3>2 DEF Spared, LeftoverKept
  <2>4. Failing'
    <3>1. ASSUME NEW x \in Names, start[x].is = "old"
          PROVE  Recoverable(x)'
      <4>1. CASE x # a
        BY <1>0, <1>2, <1>7, <2>1, <3>1, <4>1, OthersRecoverable
      <4>2. CASE x = a /\ disk'[a] = disk[a]
        <5>1. ~Pending(x)'
          BY <1>4, <1>7, <4>2 DEF Pending
        <5> QED BY <1>4, <3>1, <4>2, <5>1 DEF Recoverable
      <4>3. CASE x = a /\ a \in Vendors /\ Across(a, b)
        <5>1. a = "vendor" /\ xdev /\ b \in InTemp
          BY <1>0, <4>3, NameCases DEF Across
        <5>2. b # "vendor.orig"
          BY <5>1 DEF InTemp
        <5> QED BY <1>2, <1>5, <4>3, <5>1, <5>2 DEF Recoverable, Stranded
      <4> QED BY <2>1, <4>1, <4>2, <4>3
    <3>2. faults' >= 1
      BY <2>1 DEF Typed
    <3> QED BY <1>2, <3>1, <3>2 DEF Failing
  <2> QED BY <1>2, <1>3, <1>7, <2>2, <2>3, <2>4, SameList
          DEF Staging, Moving, Written, RolledBack, Survived, GitAlong
<1>8. CASE /\ ~Writes(a) \/ disk[a].is = "none"
           /\ pc' = "in" /\ UNCHANGED <<disk, faults, restore, bak>>
  <2>1. Typed' BY <1>0, <1>2, <1>8 DEF Typed
  <2>2. Spared' BY <1>2, <1>8 DEF Spared, LeftoverKept
  <2>3. Moving'
    <3>1. ASSUME NEW x \in Names
          PROVE  /\ ~Writes(x)' \/ ~Out(x)' => disk'[x].is = start'[x].is
                 /\ Writes(x)' /\ Pos(x) < at' => disk'[x].is = "new"
                 /\ Writes(x)' /\ Out(x)' /\ Pos(x) = at' => disk'[x].is = "none"
                 /\ Writes(x)' /\ Pos(x) >= at' => disk'[Staged[x]].is = "new"
                 /\ Pending(x)' <=> Writes(x)' /\ Out(x)' /\ start'[x].is = "old"
      <4>1. Pending(x)' <=> Pending(x)
        BY <1>8 DEF Pending
      <4>2. CASE x = a
        BY <1>0, <1>2, <1>4, <1>8, <4>1, <4>2, SameRequest DEF Moving, Out
      <4>3. CASE x # a
        <5>1. Pos(x) # at /\ Pos(x) \in 1..3
          BY <1>0, <4>3, AsideFacts, NameCases
        <5>2. Out(x)' <=> Out(x)
          BY <1>0, <5>1 DEF Out
        <5> QED BY <1>0, <1>2, <1>8, <4>1, <5>1, <5>2, SameRequest DEF Moving
      <4> QED BY <4>2, <4>3
    <3> QED BY <1>0, <1>2, <1>4, <1>8, <3>1 DEF Moving
  <2>4. GitAlong' BY <1>0, <1>2, <1>8, SameRequest DEF GitAlong
  <2> QED BY <1>2, <1>3, <1>8, <2>1, <2>2, <2>3, <2>4, SameList
          DEF Staging, Written, Failing, RolledBack, Survived
<1> QED BY <1>1, <1>6, <1>7, <1>8
LEMMA MoveInInv ==
  ASSUME WriterInv, MoveIn
  PROVE  WriterInv'
<1> DEFINE a == Artifacts[at]
           b == Staged[a]
<1> USE DEF WriterInv
<1>0. /\ a \in Names /\ Pos(a) = at /\ at \in 1..3 /\ a \in Paths /\ b \in Paths /\ a # b
      /\ \A y \in Names : b # y /\ b \notin Aside(y) /\ (b = Staged[y] => a = y)
      /\ Len(Artifacts) = 3
      /\ pc = "in" /\ a \notin InTemp /\ b \in InTemp
      /\ a = "vendor" <=> a \in Vendors
      /\ a = "vendor" <=> at = 3
      /\ b = Staged[a]
  BY AtFacts, StagedFacts, NameCases DEF Typed, MoveIn, Paths
<1>1. \/ Writes(a) /\ MoveOk(b, a) /\ GoOn("out", "removebak")
      \/ Writes(a) /\ MoveFails(b, a) /\ pc' = "fail" /\ at' = at
      \/ ~Writes(a) /\ GoOn("out", "removebak") /\ UNCHANGED <<disk, faults>>
  BY DEF MoveIn
<1>2. UNCHANGED <<req, xdev, start, restore, bak>>
  BY DEF MoveIn
<1>3. GoOn("out", "removebak") => \/ at < 3 /\ at' = at + 1 /\ pc' = "out"
                                  \/ at = 3 /\ at' = 1 /\ pc' = "removebak"
  BY <1>0 DEF GoOn
<1>4. Started' /\ Listed'
  BY <1>2, SameRequest, SameList
<1>5. "vendor.orig" \in Paths /\ "vendor.orig" \notin {a, b}
      /\ "td/.vendor.orig" \in Paths /\ "td/.vendor.orig" \notin {a, b}
  BY <1>0 DEF Names, Paths, InPlace, InTemp, Staged
<1>6. Writes(a) => disk[a].is = "none" /\ disk[b].is = "new" /\ ~Blocked(a)
  BY <1>0 DEF Moving, Out, Blocked
<1> HIDE DEF a, b
<1>7. CASE pc' # "fail"
  <2>1. /\ disk' \in [Paths -> Contents]
        /\ \A p \in Paths \ {a, b} : disk'[p] = disk[p]
        /\ faults' = faults
        /\ GoOn("out", "removebak")
        /\ Writes(a) => disk'[a] = disk[b]
        /\ ~Writes(a) => disk' = disk
    BY <1>0, <1>1, <1>7, MoveOkFacts DEF Typed
  <2>2. Typed'
    BY <1>0, <1>2, <1>3, <2>1 DEF Typed
  <2>3. Spared'
    BY <1>2, <1>5, <2>1 DEF Spared, LeftoverKept
  <2>4. ASSUME NEW x \in Names, Pos(x) <= at
        PROVE  disk'[x].is = IF Writes(x) THEN "new" ELSE start[x].is
    <3>1. CASE x = a
      BY <1>0, <1>6, <2>1, <3>1 DEF Moving
    <3>2. CASE x # a
      <4>1. Pos(x) < at /\ disk'[x] = disk[x]
        BY <1>0, <2>1, <2>4, <3>2, AsideFacts, NameCases DEF Paths
      <4> QED BY <1>0, <4>1 DEF Moving
    <3> QED BY <3>1, <3>2
  <2>5. Written'
    <3>1. ASSUME pc' = "removebak", NEW x \in Names
          PROVE  disk'[x].is = IF Writes(x) THEN "new" ELSE start[x].is
      BY <1>0, <1>3, <2>1, <2>4, <3>1, NameCases
    <3> QED BY <1>2, <1>3, <2>1, <3>1, SameRequest DEF Written
  <2>6. ASSUME pc' = "out" PROVE Moving'
    <3>1. at < 3 /\ at' = at + 1 /\ a # "vendor"
      BY <1>0, <1>3, <2>1, <2>6
    <3>2. ASSUME NEW x \in Names
          PROVE  /\ ~Writes(x)' \/ ~Out(x)' => disk'[x].is = start'[x].is
                 /\ Writes(x)' /\ Pos(x) < at' => disk'[x].is = "new"
                 /\ ~(Out(x)' /\ Pos(x) = at')
                 /\ Writes(x)' /\ Pos(x) >= at' => disk'[Staged[x]].is = "new"
                 /\ Pending(x)' <=> Writes(x)' /\ Out(x)' /\ start'[x].is = "old"
      <4>1. Pending(x)' <=> Pending(x)
        BY <1>2 DEF Pending
      <4>2. Out(x)' <=> Out(x)
        BY <1>0, <2>6, <3>1, NameCases DEF Out
      <4>3. CASE Pos(x) <= at
        <5>1. Out(x)' /\ Pos(x) < at'
          BY <1>0, <3>1, <4>3, NameCases DEF Out
        <5> QED BY <1>0, <1>2, <2>4, <3>1, <4>1, <4>2, <4>3, <5>1, NameCases, SameRequest
                DEF Moving
      <4>4. CASE Pos(x) > at
        <5>1. x # a /\ disk'[x] = disk[x] /\ disk'[Staged[x]] = disk[Staged[x]] /\ ~Out(x)
          BY <1>0, <2>1, <4>4, NameCases, StagedFacts DEF Paths, Out
        <5> QED BY <1>0, <1>2, <3>1, <4>1, <4>2, <4>4, <5>1, NameCases, SameRequest DEF Moving
      <4> QED BY <1>0, <4>3, <4>4, NameCases
    <3>3. ASSUME NEW k \in 1..Len(restore)
          PROVE  disk'[restore[k].from].is = "old"
      <4>1. restore[k].from \in Aside(restore[k].to) /\ restore[k].to \in Names
        BY PairFacts DEF Listed
      <4>2. restore[k].from \in Paths \ {a, b}
        BY <1>0, <4>1, AsideFacts
      <4> QED BY <1>0, <2>1, <4>2 DEF Moving
    <3>4. ~Pending("vendor") /\ ~Pending("vendor")'
      BY <1>0, <1>2, <3>1, NameCases DEF Moving, Out, Names, Pending
    <3>5. /\ disk'["vendor.orig"].is = start["vendor.orig"].is
          /\ disk'["td/.vendor.orig"].is = "none"
      BY <1>0, <1>5, <2>1, <3>4 DEF Moving
    <3> QED BY <1>2, <3>2, <3>3, <3>4, <3>5 DEF Moving
  <2>7. GitAlong'
    <3> SUFFICES ASSUME faults = 0, WriteVendor, start["vendor"].git
                 PROVE  IF pc' = "out" THEN disk'["td/vendor"].git ELSE disk'["vendor"].git
      BY <1>2, <1>3, <2>1, SameRequest DEF GitAlong
    <3>1. disk["td/vendor"].git
      BY <1>0 DEF GitAlong
    <3>2. CASE at < 3
      <4>1. "td/vendor" \in Paths \ {a, b}
        BY <1>0, <3>2 DEF Names, Paths, InTemp, Staged
      <4> QED BY <1>3, <2>1, <3>1, <3>2, <4>1
    <3>3. CASE at = 3
      <4>1. a = "vendor" /\ b = "td/vendor" /\ Writes("vendor")
        BY <1>0, <3>3 DEF Staged, Writes
      <4> QED BY <1>3, <2>1, <3>1, <3>3, <4>1
    <3> QED BY <1>0, <3>2, <3>3
  <2>8. pc' \in {"out", "removebak"}
    BY <1>3, <2>1
  <2>9. Moving'
    BY <2>6, <2>8 DEF Moving
  <2> QED BY <1>4, <2>2, <2>3, <2>5, <2>7, <2>8, <2>9
          DEF Staging, Failing, RolledBack, Survived
<1>8. CASE pc' = "fail"
  <2>0. Writes(a) /\ MoveFails(b, a) /\ at' = at
    BY <1>1, <1>3, <1>8
  <2>1. /\ disk' \in [Paths -> Contents]
        /\ \A p \in Paths \ {a, b} : disk'[p] = disk[p]
        /\ ~Across(b, a) => disk' = disk
        /\ faults' \in 0..MaxFaults /\ faults' = faults + 1
    BY <1>0, <1>6, <2>0, MoveFailsFacts DEF Typed
  <2>2. Typed'
    BY <1>0, <1>2, <1>8, <2>0, <2>1 DEF Typed
  <2>3. Spared'
    BY <1>2, <1>5, <2>1 DEF Spared, LeftoverKept
  <2>4. Failing'
    <3>1. ASSUME NEW x \in Names, start[x].is = "old"
          PROVE  Recoverable(x)'
      <4>1. CASE x # a
        BY <1>0, <1>2, <2>1, <3>1, <4>1, OthersRecoverable
      <4>2. CASE x = a
        <5>1. Pending(a)
          BY <1>0, <2>0, <3>1, <4>2 DEF Moving, Out
        <5>2. PICK k \in 1..Len(restore) : restore[k].to = a
          BY <5>1 DEF Pending
        <5>3. restore[k].from \in Aside(a) /\ disk[restore[k].from].is = "old"
          BY <1>0, <5>2 DEF Listed, Moving
        <5>4. restore[k].from \in Paths \ {a, b}
          BY <1>0, <5>3, AsideFacts
        <5>5. disk'[restore'[k].from].is = "old"
          BY <1>2, <2>1, <5>3, <5>4
        <5>6. x = "vendor" /\ ~xdev => disk'["vendor"].is = "none"
          BY <1>6, <2>0, <2>1, <4>2 DEF Across
        <5> QED BY <1>2, <4>2, <5>2, <5>5, <5>6 DEF Recoverable
      <4> QED BY <4>1, <4>2
    <3>2. faults' >= 1
      BY <2>1 DEF Typed
    <3> QED BY <1>2, <3>1, <3>2 DEF Failing
  <2> QED BY <1>4, <1>8, <2>2, <2>3, <2>4
          DEF Staging, Moving, Written, RolledBack, Survived, GitAlong
<1> QED BY <1>7, <1>8

LEMMA RemoveBakInv ==
  ASSUME WriterInv, RemoveBak
  PROVE  WriterInv'
<1> USE DEF RemoveBak, WriterInv
<1>1. \/ disk' = disk
      \/ bak # "none" /\ disk' = [disk EXCEPT ![bak] = Nothing]
      \/ bak # "none" /\ disk' = [disk EXCEPT ![bak] = Plain("part")]
  OBVIOUS
<1>2. bak # "none" => bak \in Paths /\ \A x \in Names : bak # x
  BY DEF Typed, Paths, InTemp, InPlace, Names
<1>3. /\ disk' \in [Paths -> Contents]
      /\ \A p \in Paths : p # bak => disk'[p] = disk[p]
      /\ \A x \in Names : disk'[x] = disk[x]
  <2>1. /\ disk' \in [Paths -> Contents]
        /\ \A p \in Paths : p # bak => disk'[p] = disk[p]
    BY <1>1, <1>2, ContentsFacts DEF Typed
  <2> QED BY <1>1, <1>2, <2>1, NameCases DEF Paths
<1>4. Typed' BY <1>3, SafeWriterAssumption DEF Typed, Ended
<1>5. Started' /\ Listed' BY SameRequest, SameList
<1>6. Spared'
  <2>1. "vendor.orig" \in Paths BY DEF Paths, InPlace
  <2> QED BY <1>3, <2>1 DEF Spared, LeftoverKept
<1>7. Written' BY <1>3, SameRequest DEF Written
<1>8. GitAlong' BY <1>3, SameRequest DEF GitAlong, Typed, Names
<1> QED BY <1>4, <1>5, <1>6, <1>7, <1>8
        DEF Staging, Moving, Failing, RolledBack, Survived

LEMMA CleanupInv ==
  ASSUME WriterInv, Cleanup
  PROVE  WriterInv'
<1> USE DEF Cleanup, WriterInv
<1>1. /\ disk' \in [Paths -> Contents]
      /\ \A p \in InPlace : disk'[p] = disk[p]
  <2>1. InPlace \cap InTemp = {}
    BY DEF InPlace, InTemp
  <2> QED BY <2>1, ContentsFacts DEF Typed, Paths
<1>2. \A x \in Names : disk'[x] = disk[x]
  BY <1>1, NameCases
<1>3. Typed' BY <1>1, SafeWriterAssumption DEF Typed, Ended
<1>4. Started' /\ Listed' BY SameRequest, SameList
<1>5. Spared' BY <1>1 DEF Spared, LeftoverKept, InPlace
<1>6. Written' BY <1>2, SameRequest DEF Written
<1>7. RolledBack'
  <2>1. \A x : Stranded(x) => Stranded(x)'
    BY <1>1 DEF Stranded, InPlace
  <2>2. faults' <= 1 => faults <= 1
    BY SafeWriterAssumption DEF Typed
  <2> QED BY <1>2, <2>1, <2>2 DEF RolledBack
<1>8. GitAlong' BY <1>2, SafeWriterAssumption, SameRequest DEF GitAlong, Names, Typed
<1> QED BY <1>3, <1>4, <1>5, <1>6, <1>7, <1>8
        DEF Staging, Moving, Failing, Survived
(* The first pair on the list: where it goes and what it leaves alone.     *)
LEMMA HeadFacts ==
  ASSUME Typed, Listed, restore # <<>>
  PROVE  /\ Head(restore) = restore[1] /\ 1 \in 1..Len(restore)
         /\ Head(restore).to \in Names /\ Head(restore).from \in Paths
         /\ Head(restore).to \in Paths
         /\ Head(restore).from \in Aside(Head(restore).to)
         /\ Head(restore).from # Head(restore).to
         /\ \A x \in Names \ {Head(restore).to} :
              /\ x \notin {Head(restore).from, Head(restore).to}
              /\ Aside(x) \cap {Head(restore).from, Head(restore).to} = {}
<1>1. Head(restore) = restore[1] /\ 1 \in 1..Len(restore)
  BY DEF Typed
<1>2. /\ restore[1].to \in Names /\ restore[1].from \in Paths
      /\ restore[1].from \in Aside(restore[1].to)
  BY <1>1, PairFacts DEF Listed
<1> QED BY <1>1, <1>2, AsideFacts, NameCases DEF Paths

LEMMA RestoreInv ==
  ASSUME WriterInv, Restore
  PROVE  WriterInv'
<1> USE DEF WriterInv
<1>1. pc = "fail" /\ UNCHANGED <<req, xdev, start, at, bak>>
  BY DEF Restore
<1>2. Started'
  BY <1>1, SameRequest
<1>3. CASE restore # <<>>
  <2> DEFINE src == Head(restore).from
             dst == Head(restore).to
  <2>1. /\ MoveOk(src, dst) \/ MoveFails(src, dst)
        /\ restore' = Tail(restore)
        /\ pc' = "fail"
    BY <1>1, <1>3 DEF Restore
  <2>2. /\ dst \in Names /\ src \in Paths /\ dst \in Paths /\ src \in Aside(dst) /\ src # dst
        /\ 1 \in 1..Len(restore)
        /\ restore[1].from = src /\ restore[1].to = dst
        /\ \A x \in Names \ {dst} : x \notin {src, dst} /\ Aside(x) \cap {src, dst} = {}
    BY <1>3, HeadFacts
  <2>3. /\ Len(restore') = Len(restore) - 1 /\ Len(restore) \in Nat
        /\ \A k \in 1..Len(restore') : k + 1 \in 1..Len(restore) /\ restore'[k] = restore[k + 1]
        /\ \A k \in 1..Len(restore) : k # 1 => k - 1 \in 1..Len(restore') /\ restore'[k - 1] = restore[k]
        /\ restore' \in Seq([from : Paths, to : Names])
    BY <1>3, <2>1 DEF Typed
  <2> HIDE DEF src, dst
  <2>4. /\ disk' \in [Paths -> Contents]
        /\ \A p \in Paths \ {src, dst} : disk'[p] = disk[p]
        /\ faults' \in 0..MaxFaults /\ faults \in Nat /\ faults' \in Nat
        /\ \/ faults' = faults /\ disk'[dst] = disk[src]
           \/ faults' = faults /\ disk' = disk /\ (disk[src].is = "none" \/ Blocked(dst))
           \/ faults' = faults + 1
    BY <2>1, <2>2, MoveOkFacts, MoveFailsFacts, SafeWriterAssumption DEF Typed
  <2>5. Typed'
    BY <1>1, <2>1, <2>3, <2>4 DEF Typed
  <2>6. Listed'
    <3>1. ASSUME NEW k \in 1..Len(restore')
          PROVE  /\ restore'[k].from \in Aside(restore'[k].to)
                 /\ restore'[k].to = "vendor" =>
                      (restore'[k].from = "vendor.orig" <=> start["vendor.orig"].is = "none")
      BY <2>3 DEF Listed
    <3>2. ASSUME NEW j \in 1..Len(restore'), NEW k \in 1..Len(restore'), j < k
          PROVE  Pos(restore'[j].to) < Pos(restore'[k].to)
      <4>1. j + 1 < k + 1 /\ j + 1 \in 1..Len(restore) /\ k + 1 \in 1..Len(restore)
        BY <2>3, <3>2
      <4> QED BY <2>3, <4>1 DEF Listed
    <3> QED BY <1>1, <3>1, <3>2 DEF Listed
  <2>7. Spared'
    <3>1. start["vendor.orig"].is = "kept" => "vendor.orig" \notin {src, dst}
      <4>1. src = "vendor.orig" => dst = "vendor"
        BY <2>2, NameCases
      <4>2. dst # "vendor.orig"
        BY <2>2 DEF Names
      <4>3. src = "vendor.orig" => start["vendor.orig"].is = "none"
        BY <2>2, <4>1 DEF Listed
      <4> QED BY <4>2, <4>3
    <3>2. "vendor.orig" \in Paths
      BY DEF Paths, InPlace
    <3> QED BY <1>1, <2>4, <3>1, <3>2 DEF Spared, LeftoverKept
  <2>8. /\ \A x : x # dst => (Pending(x)' <=> Pending(x))
        /\ ~Pending(dst)
           \/ \A k \in 1..Len(restore') : restore'[k].to # dst
    <3>1. ASSUME NEW x, x # dst PROVE Pending(x)' <=> Pending(x)
      <4>1. Pending(x)' => Pending(x)
        BY <2>3 DEF Pending
      <4>2. ASSUME Pending(x) PROVE Pending(x)'
        <5>1. PICK k \in 1..Len(restore) : restore[k].to = x
          BY <4>2 DEF Pending
        <5>2. k # 1
          BY <2>2, <3>1, <5>1
        <5>3. k - 1 \in 1..Len(restore') /\ restore'[k - 1].to = x
          BY <2>3, <5>1, <5>2
        <5> QED BY <5>3 DEF Pending
      <4> QED BY <4>1, <4>2
    <3>2. ASSUME NEW k \in 1..Len(restore') PROVE restore'[k].to # dst
      <4>1. 1 < k + 1 /\ k + 1 \in 1..Len(restore) /\ restore'[k] = restore[k + 1]
        BY <2>3
      <4>2. Pos(restore[1].to) < Pos(restore[k + 1].to)
        BY <2>2, <4>1 DEF Listed
      <4>3. Pos(dst) \in 1..3
        BY <2>2, NameCases
      <4> QED BY <2>2, <4>1, <4>2, <4>3
    <3> QED BY <3>1, <3>2
  <2>9. ASSUME faults' = 1, NEW x \in Names, start[x].is = "old"
        PROVE  Recoverable(x)'
    <3>1. faults = 1 /\ faults' = faults /\ Recoverable(x)
      BY <1>1, <2>4, <2>9 DEF Failing
    <3>2. CASE x # dst
      <4>1. /\ disk'[x] = disk[x]
            /\ \A p \in Aside(x) : disk'[p] = disk[p]
        BY <2>2, <2>4, <3>2, NameCases DEF Paths
      <4>2. CASE disk[x].is = "old" /\ ~Pending(x)
        <5>1. ~Pending(x)'
          BY <2>8, <3>2, <4>2
        <5> QED BY <4>1, <4>2, <5>1 DEF Recoverable
      <4>3. CASE \E k \in 1..Len(restore) :
                   /\ restore[k].to = x
                   /\ disk[restore[k].from].is = "old"
                   /\ x = "vendor" /\ ~xdev => disk["vendor"].is = "none"
        <5>1. PICK k \in 1..Len(restore) :
                /\ restore[k].to = x
                /\ disk[restore[k].from].is = "old"
                /\ x = "vendor" /\ ~xdev => disk["vendor"].is = "none"
          BY <4>3
        <5>2. k - 1 \in 1..Len(restore') /\ restore'[k - 1] = restore[k]
          BY <2>2, <2>3, <3>2, <5>1
        <5>3. restore[k].from \in Aside(x)
          BY <5>1 DEF Listed
        <5>4. /\ restore'[k - 1].to = x
              /\ disk'[restore'[k - 1].from].is = "old"
              /\ x = "vendor" /\ ~xdev' => disk'["vendor"].is = "none"
          BY <1>1, <4>1, <5>1, <5>2, <5>3
        <5> QED BY <5>2, <5>4 DEF Recoverable
      <4>4. CASE Stranded(x)
        <5>1. "vendor.orig" \in Aside("vendor")
          BY DEF Aside, Places
        <5> QED BY <1>1, <4>1, <4>4, <5>1 DEF Recoverable, Stranded
      <4> QED BY <3>1, <4>2, <4>3, <4>4 DEF Recoverable
    <3>3. CASE x = dst
      <4>0. Pending(x)
        BY <2>2, <3>3 DEF Pending
      <4>1. ~Pending(x)'
        BY <2>8, <3>3, <4>0 DEF Pending
      <4>2. dst = "vendor" /\ start["vendor.orig"].is = "none" <=> src = "vendor.orig"
        BY <2>2, NameCases DEF Listed
      <4>3. \A k \in 1..Len(restore) : restore[k].to = x => k = 1
        <5>1. ASSUME NEW k \in 1..Len(restore), restore[k].to = x, k # 1 PROVE FALSE
          <6>1. k - 1 \in 1..Len(restore') /\ restore'[k - 1].to = dst
            BY <2>3, <3>3, <5>1
          <6> QED BY <2>8, <3>3, <4>0, <6>1
        <5> QED BY <5>1
      <4>4. \/ disk[src].is = "old" /\ (x = "vendor" /\ ~xdev => disk["vendor"].is = "none")
            \/ Stranded(x)
        BY <2>2, <3>1, <4>0, <4>3 DEF Recoverable
      <4>5. Stranded(x) /\ src # "vendor.orig" => Stranded(x)'
        BY <1>1, <3>3, <4>2 DEF Stranded
      <4>6. CASE disk'[dst] = disk[src]
        <5>1. disk[src].is = "old" => Recoverable(x)'
          BY <3>3, <4>1, <4>6 DEF Recoverable
        <5>2. Stranded(x) /\ src = "vendor.orig" => disk[src].is = "old"
          BY <3>3, <4>2 DEF Stranded
        <5> QED BY <4>4, <4>5, <5>1, <5>2 DEF Recoverable
      <4>7. CASE disk' = disk /\ (disk[src].is = "none" \/ Blocked(dst))
        <5>1. CASE Stranded(x)
          BY <1>1, <4>7, <5>1 DEF Recoverable, Stranded
        <5>2. CASE disk[src].is = "old" /\ (x = "vendor" /\ ~xdev => disk["vendor"].is = "none")
          <6>1. Blocked(dst)
            BY <4>7, <5>2
          <6>2. dst = "vendor" /\ xdev
            BY <2>2, <3>3, <5>2, <6>1, NameCases DEF Blocked
          <6>3. Stranded(x)
            BY <3>3, <4>2, <5>2, <6>2 DEF Stranded
          <6> QED BY <1>1, <4>7, <6>3 DEF Recoverable, Stranded
        <5> QED BY <4>4, <5>1, <5>2
      <4> QED BY <2>4, <3>1, <4>6, <4>7
    <3> QED BY <3>2, <3>3
  <2>10. Failing'
    <3>1. faults' >= 1
      BY <1>1, <2>4 DEF Failing
    <3> QED BY <1>1, <2>9, <3>1 DEF Failing
  <2> QED BY <1>2, <2>1, <2>5, <2>6, <2>7, <2>10
          DEF Staging, Moving, Written, RolledBack, Survived, GitAlong
<1>4. CASE restore = <<>>
  <2>1. pc' = "cleanup:err" /\ UNCHANGED <<disk, faults, restore>>
    BY <1>4 DEF Restore
  <2>2. Typed' BY <1>1, <2>1 DEF Typed, Ended
  <2>3. Listed' BY <1>1, <2>1, SameList
  <2>4. Spared' BY <1>1, <2>1 DEF Spared, LeftoverKept
  <2>5. RolledBack'
    <3>1. ASSUME faults <= 1, NEW x \in Names, start[x].is = "old"
          PROVE  disk[x].is = "old" \/ Stranded(x)
      <4>1. faults = 1
        BY <1>1, <3>1, SafeWriterAssumption DEF Failing, Typed
      <4>2. Recoverable(x)
        BY <1>1, <3>1, <4>1 DEF Failing
      <4>3. Len(restore) = 0
        BY <1>4
      <4> QED BY <4>2, <4>3 DEF Recoverable
    <3>2. \A x : Stranded(x)' <=> Stranded(x)
      BY <1>1, <2>1 DEF Stranded
    <3> QED BY <1>1, <2>1, <3>1, <3>2 DEF RolledBack
  <2> QED BY <1>2, <2>1, <2>2, <2>3, <2>4, <2>5
          DEF Staging, Moving, Written, Failing, Survived, GitAlong
<1> QED BY <1>3, <1>4
-----------------------------------------------------------------------------
(* Kills. *)

LEMMA RecoverableSurvives ==
  ASSUME Listed, NEW x \in Names, Recoverable(x),
         xdev => start["vendor.orig"].is = "none"
  PROVE  \E p \in Places(x) : disk[p].is = "old"
<1>1. x \in Places(x) /\ Aside(x) \subseteq Places(x)
  BY DEF Places, Aside
<1>2. \A k \in 1..Len(restore) : restore[k].to = x => restore[k].from \in Places(x)
  BY <1>1 DEF Listed
<1>3. Stranded(x) => "vendor.orig" \in Places(x) /\ disk["vendor.orig"].is = "old"
  BY DEF Stranded, Places
<1> QED BY <1>1, <1>2, <1>3 DEF Recoverable

LEMMA RecoverableSurvivesNext ==
  ASSUME Listed', NEW x \in Names, Recoverable(x)', UNCHANGED <<xdev, start>>,
         xdev => start["vendor.orig"].is = "none"
  PROVE  \E p \in Places(x) : disk'[p].is = "old"
<1>1. x \in Places(x) /\ Aside(x) \subseteq Places(x)
  BY DEF Places, Aside
<1>2. \A k \in 1..Len(restore') : restore'[k].to = x => restore'[k].from \in Places(x)
  BY <1>1 DEF Listed
<1>3. Stranded(x)' => "vendor.orig" \in Places(x) /\ disk'["vendor.orig"].is = "old"
  BY DEF Stranded, Places
<1> QED BY <1>1, <1>2, <1>3 DEF Recoverable

(* In no state is an old artifact lost. *)
LEMMA InvSurvives ==
  ASSUME WriterInv
  PROVE  OldSurvives
<1> USE DEF WriterInv
<1> SUFFICES ASSUME faults <= 1, xdev => start["vendor.orig"].is = "none"
             PROVE  \/ \A x \in Names : Writes(x) => disk[x].is = "new"
                    \/ \A x \in Names : start[x].is = "old" => \E p \in Places(x) : disk[p].is = "old"
  BY ArtifactNames DEF OldSurvives
<1>0. \A x : x \in Places(x)
  BY DEF Places
<1>1. CASE pc \in {"new", "stage", "dotgit"}
  <2>1. \A x \in Names : disk[x] = start[x]
    BY <1>1, NameCases DEF Staging
  <2> QED BY <1>0, <2>1
<1>2. CASE pc \in {"out", "in"}
  <2>1. ASSUME NEW x \in Names, start[x].is = "old"
        PROVE  \E p \in Places(x) : disk[p].is = "old"
    <3>1. CASE Pending(x)
      <4>1. PICK k \in 1..Len(restore) : restore[k].to = x
        BY <3>1 DEF Pending
      <4>2. restore[k].from \in Places(x) /\ disk[restore[k].from].is = "old"
        BY <1>2, <4>1 DEF Listed, Aside, Moving
      <4> QED BY <4>2
    <3>2. CASE ~Pending(x)
      BY <1>0, <1>2, <2>1, <3>2 DEF Moving
    <3> QED BY <3>1, <3>2
  <2> QED BY <2>1
<1>3. CASE pc \in {"removebak", "cleanup:ok", "ok"}
  BY <1>3 DEF Written
<1>4. CASE pc = "fail"
  <2>1. faults = 1
    BY <1>4, SafeWriterAssumption DEF Failing, Typed
  <2> QED BY <1>4, <2>1, RecoverableSurvives DEF Failing
<1>5. CASE pc \in {"cleanup:err", "err"}
  <2>1. ASSUME NEW x \in Names, start[x].is = "old"
        PROVE  \E p \in Places(x) : disk[p].is = "old"
    <3>1. Stranded(x) => "vendor.orig" \in Places(x) /\ disk["vendor.orig"].is = "old"
      BY DEF Stranded, Places
    <3> QED BY <1>0, <1>5, <2>1, <3>1 DEF RolledBack
  <2> QED BY <2>1
<1>6. CASE pc \in {"refused", "killed"}
  BY <1>6, ArtifactNames DEF Survived, OldSurvives
<1> QED BY <1>1, <1>2, <1>3, <1>4, <1>5, <1>6 DEF Typed, Ended
LEMMA KilledInv ==
  ASSUME WriterInv, Killed
  PROVE  WriterInv'
<1> DEFINE a == Artifacts[at]
<1> USE DEF WriterInv
<1>0. /\ UNCHANGED <<req, xdev, start, at, restore, bak, faults>>
      /\ pc' = "killed"
      /\ a \in Names /\ Pos(a) = at /\ a \in Paths
  BY AtFacts, NameCases DEF Killed, Typed, Paths
<1>1. \/ disk' = disk
      \/ pc = "out" /\ disk' \in Botched(a, Backup(a)) /\ ~Blocked(Backup(a))
      \/ pc = "in" /\ Writes(a) /\ disk' \in Botched(Staged[a], a)
      \/ /\ pc = "fail" /\ restore # <<>>
         /\ disk' \in Botched(Head(restore).from, Head(restore).to)
      \/ /\ pc = "removebak" /\ bak # "none"
         /\ disk' = [disk EXCEPT ![bak] = Plain("part")]
  BY DEF Killed, CutShort
<1>2. Started' /\ Listed'
  BY <1>0, SameRequest, SameList
<1> HIDE DEF a
<1>3. ASSUME NEW src \in Paths, NEW dst \in Paths, src # dst, disk' \in Botched(src, dst)
      PROVE  /\ disk' \in [Paths -> Contents]
             /\ \A p \in Paths \ {src, dst} : disk'[p] = disk[p]
             /\ disk'[src] = disk[src] \/ disk'[dst] = disk[src]
  BY <1>3, BotchedFacts DEF Typed
<1>4. ASSUME disk' \in [Paths -> Contents],
             faults <= 1 /\ (xdev => start["vendor.orig"].is = "none") =>
               \/ \A x \in Names : Writes(x) => disk'[x].is = "new"
               \/ \A x \in Names : start[x].is = "old" => \E p \in Places(x) : disk'[p].is = "old",
             start["vendor.orig"].is = "kept" => disk'["vendor.orig"] = disk["vendor.orig"]
      PROVE  WriterInv'
  <2>1. Typed'
    BY <1>0, <1>4 DEF Typed, Ended
  <2>2. Spared'
    BY <1>0, <1>4 DEF Spared, LeftoverKept
  <2>3. OldSurvives'
    BY <1>0, <1>4, ArtifactNames, SameRequest DEF OldSurvives
  <2> QED BY <1>0, <1>2, <2>1, <2>2, <2>3
          DEF Staging, Moving, Written, Failing, RolledBack, Survived, GitAlong
<1>5. "vendor.orig" \in Paths
  BY DEF Paths, InPlace
<1>6. CASE disk' = disk
  <2>1. faults <= 1 /\ (xdev => start["vendor.orig"].is = "none") =>
          \/ \A x \in Names : Writes(x) => disk[x].is = "new"
          \/ \A x \in Names : start[x].is = "old" => \E p \in Places(x) : disk[p].is = "old"
    BY InvSurvives, ArtifactNames DEF OldSurvives
  <2> QED BY <1>4, <1>6, <2>1 DEF Typed
<1>7. CASE pc = "out" /\ disk' \in Botched(a, Backup(a)) /\ ~Blocked(Backup(a))
  <2> DEFINE b == Backup(a)
  <2>1. b \in Aside(a) /\ b \in Paths /\ b # a
    BY <1>0, BackupFacts, AsideFacts
  <2>2. b = "vendor.orig" => disk["vendor.orig"].is = "none"
    BY <1>0, <1>7, <2>1, BackupFacts, NameCases
  <2>3. a # "vendor.orig"
    BY <1>0 DEF Names
  <2> HIDE DEF b
  <2>4. /\ disk' \in [Paths -> Contents]
        /\ \A p \in Paths \ {a, b} : disk'[p] = disk[p]
        /\ disk'[a] = disk[a] \/ disk'[b] = disk[a]
    BY <1>0, <1>3, <1>7, <2>1 DEF b
  <2>5. start["vendor.orig"].is = "kept" => disk'["vendor.orig"] = disk["vendor.orig"]
    BY <1>5, <2>2, <2>3, <2>4 DEF Spared, LeftoverKept
  <2>6. ASSUME xdev => start["vendor.orig"].is = "none",
               NEW x \in Names, start[x].is = "old"
        PROVE  \E p \in Places(x) : disk'[p].is = "old"
    <3>1. CASE x = a
      <4>1. disk[a].is = "old"
        BY <1>0, <1>7, <2>6, <3>1 DEF Moving, Out, Typed
      <4>2. a \in Places(a) /\ b \in Places(a)
        BY <2>1 DEF Places, Aside
      <4> QED BY <2>4, <3>1, <4>1, <4>2
    <3>2. CASE x # a
      <4>1. Recoverable(x)'
        BY <1>0, <1>7, <2>1, <2>4, <2>6, <3>2, OthersRecoverable
      <4> QED BY <1>0, <1>2, <2>6, <4>1, RecoverableSurvivesNext
    <3> QED BY <3>1, <3>2
  <2> QED BY <1>4, <2>4, <2>5, <2>6
<1>8. CASE pc = "in" /\ Writes(a) /\ disk' \in Botched(Staged[a], a)
  <2> DEFINE b == Staged[a]
  <2>1. /\ b \in Paths /\ b # a /\ \A y \in Names : b \notin Aside(y)
        /\ b # "vendor.orig" /\ a # "vendor.orig"
    BY <1>0, StagedFacts DEF InPlace, Names
  <2> HIDE DEF b
  <2>2. /\ disk' \in [Paths -> Contents]
        /\ \A p \in Paths \ {a, b} : disk'[p] = disk[p]
    BY <1>0, <1>3, <1>8, <2>1 DEF b
  <2>3. ASSUME xdev => start["vendor.orig"].is = "none",
               NEW x \in Names, start[x].is = "old"
        PROVE  \E p \in Places(x) : disk'[p].is = "old"
    <3>1. CASE x = a
      <4>1. Pending(a)
        BY <1>0, <1>8, <2>3, <3>1 DEF Moving, Out
      <4>2. PICK k \in 1..Len(restore) : restore[k].to = a
        BY <4>1 DEF Pending
      <4>3. restore[k].from \in Aside(a) /\ disk[restore[k].from].is = "old"
        BY <1>8, <4>2 DEF Listed, Moving
      <4>4. restore[k].from \in Paths \ {a, b} /\ restore[k].from \in Places(a)
        BY <1>0, <2>1, <4>3, AsideFacts DEF Aside
      <4> QED BY <2>2, <3>1, <4>3, <4>4
    <3>2. CASE x # a
      <4>1. Recoverable(x)'
        BY <1>0, <1>8, <2>2, <2>3, <3>2, OthersRecoverable DEF b
      <4> QED BY <1>0, <1>2, <2>3, <4>1, RecoverableSurvivesNext
    <3> QED BY <3>1, <3>2
  <2> QED BY <1>4, <1>5, <2>1, <2>2, <2>3
<1>9. CASE /\ pc = "fail" /\ restore # <<>>
           /\ disk' \in Botched(Head(restore).from, Head(restore).to)
  <2> DEFINE src == Head(restore).from
             dst == Head(restore).to
  <2>1. /\ dst \in Names /\ src \in Paths /\ dst \in Paths /\ src \in Aside(dst) /\ src # dst
        /\ 1 \in 1..Len(restore)
        /\ restore[1].from = src /\ restore[1].to = dst
        /\ \A x \in Names \ {dst} : x \notin {src, dst} /\ Aside(x) \cap {src, dst} = {}
    BY <1>9, HeadFacts
  <2> HIDE DEF src, dst
  <2>2. /\ disk' \in [Paths -> Contents]
        /\ \A p \in Paths \ {src, dst} : disk'[p] = disk[p]
        /\ disk'[src] = disk[src] \/ disk'[dst] = disk[src]
    BY <1>3, <1>9, <2>1 DEF src, dst
  <2>3. dst = "vendor" /\ start["vendor.orig"].is = "none" <=> src = "vendor.orig"
    BY <2>1, NameCases DEF Listed
  <2>4. dst # "vendor.orig"
    BY <2>1 DEF Names
  <2>5. start["vendor.orig"].is = "kept" => disk'["vendor.orig"] = disk["vendor.orig"]
    BY <1>5, <2>2, <2>3, <2>4
  <2>6. ASSUME faults <= 1, xdev => start["vendor.orig"].is = "none",
               NEW x \in Names, start[x].is = "old"
        PROVE  \E p \in Places(x) : disk'[p].is = "old"
    <3>1. faults = 1 /\ Recoverable(x)
      BY <1>9, <2>6, SafeWriterAssumption DEF Failing, Typed
    <3>2. x \in Places(x) /\ Aside(x) \subseteq Places(x)
      BY DEF Places, Aside
    <3>3. CASE x # dst
      <4>1. PICK p \in Places(x) : disk[p].is = "old"
        BY <2>6, <3>1, RecoverableSurvives
      <4>2. p \in Paths \ {src, dst}
        BY <2>1, <3>3, <4>1, NameCases DEF Aside, Paths
      <4> QED BY <2>2, <4>1, <4>2
    <3>4. CASE x = dst
      <4>1. disk[src].is = "old"
        <5>1. CASE disk[x].is = "old" /\ ~Pending(x)
          BY <2>1, <3>4, <5>1 DEF Pending
        <5>2. CASE \E k \in 1..Len(restore) :
                     restore[k].to = x /\ disk[restore[k].from].is = "old"
          <6>1. PICK k \in 1..Len(restore) :
                  restore[k].to = x /\ disk[restore[k].from].is = "old"
            BY <5>2
          <6>2. k = 1
            <7>1. ASSUME 1 < k PROVE FALSE
              <8>1. Pos(restore[1].to) < Pos(restore[k].to)
                BY <2>1, <6>1, <7>1 DEF Listed
              <8> QED BY <2>1, <3>4, <6>1, <8>1, NameCases
            <7> QED BY <6>1, <7>1
          <6> QED BY <2>1, <6>1, <6>2
        <5>3. CASE Stranded(x)
          BY <2>3, <2>6, <3>4, <5>3 DEF Stranded
        <5> QED BY <3>1, <5>1, <5>2, <5>3 DEF Recoverable
      <4> QED BY <2>1, <2>2, <3>2, <3>4, <4>1
    <3> QED BY <3>3, <3>4
  <2> QED BY <1>4, <2>2, <2>5, <2>6
<1>10. CASE /\ pc = "removebak" /\ bak # "none"
            /\ disk' = [disk EXCEPT ![bak] = Plain("part")]
  <2>1. bak \in Paths /\ \A x \in Names : bak # x /\ x \in Paths
    BY <1>10 DEF Typed, Paths, InTemp, InPlace, Names
  <2>2. disk' \in [Paths -> Contents] /\ \A p \in Paths : p # bak => disk'[p] = disk[p]
    BY <1>10, <2>1, ContentsFacts DEF Typed
  <2>3. \A x \in Names : Writes(x) => disk'[x].is = "new"
    BY <1>10, <2>1, <2>2 DEF Written
  <2>4. start["vendor.orig"].is = "kept" => disk'["vendor.orig"] = disk["vendor.orig"]
    BY <1>5, <2>2 DEF Spared
  <2> QED BY <1>4, <2>2, <2>3, <2>4
<1> QED BY <1>1, <1>6, <1>7, <1>8, <1>9, <1>10

LEMMA StutterInv ==
  ASSUME WriterInv, UNCHANGED vars
  PROVE  WriterInv'
<1> USE DEF WriterInv, vars
<1>1. Typed' BY DEF Typed
<1>2. Started' /\ Listed' BY SameRequest, SameList
<1>3. Spared' BY DEF Spared, LeftoverKept
<1>4. /\ \A x : Pending(x)' <=> Pending(x)
      /\ \A x : Stranded(x)' <=> Stranded(x)
      /\ \A x : Out(x)' <=> Out(x)
  BY DEF Pending, Stranded, Out
<1>5. Staging' BY SameRequest DEF Staging
<1>6. Moving' BY <1>4, SameRequest DEF Moving
<1>7. Written' BY SameRequest DEF Written
<1>8. \A x : Recoverable(x)' <=> Recoverable(x) BY <1>4 DEF Recoverable
<1>9. Failing' /\ RolledBack' BY <1>4, <1>8 DEF Failing, RolledBack
<1>10. Survived' BY SameRequest DEF Survived, OldSurvives
<1>11. GitAlong' BY SameRequest DEF GitAlong
<1> QED BY <1>1, <1>2, <1>3, <1>5, <1>6, <1>7, <1>9, <1>10, <1>11

-----------------------------------------------------------------------------
(* The inductive invariant holds in every state Write() goes through.      *)
THEOREM WriterInvariant == Spec => []WriterInv
<1>1. WriterInv /\ [Next]_vars => WriterInv'
  <2> SUFFICES ASSUME WriterInv, [Next]_vars PROVE WriterInv'
    OBVIOUS
  <2>1. CASE New BY <2>1, NewInv
  <2>2. CASE Stage BY <2>2, StageInv
  <2>3. CASE DotGit BY <2>3, DotGitInv
  <2>4. CASE MoveOut BY <2>4, MoveOutInv
  <2>5. CASE MoveIn BY <2>5, MoveInInv
  <2>6. CASE RemoveBak BY <2>6, RemoveBakInv
  <2>7. CASE Restore BY <2>7, RestoreInv
  <2>8. CASE Cleanup BY <2>8, CleanupInv
  <2>9. CASE Killed BY <2>9, KilledInv
  <2>10. CASE UNCHANGED vars
    BY <2>10, StutterInv
  <2> QED BY <2>1, <2>2, <2>3, <2>4, <2>5, <2>6, <2>7, <2>8, <2>9, <2>10 DEF Next, Write
<1> QED BY <1>1, InitInv, PTL DEF Spec

(* Write() returns nil only with every artifact that was asked for written *)
(* and every other one as it was, however many operations failed.          *)
THEOREM SuccessAlwaysWritten == Spec => []SuccessMeansWritten
<1>1. WriterInv => SuccessMeansWritten
  BY ArtifactNames DEF WriterInv, Written, SuccessMeansWritten
<1> QED BY <1>1, WriterInvariant, PTL

(* The rollback at the label fail of Write() puts what was there back in   *)
(* place when the error it answers to is the only one.                     *)
THEOREM OldAlwaysBack == Spec => []OldBackInPlace
<1>1. WriterInv => OldBackInPlace
  BY ArtifactNames DEF WriterInv, RolledBack, Stranded, OldBackInPlace
<1> QED BY <1>1, WriterInvariant, PTL

(* Wherever Write() is killed, and with at most one failed operation, the  *)
(* old artifacts are all somewhere on disk, or the new ones in place.      *)
THEOREM OldAlwaysSurvives == Spec => []OldSurvives
<1>1. WriterInv => OldSurvives
  BY InvSurvives
<1> QED BY <1>1, WriterInvariant, PTL

(* Write() renames the vendor to and deletes the vendor from vendor.orig   *)
(* only where it found nothing there.                                      *)
THEOREM LeftoverAlwaysKept == Spec => []LeftoverKept
<1>1. WriterInv => LeftoverKept
  BY DEF WriterInv, Spared
<1> QED BY <1>1, WriterInvariant, PTL

(* With no failure, vendor/.git is in the vendor that Write() put in place. *)
THEOREM DotGitAlwaysFollows == Spec => []DotGitFollows
<1>1. WriterInv => DotGitFollows
  BY DEF WriterInv, GitAlong, DotGitFollows
<1> QED BY <1>1, WriterInvariant, PTL
=============================================================================
