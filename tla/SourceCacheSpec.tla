--------------------------- MODULE SourceCacheSpec --------------------------
(***************************************************************************)
(* What a persistent singleSourceCache promises (the interface in          *)
(* gps/source_cache.go and the comment on multiCache): one value for each  *)
(* key, the one last set, which a getter answers; and of it as much on     *)
(* disk as writing succeeded for, which is what the next process starts    *)
(* with.  Version lists on disk count only if they are recent enough.      *)
(*                                                                         *)
(* It promises less of single versions and revisions.  What the current    *)
(* list does not have is looked up in the list on disk, which after a      *)
(* failed write is an older one, in the same process too (Behind).  And    *)
(* the versions of a revision may be answered as none at all.              *)
(***************************************************************************)
EXTENDS MemoryCache

CONSTANTS Versions, Revs, Trees, Infos

VARIABLES
  now,    \* the value of each key: [vers, trees, infos]
  store,  \* what is on disk of it, in the same form
  shown,  \* whether the version list on disk is recent enough
  ret     \* the last answer

vars == <<now, store, shown, ret>>

VersionLists == UNION {[S -> Revs] : S \in SUBSET Versions}

Empty == [vers |-> Miss, trees |-> NoVersions, infos |-> NoVersions]

(* The versions a list pairs with r *)
Of(list, r) == IF list = Miss THEN {} ELSE {u \in DOMAIN list : list[u] = r}
In(list, u) == IF list = Miss THEN Miss ELSE Get(list, u)

NoAnswer == <<"none", Miss>>

Init == now = Empty /\ store = Empty /\ shown = TRUE /\ ret = NoAnswer

(* A setter's value is the value from now on; on disk it may fail to arrive. *)
Write(f(_)) ==
  /\ now' = f(now)
  /\ \/ store' = f(store) \/ store' = store
  /\ ret' = NoAnswer

SetVersions ==
  \E list \in VersionLists :
    /\ Write(LAMBDA c : [c EXCEPT !.vers = list])
    /\ \/ UNCHANGED shown
       \/ store'.vers = list /\ shown' = TRUE

SetTree ==
  /\ \E r \in Revs, t \in Trees : Write(LAMBDA c : [c EXCEPT !.trees = Set(@, r, t)])
  /\ UNCHANGED shown

SetInfo ==
  /\ \E r \in Revs, i \in Infos : Write(LAMBDA c : [c EXCEPT !.infos = Set(@, r, i)])
  /\ UNCHANGED shown

Mark == ret' = NoAnswer /\ UNCHANGED <<now, store, shown>>

(* What is on disk stands in for what is not among the values. *)
Behind == IF shown THEN store.vers ELSE Miss

Answers(what, x) == ret' = <<what, x>> /\ UNCHANGED <<now, store, shown>>

AnswerTree == \E r \in Revs : Answers("tree", Get(now.trees, r))
AnswerInfo == \E r \in Revs : Answers("info", Get(now.infos, r))

(* All versions there are; an empty list may count as none. *)
AnswerAllVersions == Answers("all", now.vers) \/ (now.vers = NoVersions /\ Answers("all", Miss))

AnswerRevision ==
  \E u \in Versions : Answers("revision", IF In(now.vers, u) # Miss THEN In(now.vers, u) ELSE In(Behind, u))

AnswerUnpaired ==
  \E r \in Revs :
    LET us == IF Of(now.vers, r) # {} THEN Of(now.vers, r) ELSE Of(Behind, r)
    IN \E u \in IF us = {} THEN {Miss} ELSE us : Answers("unpaired", u)

(* The versions of a revision: all of them, or that the revision exists; Miss only
   if it has no version. *)
AnswerVersions ==
  \E r \in Revs :
    \/ Answers("versions", Of(now.vers, r))
    \/ Answers("versions", {})
    \/ Of(now.vers, r) = {} /\ (Answers("versions", Miss) \/ Answers("versions", Of(Behind, r)))

(* A new process knows what is on disk, the version list if it is recent enough. *)
Restart ==
  /\ shown' \in BOOLEAN
  /\ now' = [store EXCEPT !.vers = IF shown' THEN @ ELSE Miss]
  /\ ret' = NoAnswer
  /\ UNCHANGED store

Next ==
  \/ SetVersions \/ SetTree \/ SetInfo \/ Mark \/ Restart
  \/ AnswerTree \/ AnswerInfo \/ AnswerAllVersions \/ AnswerRevision \/ AnswerUnpaired \/ AnswerVersions

Spec == Init /\ [][Next]_vars

=============================================================================
