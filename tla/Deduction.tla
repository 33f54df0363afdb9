----------------------------- MODULE Deduction ------------------------------
(***************************************************************************)
(* deductionCoordinator of gps/deduce.go: concurrent calls of              *)
(* deduceRootPath(), which share the trie rootxt of what is known and of   *)
(* the requests for go-get metadata that are on their way.                 *)
(*                                                                         *)
(* A step is what is done under one lock, or one HTTP request.  A request  *)
(* may be lost, its caller's context canceled, and the source manager      *)
(* released at any time.                                                   *)
(***************************************************************************)
EXTENDS KnownHosts, FiniteSets

CONSTANTS
  Threads,    \* the callers
  Inputs,     \* sets of import paths and URLs they may ask for
  Begins,     \* the pairs of elements of which one starts with the other
  Meta,       \* the go-import tags each path is served with
  Roots,      \* the root of every repository, with the kinds of source it may be
  MaxCalls,   \* how many calls are made in all
  MaxLost     \* how many requests are lost, and how many contexts canceled

Plain(path) == [form |-> "plain", scheme |-> Empty, user |-> Empty, elems |-> path]

Paths == Seq(STRING) \ {<<>>}

InputForms == [form : {"plain", "uri", "scp", "bad"}, scheme : STRING, user : STRING, elems : Paths]

(* The kinds of source that a host keeps, and that a VCS extension names.  *)
Named(r) == IF Last(r) \in DOMAIN Ext THEN {Ext[Last(r)]} ELSE {}

KindsAt(r) ==
  CASE r[1] \notin Hosts       -> Named(r)
    [] r[1] = "launchpad.net" -> {"bzr"}
    [] r[1] = "bitbucket.org" -> IF Named(r) \cap {"git", "hg"} # {} THEN Named(r) ELSE {"git", "hg"}
    [] r[1] = "gopkg.in"      -> {k \in {"gopkgin", "gopkgin-unstable"} :
                                    Gopkgin[Last(r)] = IF k = "gopkgin" THEN "major" ELSE "unstable"}
    [] r[1] \in Hosts \ {"launchpad.net", "bitbucket.org", "gopkg.in"} -> {"git"}

(* No repository is inside another one.  On a well-known host it has the   *)
(* length of the host's paths, and elsewhere a VCS extension ends its      *)
(* root; of both kinds a path that looks like one is in a repository, and  *)
(* a user who is named like a VCS names the repository's.                  *)
ASSUME HostsAssumption ==
  /\ DOMAIN Roots \subseteq Paths
  /\ Ext \in [DOMAIN Ext -> {"git", "hg", "bzr", "svn"}]
  /\ Gopkgin \in [DOMAIN Gopkgin -> {"major", "unstable", "minor"}]
  /\ \A r, s \in DOMAIN Roots : IsPrefix(r, s) => r = s
  /\ \A r \in DOMAIN Roots : r[1] \in Hosts => RootLength(r) = Len(r) /\ Roots[r] = KindsAt(r)
  /\ \A S \in Inputs : \A in \in S :
       /\ in \in InputForms
       /\ in.elems[1] \in Hosts /\ Len(in.elems) > 1 /\ Matches(in.elems) =>
            \E r \in DOMAIN Roots :
              IsPrefix(r, in.elems) /\ (in.user \in {"git", "hg"} => in.user \in Roots[r])
       /\ in.elems[1] \notin Hosts /\ ExtRoot(in.elems) # <<>> =>
            \E r \in DOMAIN Roots :
              /\ IsPrefix(r, in.elems) /\ Roots[r] = KindsAt(r)
              /\ Len(r) > 1 /\ \A i \in 2 .. Len(r) : r[i] \in DOMAIN Ext <=> i = Len(r)

(* A page that has tags has the one of the repository its path is in.      *)
ASSUME DeductionAssumption ==
  /\ MaxCalls \in Nat /\ MaxLost \in Nat
  /\ DOMAIN Meta \subseteq Paths
  /\ \A p \in DOMAIN Meta :
       /\ Meta[p] \in Seq([prefix : Paths, vcs : STRING, scheme : STRING])
       /\ \E i \in DOMAIN Meta[p] :
            /\ Meta[p][i].prefix \in DOMAIN Roots /\ IsPrefix(Meta[p][i].prefix, p)
            /\ Meta[p][i].vcs \in Roots[Meta[p][i].prefix]

(* No path above a repository's root is asked for, when what is asked for  *)
(* below it is served with tags.                                           *)
AskedInside ==
  \A S \in Inputs : \A k, in \in S :
    in.elems \in DOMAIN Meta /\ IsPrefix(k.elems, in.elems)
      => \E r \in DOMAIN Roots : IsPrefix(r, k.elems)

VARIABLES
  asked,    \* what is asked for in this run
  rootxt,   \* the trie: input |-> [is "source", mb] or [is "hmd", id]
  hmds,     \* the httpMetadataDeducers: the state of the Once, and what it found
  call,     \* the call each thread is in
  calls,    \* how many were made
  lost,     \* how many faults there were
  closed    \* the supervisor's context is canceled

vars == <<asked, rootxt, hmds, call, calls, lost, closed>>

NoAnswer == [res |-> "none", root |-> <<>>, mb |-> <<>>]

Idle == [pc |-> "idle", in |-> Plain(<<>>), hmd |-> 0, canceled |-> FALSE, ans |-> NoAnswer]

Init ==
  /\ asked \in Inputs
  /\ rootxt = <<>>
  /\ hmds = <<>>
  /\ call = [t \in Threads |-> Idle]
  /\ calls = 0 /\ lost = 0
  /\ closed = FALSE

-----------------------------------------------------------------------------
(* The literal prefixes of an input among the keys; the longest of them is *)
(* what the radix tree finds, a prefix of the path or not.                 *)
HasPrefix(q, p) ==
  /\ Len(p) <= Len(q)
  /\ \A i \in 1 .. Len(p) : p[i] = q[i] \/ (i = Len(p) /\ <<p[i], q[i]>> \in Begins)

LiteralPrefix(k, in) == [k EXCEPT !.elems = in.elems] = in /\ HasPrefix(in.elems, k.elems)

Candidates(in) == {k \in DOMAIN rootxt : LiteralPrefix(k, in)}

LongestPrefix(in) == {k \in Candidates(in) : \A l \in Candidates(in) : LiteralPrefix(l, k)}

(* Without the check of isPathPrefixOrEqual(). *)
isPathPrefixLiterally(k, in) == TRUE

isPathPrefixOrEqual(k, in) == IsPrefix(k.elems, in.elems)

Hits(in) == {k \in LongestPrefix(in) : isPathPrefixOrEqual(k, in)}

Insert(k, entry) == rootxt' = [x \in DOMAIN rootxt \cup {k} |->
                                 IF x = k THEN entry ELSE rootxt[x]]

Answer(t, ans) == call' = [call EXCEPT ![t] = [@ EXCEPT !.pc = "returned", !.ans = ans, !.hmd = 0]]

(* The call begins: the trie answers, names a request to join, or misses,  *)
(* and then the well-known hosts and the extensions are tried.             *)
deduceRootPath(t, in) ==
  LET now == [Idle EXCEPT !.in = in]
      To(c) == call' = [call EXCEPT ![t] = c]
  IN  /\ call[t].pc \in {"idle", "returned"}
      /\ calls < MaxCalls /\ calls' = calls + 1
      /\ \/ /\ closed
            /\ To([now EXCEPT !.pc = "returned", !.ans = Failed])
         \/ /\ ~closed
            /\ \E k \in Hits(in) :
                 \/ /\ rootxt[k].is = "source"
                    /\ To([now EXCEPT !.pc = "returned", !.ans = Deduced(k.elems, rootxt[k].mb)])
                 \/ /\ rootxt[k].is = "hmd"
                    /\ To([now EXCEPT !.pc = "once", !.hmd = rootxt[k].id])
         \/ /\ ~closed /\ Hits(in) = {}
            /\ \/ /\ deduceKnownPaths(in).res = "ok"
                  /\ To([now EXCEPT !.pc = "known"])
               \/ /\ deduceKnownPaths(in).res = "error"
                  /\ To([now EXCEPT !.pc = "returned", !.ans = Failed])
               \/ /\ deduceKnownPaths(in).res = "unknown"
                  /\ To([now EXCEPT !.pc = "vanity"])
      /\ UNCHANGED <<asked, rootxt, hmds, lost, closed>>

(* A known path: the root goes into the trie with its sources. *)
InsertKnown(t) ==
  LET pd == deduceKnownPaths(call[t].in)
  IN  /\ call[t].pc = "known"
      /\ Insert(Plain(pd.root), [is |-> "source", mb |-> pd.mb])
      /\ Answer(t, pd)
      /\ UNCHANGED <<asked, hmds, calls, lost, closed>>

(* No known path: a deducer goes into the trie, over what may be there. *)
InsertDeducer(t) ==
  /\ call[t].pc = "vanity"
  /\ hmds' = Append(hmds, [once |-> "fresh", ans |-> NoAnswer])
  /\ Insert(call[t].in, [is |-> "hmd", id |-> Len(hmds) + 1])
  /\ call' = [call EXCEPT ![t] = [@ EXCEPT !.pc = "once", !.hmd = Len(hmds) + 1]]
  /\ UNCHANGED <<asked, calls, lost, closed>>

-----------------------------------------------------------------------------
(* httpMetadataDeducer.deduce(): the first caller makes the request, with  *)
(* its own path and context; the others wait for it and share the result.  *)
Once(t) ==
  /\ call[t].pc = "once"
  /\ LET h == call[t].hmd
     IN  \/ /\ hmds[h].once = "fresh"
            /\ hmds' = [hmds EXCEPT ![h].once = "running"]
            /\ call' = [call EXCEPT ![t].pc = "request"]
         \/ /\ hmds[h].once = "done"
            /\ Answer(t, hmds[h].ans)
            /\ UNCHANGED hmds
  /\ UNCHANGED <<asked, rootxt, calls, lost, closed>>

(* fetchMetadata(): https, then http; only http when that was asked for. *)
fetchMetadata(scheme, gone) == IF scheme = "http" THEN "http" \notin gone
                               ELSE ~({"https", "http"} \subseteq gone)

(* getMetadata(): the one tag that is a prefix of the path, literally. *)
Tags(path) == IF path \in DOMAIN Meta THEN Meta[path] ELSE <<>>

Matching(path) == {i \in DOMAIN Tags(path) : HasPrefix(path, Tags(path)[i].prefix)}

(* Whatever scheme the page names. *)
SchemeIgnored(u, scheme) == TRUE

(* A scheme that was asked for is kept, and http may become https. *)
SchemeAllowed(u, scheme) == u.scheme = Empty \/ scheme = u.scheme \/ (u.scheme = "http" /\ scheme = "https")

FromMetadata(in) ==
  LET m  == Matching(in.elems)
      im == Tags(in.elems)[CHOOSE i \in m : TRUE]
  IN  IF Cardinality(m) = 1 /\ SchemeAllowed(normalizeURI(in), im.scheme)
           /\ im.vcs \in {"git", "bzr", "hg"}
      THEN Deduced(im.prefix, <<Source(im.vcs, im.scheme, Empty)>>)
      ELSE Failed

(* A failure that leaves the Once open. *)
FinishFails(t, ans) ==
  /\ hmds' = IF ans = Failed THEN hmds ELSE [hmds EXCEPT ![call[t].hmd] = [once |-> "done", ans |-> ans]]
  /\ Answer(t, ans)

(* The Once ends; a failure stays in it for good. *)
Finish(t, ans) ==
  /\ hmds' = [hmds EXCEPT ![call[t].hmd] = [once |-> "done", ans |-> ans]]
  /\ Answer(t, ans)

(* The request and what is made of it.  returnFunc enters the root in the  *)
(* trie before the Once ends; an answer is first known to its own thread.  *)
Request(t) ==
  LET in == call[t].in
  IN  /\ call[t].pc = "request"
      /\ \/ /\ call[t].canceled \/ closed
            /\ Finish(t, Failed)
            /\ UNCHANGED lost
         \/ /\ ~call[t].canceled /\ ~closed
            /\ \E gone \in SUBSET {"https", "http"} :
                 /\ lost + Cardinality(gone) <= MaxLost
                 /\ lost' = lost + Cardinality(gone)
                 /\ IF fetchMetadata(normalizeURI(in).scheme, gone)
                         /\ FromMetadata(in) # Failed
                    THEN /\ call' = [call EXCEPT ![t] = [@ EXCEPT !.pc = "return", !.ans = FromMetadata(in)]]
                         /\ UNCHANGED hmds
                    ELSE Finish(t, Failed)
      /\ UNCHANGED <<asked, rootxt, calls, closed>>

returnFunc(t) ==
  /\ call[t].pc = "return"
  /\ Insert(Plain(call[t].ans.root), [is |-> "source", mb |-> call[t].ans.mb])
  /\ Finish(t, call[t].ans)
  /\ UNCHANGED <<asked, calls, lost, closed>>

(* The caller's context is canceled while the call is under way. *)
Cancel(t) ==
  /\ call[t].pc \notin {"idle", "returned"}
  /\ ~call[t].canceled /\ lost < MaxLost
  /\ call' = [call EXCEPT ![t].canceled = TRUE]
  /\ lost' = lost + 1
  /\ UNCHANGED <<asked, rootxt, hmds, calls, closed>>

Release ==
  /\ ~closed /\ closed' = TRUE
  /\ UNCHANGED <<asked, rootxt, hmds, call, calls, lost>>

-----------------------------------------------------------------------------
Step(t) == InsertKnown(t) \/ InsertDeducer(t) \/ Once(t) \/ Request(t) \/ returnFunc(t)

Next ==
  \/ \E t \in Threads : Step(t) \/ Cancel(t)
  \/ \E t \in Threads, in \in asked : deduceRootPath(t, in)
  \/ Release

Spec == Init /\ [][Next]_vars /\ \A t \in Threads : WF_vars(Step(t))

-----------------------------------------------------------------------------
Answered(t) == call[t].pc = "returned" /\ call[t].ans.res = "ok"

(* A call that succeeds names the root of the repository that the path is  *)
(* in, with sources of a kind it may be, whatever the others asked for,    *)
(* with which schemes, and however the requests they share and the entries *)
(* they overwrite in rootxt interleave.                                    *)
RootRight ==
  \A t \in Threads :
    Answered(t) => /\ call[t].ans.root \in DOMAIN Roots
                   /\ IsPrefix(call[t].ans.root, call[t].in.elems)
                   /\ {mb.typ : mb \in ToSet(call[t].ans.mb)} \in (SUBSET Roots[call[t].ans.root]) \ {{}}

(* An input that names a scheme is never served with another one, except   *)
(* https for http ("do NOT allow the same in the other direction"), also   *)
(* when the answer comes from the trie or from another caller's request.   *)
SchemeHonored ==
  \A t \in Threads :
    Answered(t) =>
      \A i \in DOMAIN call[t].ans.mb :
        LET wanted == normalizeURI(call[t].in).scheme
            used   == call[t].ans.mb[i].scheme
        IN  wanted = Empty \/ used = wanted \/ (wanted = "http" /\ used = "https")

(* Every call returns, those too that wait for a request of another caller *)
(* which is lost or canceled.                                              *)
EveryCallReturns ==
  \A t \in Threads : call[t].pc # "idle" ~> call[t].pc = "returned"

-----------------------------------------------------------------------------
(* What does not hold.  A failed request is forgotten: a deducer in the    *)
(* trie can still find something.                                          *)
FailureForgotten ==
  \A k \in DOMAIN rootxt : rootxt[k].is = "hmd" => hmds[rootxt[k].id].ans # Failed

(* A root that was deduced stays in the trie: a second caller that missed  *)
(* puts its own deducer there, which may fail.                             *)
RootKept == [][\A k \in DOMAIN rootxt : rootxt[k].is = "source" => rootxt'[k].is = "source"]_vars

(* A plain import path is offered with every scheme of its host.           *)
PlainIndependent ==
  \A t \in Threads :
    Answered(t) /\ call[t].in.form = "plain" /\ deduceKnownPaths(call[t].in).res = "ok"
      => call[t].ans.mb = deduceKnownPaths(call[t].in).mb

(* A deducer that is through is no longer in the trie. *)
DeducerRemoved ==
  \A k \in DOMAIN rootxt :
    rootxt[k].is = "hmd" => hmds[rootxt[k].id].once # "done" \/ hmds[rootxt[k].id].ans = Failed

=============================================================================
