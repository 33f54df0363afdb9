-------------------------- MODULE DeductionProofs ---------------------------
(***************************************************************************)
(* For any number of callers, inputs and repositories: what the callers of *)
(* deduceRootPath() share, through the trie and through each other's       *)
(* requests, is right for each of them.                                    *)
(***************************************************************************)
EXTENDS Deduction, FiniteSetTheorems, SequenceTheorems, TLAPS

AllInputs == UNION Inputs

(* What the metadata and the hosts give, and what the trie makes of it.    *)
Found   == {NoAnswer, Failed} \cup {FromMetadata(in) : in \in AllInputs}
Known   == {deduceKnownPaths(in) : in \in AllInputs}
Offer   == {ans.mb : ans \in Found \cup Known}
Answers == Found \cup Known \cup {Deduced(r, mb) : r \in DOMAIN Roots, mb \in Offer}

InRequest == {"once", "request", "return"}

Calls == [pc : {"idle", "known", "vanity", "returned"} \cup InRequest,
          in : AllInputs \cup {Plain(<<>>)}, hmd : Nat, canceled : BOOLEAN, ans : Answers]

Deducers == [once : {"fresh", "running", "done"}, ans : Found]

Typed ==
  /\ asked \in Inputs
  /\ hmds \in Seq(Deducers)
  /\ call \in [Threads -> Calls]

(* The root is the repository's, with sources of a kind it may be. *)
KindsRight(root, mb) ==
  /\ root \in DOMAIN Roots
  /\ mb \in Offer /\ DOMAIN mb # {}
  /\ \A i \in DOMAIN mb : mb[i].typ \in Roots[root]

(* The answer names the repository that the path is in. *)
RootOf(path, ans) == KindsRight(ans.root, ans.mb) /\ IsPrefix(ans.root, path)

(* The answer keeps the scheme that the input asks for. *)
SchemeKept(in, ans) ==
  in.form # "bad" /\ \A i \in DOMAIN ans.mb : SchemeAllowed(normalizeURI(in), ans.mb[i].scheme)

Right(in, ans) == SchemeKept(in, ans) /\ (AskedInside => RootOf(in.elems, ans))

Below(k, in) == [k EXCEPT !.elems = in.elems] = in /\ IsPrefix(k.elems, in.elems)

(* Key k is the one that deducer h was entered for. *)
KeyOf(h, k) ==
  /\ k.form # "bad"
  /\ \A x \in DOMAIN rootxt : rootxt[x].is = "hmd" /\ rootxt[x].id = h => x = k
  /\ \A t \in Threads : call[t].pc \in InRequest /\ call[t].hmd = h => Below(k, call[t].in)
  /\ hmds[h].ans.res = "ok" => Right(k, hmds[h].ans)

EveryDeducerHasKey == \A h \in DOMAIN hmds : \E k \in asked : KeyOf(h, k)

TrieRight ==
  \A x \in DOMAIN rootxt :
    \/ rootxt[x].is = "source" /\ x = Plain(x.elems) /\ KindsRight(x.elems, rootxt[x].mb)
    \/ rootxt[x].is = "hmd" /\ rootxt[x].id \in DOMAIN hmds

(* A call on its way, given the deducers there are. *)
CallRight(c, ids) ==
  /\ c.pc # "idle" => c.in \in asked
  /\ c.pc = "known" => deduceKnownPaths(c.in).res = "ok"
  /\ c.pc = "vanity" => deduceKnownPaths(c.in).res = "unknown"
  /\ c.pc \in InRequest => c.hmd \in ids
  /\ c.pc = "return" => c.ans = FromMetadata(c.in) /\ c.ans.res = "ok"
  /\ c.pc = "returned" /\ c.ans.res = "ok" => Right(c.in, c.ans)

CallsRight == \A t \in Threads : CallRight(call[t], DOMAIN hmds)

DeductionInv == Typed /\ EveryDeducerHasKey /\ TrieRight /\ CallsRight

-----------------------------------------------------------------------------
(* Paths *)

(* A prefix, element by element. *)
LEMMA PrefixElems ==
  ASSUME NEW s \in Seq(STRING), NEW t \in Seq(STRING)
  PROVE  IsPrefix(s, t) <=> Len(s) <= Len(t) /\ \A i \in 1 .. Len(s) : s[i] = t[i]
  BY DEF IsPrefix

(* What is above a path that is above another one is above that one too. *)
LEMMA PrefixTransitive ==
  ASSUME NEW r \in Seq(STRING), NEW s \in Seq(STRING), NEW t \in Seq(STRING),
         IsPrefix(r, s), IsPrefix(s, t)
  PROVE  IsPrefix(r, t)
  BY PrefixElems

(* Of two paths above a third one is above the other. *)
LEMMA PrefixesComparable ==
  ASSUME NEW r \in Seq(STRING), NEW s \in Seq(STRING), NEW t \in Seq(STRING),
         IsPrefix(r, t), IsPrefix(s, t)
  PROVE  IsPrefix(r, s) \/ IsPrefix(s, r)
<1>1. CASE Len(r) <= Len(s)
  BY <1>1, PrefixElems
<1>2. CASE ~(Len(r) <= Len(s))
  BY <1>2, PrefixElems
<1> QED BY <1>1, <1>2

(* A path is in one repository at most: none is inside another. *)
LEMMA OneRepository ==
  ASSUME NEW r \in DOMAIN Roots, NEW s \in DOMAIN Roots, NEW path \in Seq(STRING),
         IsPrefix(r, path), IsPrefix(s, path)
  PROVE  r = s
<1>1. r \in Seq(STRING) /\ s \in Seq(STRING)
  BY HostsAssumption DEF Paths
<1>2. IsPrefix(r, s) \/ IsPrefix(s, r)
  BY <1>1, PrefixesComparable
<1> QED BY <1>2, HostsAssumption

(* The prefix of its length is the root itself. *)
LEMMA PrefixIsSubSeq ==
  ASSUME NEW r \in Seq(STRING), NEW path \in Seq(STRING), IsPrefix(r, path)
  PROVE  SubSeq(path, 1, Len(r)) = r
<1>1. SubSeq(r, 1, Len(r)) = r
  OBVIOUS
<1> QED BY <1>1 DEF IsPrefix

-----------------------------------------------------------------------------
(* What the deducers of the hosts offer *)

(* Sources of these kinds, with the scheme that was asked for.             *)
Sources(kinds, u) ==
  [typ : kinds, user : {u.user, "git", "hg", "bzr"},
   scheme : {"https", "ssh", "git", "http", "bzr+ssh", "bzr", u.scheme}]

Offers(mb, kinds, u) ==
  mb \in Seq(Sources(kinds, u)) /\ \A i \in DOMAIN mb : SchemeAllowed(u, mb[i].scheme)

(* Sources for every scheme of a VCS, when no scheme was asked for. *)
LEMMA AllOffered ==
  ASSUME NEW u, u.scheme = Empty, NEW typ \in {"git", "bzr", "hg"}
  PROVE  Offers(ForAll(typ, u), {typ}, u) /\ Offers(ForAllAs(typ, u), {typ}, u)
<1> DEFINE All == {"https", "ssh", "git", "http", "bzr+ssh", "bzr"}
<1>1. SchemesOf(typ) \in Seq(All)
  <2>1. gitSchemes \in Seq(All)
    BY DEF gitSchemes
  <2>2. bzrSchemes \in Seq(All)
    BY DEF bzrSchemes
  <2>3. hgSchemes \in Seq(All)
    BY DEF hgSchemes
  <2>4. SchemesOf(typ) \in {gitSchemes, bzrSchemes, hgSchemes}
    BY DEF SchemesOf
  <2> QED BY <2>1, <2>2, <2>3, <2>4
<1> DEFINE q == SchemesOf(typ)
           n == Len(q)
<1>2. n \in Nat /\ DOMAIN q = 1 .. n /\ \A i \in 1 .. n : q[i] \in All
  BY <1>1
<1>3. ForAll(typ, u) \in Seq(Sources({typ}, u))
  <2>1. \A i \in 1 .. n : Source(typ, q[i], u.user) \in Sources({typ}, u)
    BY <1>2 DEF Source, Sources
  <2>2. ForAll(typ, u) = [i \in 1 .. n |-> Source(typ, q[i], u.user)]
    BY <1>2 DEF ForAll
  <2>3. ForAll(typ, u) \in [1 .. n -> Sources({typ}, u)]
    BY <2>1, <2>2
  <2> QED BY <1>2, <2>3, SeqDef
<1>4. ForAllAs(typ, u) \in Seq(Sources({typ}, u))
  <2> DEFINE as(i) == IF q[i] = "ssh" THEN typ ELSE u.user
  <2>1. \A i \in 1 .. n : Source(typ, q[i], as(i)) \in Sources({typ}, u)
    BY <1>2 DEF Source, Sources
  <2>2. ForAllAs(typ, u) = [i \in 1 .. n |-> Source(typ, q[i], as(i))]
    BY <1>2 DEF ForAllAs
  <2>3. ForAllAs(typ, u) \in [1 .. n -> Sources({typ}, u)]
    BY <2>1, <2>2
  <2> QED BY <1>2, <2>3, SeqDef
<1> QED BY <1>3, <1>4 DEF Offers, SchemeAllowed

(* One source with a scheme that is allowed. *)
LEMMA OneOffered ==
  ASSUME NEW u, NEW kinds, NEW typ \in kinds, NEW scheme \in {"https", "ssh", u.scheme},
         NEW user \in {u.user, "git"}, SchemeAllowed(u, scheme)
  PROVE  Offers(<<Source(typ, scheme, user)>>, kinds, u)
<1> DEFINE src == Source(typ, scheme, user)
<1>1. src \in Sources(kinds, u) /\ src.scheme = scheme
  BY DEF Source, Sources
<1> HIDE DEF src
<1>2. <<src>> \in Seq(Sources(kinds, u)) /\ \A i \in DOMAIN <<src>> : <<src>>[i] = src
  BY <1>1
<1>3. Offers(<<src>>, kinds, u)
  BY <1>1, <1>2 DEF Offers
<1> QED BY <1>3 DEF src

(* No source: the deducer fails. *)
LEMMA NothingOffered ==
  ASSUME NEW u, NEW kinds
  PROVE  Offers(<<>>, kinds, u)
  BY DEF Offers

(* What is offered may be of more kinds. *)
LEMMA MoreKinds ==
  ASSUME NEW u, NEW kinds, NEW more, kinds \subseteq more, NEW mb, Offers(mb, kinds, u)
  PROVE  Offers(mb, more, u)
<1>1. Sources(kinds, u) \subseteq Sources(more, u)
  BY DEF Sources
<1> QED BY <1>1, SeqMonotonic DEF Offers

(* What is offered one after the other. *)
LEMMA BothOffered ==
  ASSUME NEW u, NEW kinds, NEW mb, NEW more, Offers(mb, kinds, u), Offers(more, kinds, u)
  PROVE  Offers(mb \o more, kinds, u)
<1>1. mb \in Seq(Sources(kinds, u)) /\ more \in Seq(Sources(kinds, u))
  BY DEF Offers
<1>2. mb \o more \in Seq(Sources(kinds, u))
  BY <1>1
<1>3. ASSUME NEW i \in DOMAIN (mb \o more)
      PROVE  SchemeAllowed(u, (mb \o more)[i].scheme)
  <2>1. CASE i <= Len(mb)
    BY <1>1, <1>3, <2>1 DEF Offers
  <2>2. CASE i > Len(mb)
    <3>1. i - Len(mb) \in DOMAIN more /\ (mb \o more)[i] = more[i - Len(mb)]
      BY <1>1, <1>3, <2>2
    <3> QED BY <3>1 DEF Offers
  <2> QED BY <1>1, <1>2, <1>3, <2>1, <2>2
<1> QED BY <1>2, <1>3 DEF Offers

LEMMA TwoInARow ==
  ASSUME NEW x, NEW y
  PROVE  <<x>> \o <<y>> = <<x, y>>
<1> DEFINE both == <<x>> \o <<y>>
<1>1. <<x>> \in Seq({x, y}) /\ <<y>> \in Seq({x, y}) /\ <<x, y>> \in Seq({x, y})
  OBVIOUS
<1>2. both \in Seq({x, y}) /\ Len(both) = 2 /\ both[1] = x /\ both[2] = y
  BY <1>1
<1>3. Len(<<x, y>>) = 2 /\ <<x, y>>[1] = x /\ <<x, y>>[2] = y
  OBVIOUS
<1> HIDE DEF both
<1>4. \A i \in 1 .. 2 : both[i] = <<x, y>>[i]
  BY <1>2, <1>3
<1>5. both = <<x, y>>
  BY <1>1, <1>2, <1>3, <1>4, SeqEqual
<1> QED BY <1>5 DEF both

(* The VCS is known: the scheme asked for, or all that it has. *)
LEMMA AskedOffers ==
  ASSUME NEW u, NEW typ \in {"git", "bzr", "hg"}
  PROVE  Offers(Asked(typ, u), {typ}, u)
  BY AllOffered, OneOffered, NothingOffered DEF Asked, SchemeAllowed

LEMMA GithubOffers ==
  ASSUME NEW u
  PROVE  Offers(GithubSource(u), {"git"}, u)
  BY NothingOffered, OneOffered, AllOffered, AskedOffers DEF GithubSource, SchemeAllowed

(* Both kinds, unless the name or the user tells. *)
LEMMA BitbucketOffers ==
  ASSUME NEW u, NEW last,
         NEW kinds, kinds = IF last \in DOMAIN Ext /\ Ext[last] \in {"git", "hg"}
                            THEN {Ext[last]} ELSE {"git", "hg"},
         u.user \in {"git", "hg"} => u.user \in kinds
  PROVE  Offers(BitbucketSource(u, last), kinds, u)
<1> DEFINE isgit == IsVCS("git", u, last)
           ishg  == IsVCS("hg", u, last)
           Mb(typ) == ForAllAs(typ, u)
<1>1. (isgit \/ ~ishg => "git" \in kinds) /\ (ishg \/ ~isgit => "hg" \in kinds)
  BY DEF IsVCS
<1>2. ASSUME NEW typ \in {"git", "hg"}, typ \in kinds
      PROVE  /\ Offers(Asked(typ, u), kinds, u)
             /\ u.scheme = Empty => Offers(Mb(typ), kinds, u)
             /\ Offers(<<Source(typ, u.scheme, u.user)>>, kinds, u)
  <2>1. {typ} \subseteq kinds
    BY <1>2
  <2>2. Offers(Asked(typ, u), {typ}, u) /\ (u.scheme = Empty => Offers(Mb(typ), {typ}, u))
    BY <1>2, AskedOffers, AllOffered
  <2> QED BY <2>1, <2>2, <1>2, MoreKinds, OneOffered DEF SchemeAllowed
<1>3. Offers(<<>>, kinds, u)
  BY NothingOffered
<1>4. CASE u.scheme # Empty /\ (isgit \/ ishg)
  BY <1>1, <1>2, <1>4 DEF BitbucketSource
<1>5. CASE u.scheme # Empty /\ ~isgit /\ ~ishg
  <2> DEFINE hg  == <<Source("hg", u.scheme, u.user)>>
             git == <<Source("git", u.scheme, u.user)>>
  <2>1. Offers(hg \o git, kinds, u)
    BY <1>1, <1>2, <1>5, BothOffered
  <2>2. hg \o git = <<Source("hg", u.scheme, u.user), Source("git", u.scheme, u.user)>>
    BY TwoInARow
  <2> QED BY <1>3, <1>5, <2>1, <2>2 DEF BitbucketSource
<1>6. CASE u.scheme = Empty
  <2>1. Offers(IF isgit THEN <<>> ELSE Mb("hg"), kinds, u)
    BY <1>1, <1>2, <1>3, <1>6
  <2>2. Offers(IF ishg THEN <<>> ELSE Mb("git"), kinds, u)
    BY <1>1, <1>2, <1>3, <1>6
  <2>3. BitbucketSource(u, last) = (IF isgit THEN <<>> ELSE Mb("hg")) \o (IF ishg THEN <<>> ELSE Mb("git"))
    BY <1>6 DEF BitbucketSource
  <2> QED BY <2>1, <2>2, <2>3, BothOffered
<1> QED BY <1>4, <1>5, <1>6

LEMMA GopkginOffers ==
  ASSUME NEW u, NEW last \in DOMAIN Gopkgin
  PROVE  Offers(GopkginSource(u, last),
                {k \in {"gopkgin", "gopkgin-unstable"} :
                   Gopkgin[last] = IF k = "gopkgin" THEN "major" ELSE "unstable"}, u)
<1> DEFINE kinds == {k \in {"gopkgin", "gopkgin-unstable"} :
                      Gopkgin[last] = IF k = "gopkgin" THEN "major" ELSE "unstable"}
           typ == IF Gopkgin[last] = "unstable" THEN "gopkgin-unstable" ELSE "gopkgin"
<1>1. CASE u.scheme # Empty \/ Gopkgin[last] = "minor"
  BY <1>1, NothingOffered DEF GopkginSource
<1>2. CASE ~(u.scheme # Empty \/ Gopkgin[last] = "minor")
  <2>1. Gopkgin[last] \in {"major", "unstable"}
    BY <1>2, HostsAssumption
  <2>2. typ \in kinds
    BY <2>1
  <2>3. DOMAIN gopkginSchemes = 1 .. 2 /\ \A i \in 1 .. 2 : gopkginSchemes[i] \in {"https", "http"}
    BY DEF gopkginSchemes
  <2>4. GopkginSource(u, last) = [i \in 1 .. 2 |-> Source(typ, gopkginSchemes[i], u.user)]
    BY <1>2, <2>3 DEF GopkginSource
  <2>5. \A i \in 1 .. 2 : Source(typ, gopkginSchemes[i], u.user) \in Sources(kinds, u)
    BY <2>2, <2>3 DEF Source, Sources
  <2>6. GopkginSource(u, last) \in [1 .. 2 -> Sources(kinds, u)]
    BY <2>4, <2>5
  <2>7. GopkginSource(u, last) \in Seq(Sources(kinds, u))
    BY <2>6, SeqDef
  <2> QED BY <1>2, <2>7 DEF Offers, SchemeAllowed
<1> QED BY <1>1, <1>2

LEMMA JazzOffers ==
  ASSUME NEW u
  PROVE  Offers(JazzSource(u), {"git"}, u)
  BY NothingOffered, OneOffered DEF JazzSource, SchemeAllowed

(* The deducer of a host offers sources of the kinds its repositories are. *)
LEMMA HostOffers ==
  ASSUME NEW r \in DOMAIN Roots, r[1] \in Hosts,
         NEW u, u.user \in {"git", "hg"} => u.user \in Roots[r]
  PROVE  Offers(deduceSource(u, r), Roots[r], u)
<1>1. Roots[r] = KindsAt(r) /\ RootLength(r) = Len(r) /\ r \in Seq(STRING) /\ r # <<>>
  BY HostsAssumption DEF Paths
<1>2. CASE r[1] = "bitbucket.org"
  <2>1. Roots[r] = IF Last(r) \in DOMAIN Ext /\ Ext[Last(r)] \in {"git", "hg"}
                   THEN {Ext[Last(r)]} ELSE {"git", "hg"}
    <3>1. KindsAt(r) = IF Named(r) \cap {"git", "hg"} # {} THEN Named(r) ELSE {"git", "hg"}
      BY <1>2 DEF KindsAt, Hosts
    <3> QED BY <1>1, <3>1 DEF Named
  <2>2. deduceSource(u, r) = BitbucketSource(u, Last(r))
    BY <1>2 DEF deduceSource
  <2> QED BY <2>1, <2>2, BitbucketOffers
<1>3. CASE r[1] = "gopkg.in"
  <2>1. r[Len(r)] \in DOMAIN Gopkgin
    BY <1>1, <1>3 DEF RootLength, GopkginRoot, Versioned
  <2>2. Roots[r] = {k \in {"gopkgin", "gopkgin-unstable"} :
                      Gopkgin[Last(r)] = IF k = "gopkgin" THEN "major" ELSE "unstable"}
    BY <1>1, <1>3 DEF KindsAt, Hosts
  <2>3. deduceSource(u, r) = GopkginSource(u, Last(r))
    BY <1>3 DEF deduceSource
  <2> QED BY <2>1, <2>2, <2>3, GopkginOffers DEF Last
<1>4. CASE r[1] = "launchpad.net"
  <2>1. Roots[r] = {"bzr"} /\ deduceSource(u, r) = Asked("bzr", u)
    BY <1>1, <1>4 DEF KindsAt, Hosts, deduceSource
  <2> QED BY <2>1, AskedOffers
<1>5. CASE r[1] \in {"github.com", "hub.jazz.net", "git.launchpad.net", "git.apache.org"}
  <2>1. Roots[r] = {"git"}
    BY <1>1, <1>5 DEF KindsAt, Hosts
  <2>2. deduceSource(u, r) \in {GithubSource(u), JazzSource(u), Asked("git", u)}
    BY <1>5 DEF deduceSource
  <2> QED BY <2>1, <2>2, GithubOffers, JazzOffers, AskedOffers
<1> QED BY <1>2, <1>3, <1>4, <1>5 DEF Hosts

-----------------------------------------------------------------------------
(* The roots that the hosts' expressions find *)

(* On a host, the root is as long as the repository's. *)
LEMMA HostRoot ==
  ASSUME NEW r \in DOMAIN Roots, NEW path \in Paths, IsPrefix(r, path),
         path[1] \in Hosts, RootLength(path) > 0
  PROVE  r[1] \in Hosts /\ SubSeq(path, 1, RootLength(path)) = r
<1>1. r \in Seq(STRING) /\ path \in Seq(STRING) /\ Len(r) > 0 /\ Len(r) <= Len(path)
      /\ \A i \in 1 .. Len(r) : r[i] = path[i]
  BY HostsAssumption, PrefixElems DEF Paths
<1>2. r[1] = path[1]
  BY <1>1
<1>3. RootLength(r) = Len(r)
  BY <1>2, HostsAssumption
<1>4. RootLength(path) = RootLength(r)
  <2>1. CASE r[1] \in {"github.com", "bitbucket.org", "launchpad.net", "git.launchpad.net"}
    BY <1>1, <1>2, <1>3, <2>1 DEF RootLength, Plainly
  <2>2. CASE r[1] = "gopkg.in"
    <3>1. RootLength(r) = GopkginRoot(r) /\ RootLength(path) = GopkginRoot(path)
      BY <1>2, <2>2 DEF RootLength
    <3>2. Len(r) \in {2, 3}
      BY <1>1, <1>3, <3>1 DEF GopkginRoot
    <3> QED BY <1>1, <1>3, <3>1, <3>2 DEF GopkginRoot, Versioned
  <2>3. CASE r[1] = "hub.jazz.net"
    BY <1>1, <1>2, <1>3, <2>3 DEF RootLength, JazzRoot
  <2>4. CASE r[1] = "git.apache.org"
    BY <1>1, <1>2, <1>3, <2>4 DEF RootLength, ApacheRoot, WithExt
  <2> QED BY <1>2, <2>1, <2>2, <2>3, <2>4 DEF Hosts
<1> QED BY <1>1, <1>2, <1>3, <1>4, PrefixIsSubSeq

(* Elsewhere, the root ends where the first VCS extension is. *)
LEMMA ExtensionRoot ==
  ASSUME NEW r \in DOMAIN Roots, NEW path \in Paths, IsPrefix(r, path), ExtRoot(path) # <<>>,
         Len(r) > 1, \A i \in 2 .. Len(r) : r[i] \in DOMAIN Ext <=> i = Len(r)
  PROVE  ExtRoot(path) = r /\ r[1] = path[1] /\ Last(r) \in DOMAIN Ext
<1> DEFINE at == {i \in 2 .. Len(path) : WithExt(path, i)}
<1>1. r \in Seq(STRING) /\ path \in Seq(STRING) /\ Len(r) <= Len(path)
      /\ \A i \in 1 .. Len(r) : r[i] = path[i]
  BY HostsAssumption, PrefixElems DEF Paths
<1>2. Len(r) \in at /\ \A j \in at : Len(r) <= j
  BY <1>1 DEF WithExt
<1>3. (CHOOSE i \in at : \A j \in at : i <= j) = Len(r)
  <2> DEFINE c == CHOOSE i \in at : \A j \in at : i <= j
  <2>1. c \in at /\ \A j \in at : c <= j
    BY <1>2
  <2>2. c \in Nat /\ Len(r) \in Nat /\ c <= Len(r) /\ Len(r) <= c
    BY <1>1, <1>2, <2>1
  <2> HIDE DEF c
  <2>3. c = Len(r)
    BY <2>2
  <2> QED BY <2>3 DEF c
<1>4. ExtRoot(path) = SubSeq(path, 1, CHOOSE i \in at : \A j \in at : i <= j)
  BY DEF ExtRoot
<1>5. r[1] = path[1] /\ Last(r) \in DOMAIN Ext
  BY <1>1 DEF Last
<1> QED BY <1>1, <1>3, <1>4, <1>5, PrefixIsSubSeq

LEMMA ExtensionOffers ==
  ASSUME NEW r \in DOMAIN Roots, r[1] \notin Hosts, Last(r) \in DOMAIN Ext, Roots[r] = KindsAt(r), NEW u
  PROVE  Offers(ExtSource(u, r), Roots[r], u)
<1>1. Roots[r] = {Ext[Last(r)]}
  BY DEF KindsAt, Named, Hosts
<1>2. Ext[Last(r)] \in {"git", "hg", "bzr", "svn"}
  BY HostsAssumption
<1> QED BY <1>1, <1>2, NothingOffered, AskedOffers DEF ExtSource

(* What the well-known hosts and the extensions give is right. *)
LEMMA KnownRight ==
  ASSUME NEW in \in AllInputs, deduceKnownPaths(in).res = "ok"
  PROVE  RootOf(in.elems, deduceKnownPaths(in)) /\ SchemeKept(in, deduceKnownPaths(in))
<1> DEFINE u    == normalizeURI(in)
           path == in.elems
           pd   == deduceKnownPaths(in)
           root == SubSeq(path, 1, RootLength(path))
           ext  == ExtRoot(path)
           hosted == path[1] \in Hosts /\ Len(path) > 1
<1>1. in \in InputForms /\ path \in Paths
  BY HostsAssumption DEF AllInputs, InputForms
<1>2. in.form # "bad"
  <2>1. in.form = "bad" => pd = Failed
    BY DEF deduceKnownPaths
  <2>2. Failed.res # "ok"
    BY DEF Failed
  <2> QED BY <2>1, <2>2
<1>3. u.user \in {Empty, in.user}
  BY <1>1, <1>2 DEF InputForms, normalizeURI
<1>4. Empty \notin {"git", "hg"}
  BY Zenon DEF Empty
<1>5. ASSUME NEW r \in DOMAIN Roots, IsPrefix(r, path), NEW mb, Offers(mb, Roots[r], u),
             pd = Offered(r, mb)
      PROVE  RootOf(path, pd) /\ SchemeKept(in, pd)
  <2>1. mb # <<>> /\ pd.root = r /\ pd.mb = mb
    BY <1>5 DEF Offered, Failed, Deduced
  <2>2. /\ DOMAIN mb # {}
        /\ \A i \in DOMAIN mb : mb[i].typ \in Roots[r] /\ SchemeAllowed(u, mb[i].scheme)
    <3>1. mb \in Seq(Sources(Roots[r], u)) /\ \A i \in DOMAIN mb : SchemeAllowed(u, mb[i].scheme)
      BY <1>5 DEF Offers
    <3>2. \A i \in DOMAIN mb : mb[i] \in Sources(Roots[r], u)
      BY <3>1
    <3>3. DOMAIN mb # {}
      BY <2>1, <3>1
    <3> QED BY <3>1, <3>2, <3>3 DEF Sources
  <2>3. mb \in Offer
    BY <2>1 DEF Offer, Known
  <2> QED BY <1>2, <1>5, <2>1, <2>2, <2>3 DEF RootOf, KindsRight, SchemeKept
<1>6. CASE hosted
  <2>1. pd = IF Matches(path) THEN Offered(root, deduceSource(u, root)) ELSE Failed
    BY <1>2, <1>6 DEF deduceKnownPaths
  <2>2. Matches(path)
    BY <2>1 DEF Failed
  <2>3. PICK r \in DOMAIN Roots : IsPrefix(r, path) /\ (in.user \in {"git", "hg"} => in.user \in Roots[r])
    BY <1>6, <2>2, HostsAssumption DEF AllInputs
  <2>4. r[1] \in Hosts /\ root = r
    BY <1>1, <1>6, <2>2, <2>3, HostRoot DEF Matches
  <2>5. Offers(deduceSource(u, r), Roots[r], u)
    BY <1>3, <1>4, <2>3, <2>4, HostOffers
  <2> QED BY <1>5, <2>1, <2>2, <2>3, <2>4, <2>5
<1>7. CASE ~hosted
  <2>1. pd = IF ext = <<>> THEN NoKnownMatch ELSE Offered(ext, ExtSource(u, ext))
    BY <1>2, <1>7 DEF deduceKnownPaths
  <2>2. ext # <<>>
    BY <2>1 DEF NoKnownMatch
  <2>3. path[1] \notin Hosts
    BY <1>1, <1>7, <2>2 DEF ExtRoot, Paths
  <2>4. PICK r \in DOMAIN Roots :
          /\ IsPrefix(r, path) /\ Roots[r] = KindsAt(r)
          /\ Len(r) > 1 /\ \A i \in 2 .. Len(r) : r[i] \in DOMAIN Ext <=> i = Len(r)
    BY <2>2, <2>3, HostsAssumption DEF AllInputs
  <2>5. ext = r /\ r[1] = path[1] /\ Last(r) \in DOMAIN Ext
    BY <1>1, <2>2, <2>4, ExtensionRoot
  <2>6. Offers(ExtSource(u, r), Roots[r], u)
    BY <2>3, <2>4, <2>5, ExtensionOffers
  <2> QED BY <1>5, <2>1, <2>2, <2>4, <2>5, <2>6
<1> QED BY <1>6, <1>7

-----------------------------------------------------------------------------
(* Metadata, and who may share it *)

(* The one tag that matches is the repository's. *)
LEMMA MetadataRight ==
  ASSUME NEW in \in AllInputs, in.form # "bad", FromMetadata(in).res = "ok"
  PROVE  /\ RootOf(in.elems, FromMetadata(in))
         /\ SchemeKept(in, FromMetadata(in))
         /\ in.elems \in DOMAIN Meta
<1> DEFINE path == in.elems
           m    == Matching(path)
           im   == Tags(path)[CHOOSE i \in m : TRUE]
           src  == Source(im.vcs, im.scheme, Empty)
<1>1. path \in Paths
  BY HostsAssumption DEF AllInputs, InputForms
<1>2. /\ Cardinality(m) = 1 /\ SchemeAllowed(normalizeURI(in), im.scheme)
      /\ FromMetadata(in) = Deduced(im.prefix, <<src>>)
  BY DEF FromMetadata, Failed
<1>3. path \in DOMAIN Meta
  <2>1. path \notin DOMAIN Meta => m = {}
    BY DEF Matching, Tags
  <2> QED BY <1>2, <2>1, FS_EmptySet
<1>4. Tags(path) = Meta[path] /\ Meta[path] \in Seq([prefix : Paths, vcs : STRING, scheme : STRING])
  BY <1>3, DeductionAssumption DEF Tags
<1>5. PICK i \in DOMAIN Meta[path] :
        /\ Meta[path][i].prefix \in DOMAIN Roots /\ IsPrefix(Meta[path][i].prefix, path)
        /\ Meta[path][i].vcs \in Roots[Meta[path][i].prefix]
  BY <1>3, DeductionAssumption
<1>6. i \in m
  <2>1. Meta[path][i].prefix \in Seq(STRING) /\ path \in Seq(STRING)
    BY <1>1, <1>5, HostsAssumption DEF Paths
  <2> QED BY <1>4, <1>5, <2>1, PrefixElems DEF Matching, HasPrefix
<1>7. IsFiniteSet(m)
  <2>1. Len(Meta[path]) \in Nat /\ m \subseteq 1 .. Len(Meta[path])
    BY <1>4 DEF Matching
  <2>2. IsFiniteSet(1 .. Len(Meta[path]))
    BY <2>1, FS_Interval
  <2> HIDE DEF m
  <2> QED BY <2>1, <2>2, FS_Subset
<1>8. (CHOOSE j \in m : TRUE) = i
  BY <1>2, <1>6, <1>7, FS_Singleton
<1>9. im = Meta[path][i]
  BY <1>4, <1>8
<1> HIDE DEF im, m
<1>10. FromMetadata(in).root = im.prefix /\ FromMetadata(in).mb = <<src>>
  BY <1>2 DEF Deduced
<1>11. src.typ = im.vcs /\ src.scheme = im.scheme
  BY DEF Source
<1>12. <<src>> \in Offer
  <2>1. FromMetadata(in) \in Found
    BY DEF Found
  <2> QED BY <1>10, <2>1 DEF Offer
<1> HIDE DEF src
<1>13. DOMAIN <<src>> = {1} /\ <<src>>[1] = src
  OBVIOUS
<1>14. KindsRight(im.prefix, <<src>>)
  BY <1>5, <1>9, <1>11, <1>12, <1>13 DEF KindsRight
<1>15. SchemeKept(in, FromMetadata(in))
  BY <1>2, <1>10, <1>11, <1>13 DEF SchemeKept
<1> QED BY <1>3, <1>5, <1>9, <1>10, <1>14, <1>15 DEF RootOf

(* Inputs of one form and scheme are normalized alike. *)
LEMMA BelowAlike ==
  ASSUME NEW S \in Inputs, NEW k \in S, NEW in \in S, Below(k, in)
  PROVE  /\ k.form = in.form /\ normalizeURI(k) = normalizeURI(in)
         /\ k.elems \in Seq(STRING) /\ in.elems \in Seq(STRING) /\ IsPrefix(k.elems, in.elems)
<1>1. k \in InputForms /\ in \in InputForms
  BY HostsAssumption
<1>2. k.form = in.form /\ k.scheme = in.scheme /\ k.user = in.user
  BY <1>1 DEF Below, InputForms
<1> QED BY <1>1, <1>2 DEF normalizeURI, Below, InputForms, Paths

(* What one caller finds is right for the key of the deducer it shares,    *)
LEMMA RightForKey ==
  ASSUME NEW S \in Inputs, NEW k \in S, NEW in \in S, Below(k, in), k.form # "bad",
         FromMetadata(in).res = "ok"
  PROVE  Right(k, FromMetadata(in))
<1> DEFINE ans == FromMetadata(in)
<1>1. /\ k.form = in.form /\ normalizeURI(k) = normalizeURI(in)
      /\ k.elems \in Seq(STRING) /\ in.elems \in Seq(STRING) /\ IsPrefix(k.elems, in.elems)
  BY BelowAlike
<1>2. RootOf(in.elems, ans) /\ SchemeKept(in, ans) /\ in.elems \in DOMAIN Meta
  BY <1>1, MetadataRight DEF AllInputs
<1>3. SchemeKept(k, ans)
  BY <1>1, <1>2 DEF SchemeKept
<1>4. ASSUME AskedInside PROVE RootOf(k.elems, ans)
  <2>1. PICK r \in DOMAIN Roots : IsPrefix(r, k.elems)
    BY <1>1, <1>2, <1>4 DEF AskedInside
  <2>2. ans.root \in DOMAIN Roots /\ IsPrefix(ans.root, in.elems)
    BY <1>2 DEF RootOf, KindsRight
  <2>3. IsPrefix(r, in.elems)
    BY <1>1, <2>1, PrefixTransitive, HostsAssumption DEF Paths
  <2>4. r = ans.root
    BY <1>1, <2>1, <2>2, <2>3, OneRepository
  <2> QED BY <1>2, <2>1, <2>4 DEF RootOf
<1> QED BY <1>3, <1>4 DEF Right

(* and what is right for the key is right for every caller.                *)
LEMMA RightForCaller ==
  ASSUME NEW S \in Inputs, NEW k \in S, NEW in \in S, Below(k, in), NEW ans, Right(k, ans)
  PROVE  Right(in, ans)
<1>1. /\ k.form = in.form /\ normalizeURI(k) = normalizeURI(in)
      /\ k.elems \in Seq(STRING) /\ in.elems \in Seq(STRING) /\ IsPrefix(k.elems, in.elems)
  BY BelowAlike
<1>2. SchemeKept(in, ans)
  BY <1>1 DEF Right, SchemeKept
<1>3. ASSUME RootOf(k.elems, ans) PROVE RootOf(in.elems, ans)
  BY <1>1, <1>3, PrefixTransitive, HostsAssumption DEF RootOf, KindsRight, Paths
<1> QED BY <1>2, <1>3 DEF Right

-----------------------------------------------------------------------------
(* The steps *)

LEMMA DeductionInit == Init => DeductionInv
<1> SUFFICES ASSUME Init PROVE DeductionInv
  OBVIOUS
<1>1. Idle \in Calls
  BY DEF Idle, Calls, Answers, Found, InRequest
<1>2. Typed
  BY <1>1 DEF Init, Typed
<1>3. CallsRight
  BY DEF Init, CallsRight, CallRight, Idle, InRequest
<1>4. TrieRight /\ EveryDeducerHasKey
  BY DEF Init, TrieRight, EveryDeducerHasKey
<1> QED BY <1>2, <1>3, <1>4 DEF DeductionInv

(* A step of one call that loses no deducer leaves the others as right as  *)
(* they were.                                                              *)
LEMMA CallsKept ==
  ASSUME Typed, CallsRight, NEW t \in Threads, NEW c \in Calls, call' = [call EXCEPT ![t] = c],
         asked' = asked, DOMAIN hmds \subseteq DOMAIN hmds', CallRight(c, DOMAIN hmds')
  PROVE  call' \in [Threads -> Calls] /\ CallsRight'
<1>1. call' \in [Threads -> Calls] /\ call'[t] = c /\ \A s \in Threads \ {t} : call'[s] = call[s]
  BY DEF Typed
<1>2. ASSUME NEW s \in Threads PROVE CallRight(call[s], DOMAIN hmds)' 
  <2>1. CASE s = t
    BY <1>1, <2>1 DEF CallRight
  <2>2. CASE s # t
    BY <1>1, <2>2 DEF CallsRight, CallRight
  <2> QED BY <2>1, <2>2
<1> QED BY <1>1, <1>2 DEF CallsRight

(* The key of a deducer stays its key: nothing else refers to the deducer, *)
(* and who does is below the key.                                          *)
LEMMA KeyKept ==
  ASSUME Typed, NEW h \in DOMAIN hmds, NEW k \in asked, KeyOf(h, k),
         NEW t \in Threads, NEW c \in Calls, call' = [call EXCEPT ![t] = c],
         c.pc \in InRequest /\ c.hmd = h => Below(k, c.in),
         \A x \in DOMAIN rootxt' : rootxt'[x].is = "hmd" /\ rootxt'[x].id = h
           => x \in DOMAIN rootxt /\ rootxt'[x] = rootxt[x],
         hmds'[h].ans.res = "ok" => Right(k, hmds'[h].ans)
  PROVE  KeyOf(h, k)'
<1>1. call'[t] = c /\ \A s \in Threads \ {t} : call'[s] = call[s]
  BY DEF Typed
<1>2. \A s \in Threads : call'[s].pc \in InRequest /\ call'[s].hmd = h => Below(k, call'[s].in)
  BY <1>1 DEF KeyOf
<1>3. \A x \in DOMAIN rootxt' : rootxt'[x].is = "hmd" /\ rootxt'[x].id = h => x = k
  BY DEF KeyOf
<1> QED BY <1>2, <1>3 DEF KeyOf

(* What a call that answers comes to. *)
Returned(t, ans) == [call[t] EXCEPT !.pc = "returned", !.ans = ans, !.hmd = 0]

LEMMA AnswerReturns ==
  ASSUME Typed, NEW t \in Threads, NEW ans \in Answers, Answer(t, ans)
  PROVE  /\ call' = [call EXCEPT ![t] = Returned(t, ans)]
         /\ Returned(t, ans) \in Calls
         /\ Returned(t, ans).pc = "returned" /\ Returned(t, ans).in = call[t].in
         /\ Returned(t, ans).ans = ans
<1>1. call[t] \in Calls
  BY DEF Typed
<1>2. call' = [call EXCEPT ![t] = Returned(t, ans)]
  BY DEF Answer, Returned, Typed
<1> QED BY <1>1, <1>2 DEF Calls, Returned

(* A call returns what is right for it, and a root goes into the trie with *)
(* sources of its kinds; the deducers stay.                                *)
LEMMA ReturnKeeps ==
  ASSUME DeductionInv, NEW t \in Threads, NEW ans \in Answers, Answer(t, ans),
         call[t].pc # "idle", ans.res = "ok" => Right(call[t].in, ans),
         \/ UNCHANGED rootxt
         \/ ans.res = "ok" /\ KindsRight(ans.root, ans.mb)
            /\ Insert(Plain(ans.root), [is |-> "source", mb |-> ans.mb]),
         \/ UNCHANGED hmds
         \/ /\ call[t].pc \in InRequest /\ ans \in Found
            /\ hmds' = [hmds EXCEPT ![call[t].hmd] = [once |-> "done", ans |-> ans]]
            /\ \A k \in asked : KeyOf(call[t].hmd, k) /\ ans.res = "ok" => Right(k, ans),
         asked' = asked
  PROVE  DeductionInv'
<1> DEFINE c == Returned(t, ans)
<1>1. Typed /\ EveryDeducerHasKey /\ TrieRight /\ CallsRight
  BY DEF DeductionInv
<1>2. call' = [call EXCEPT ![t] = c] /\ c \in Calls
  BY <1>1, AnswerReturns
<1>3. c.pc = "returned" /\ c.in = call[t].in /\ c.ans = ans
  BY <1>1, AnswerReturns
<1>4. call[t].in \in asked
  BY <1>1 DEF CallsRight, CallRight
<1> HIDE DEF c
<1>5. hmds' \in Seq(Deducers) /\ DOMAIN hmds' = DOMAIN hmds
  <2>1. ans \in Found => [once |-> "done", ans |-> ans] \in Deducers
    BY DEF Deducers
  <2> QED BY <1>1, <2>1 DEF Typed
<1>6. CallRight(c, DOMAIN hmds')
  BY <1>3, <1>4 DEF CallRight, InRequest
<1>7. call' \in [Threads -> Calls] /\ CallsRight'
  BY <1>1, <1>2, <1>5, <1>6, CallsKept
<1>8. Typed'
  BY <1>1, <1>5, <1>7 DEF Typed
<1>9. TrieRight'
  <2>1. CASE UNCHANGED rootxt
    BY <1>1, <1>5, <2>1 DEF TrieRight
  <2>2. CASE KindsRight(ans.root, ans.mb) /\ Insert(Plain(ans.root), [is |-> "source", mb |-> ans.mb])
    <3>1. Plain(ans.root) = Plain(Plain(ans.root).elems) /\ Plain(ans.root).elems = ans.root
      BY DEF Plain
    <3> QED BY <1>1, <1>5, <2>2, <3>1 DEF TrieRight, Insert
  <2> QED BY <2>1, <2>2
<1>10. EveryDeducerHasKey'
  <2> SUFFICES ASSUME NEW h \in DOMAIN hmds PROVE \E k \in asked : KeyOf(h, k)'
    BY <1>5 DEF EveryDeducerHasKey
  <2>1. PICK k \in asked : KeyOf(h, k)
    BY <1>1 DEF EveryDeducerHasKey
  <2>2. hmds'[h].ans.res = "ok" => Right(k, hmds'[h].ans)
    <3>1. CASE hmds'[h] = hmds[h]
      BY <2>1, <3>1 DEF KeyOf
    <3>2. CASE hmds'[h] # hmds[h]
      <4>1. h = call[t].hmd /\ hmds'[h] = [once |-> "done", ans |-> ans]
            /\ (ans.res = "ok" => Right(k, ans))
        BY <1>1, <2>1, <3>2 DEF Typed
      <4> QED BY <4>1
    <3> QED BY <3>1, <3>2
  <2>3. \A x \in DOMAIN rootxt' : rootxt'[x].is = "hmd" /\ rootxt'[x].id = h
          => x \in DOMAIN rootxt /\ rootxt'[x] = rootxt[x]
    BY DEF Insert
  <2>4. KeyOf(h, k)'
    BY <1>1, <1>2, <1>3, <2>1, <2>2, <2>3, KeyKept DEF InRequest
  <2> QED BY <2>4
<1> QED BY <1>7, <1>8, <1>9, <1>10 DEF DeductionInv

(* A call goes on without touching the trie or what the deducers found. *)
LEMMA CallKeeps ==
  ASSUME DeductionInv, NEW t \in Threads, NEW c \in Calls, call' = [call EXCEPT ![t] = c],
         UNCHANGED <<asked, rootxt>>, CallRight(c, DOMAIN hmds),
         \A k \in asked : c.pc \in InRequest /\ KeyOf(c.hmd, k) => Below(k, c.in),
         \/ UNCHANGED hmds
         \/ \E h \in DOMAIN hmds, o \in {"fresh", "running", "done"} : hmds' = [hmds EXCEPT ![h].once = o]
  PROVE  DeductionInv'
<1>1. Typed /\ EveryDeducerHasKey /\ TrieRight /\ CallsRight
  BY DEF DeductionInv
<1>2. /\ hmds' \in Seq(Deducers) /\ DOMAIN hmds' = DOMAIN hmds
      /\ \A h \in DOMAIN hmds : hmds'[h].ans = hmds[h].ans
  <2>1. CASE UNCHANGED hmds
    BY <1>1, <2>1 DEF Typed
  <2>2. CASE \E h \in DOMAIN hmds, o \in {"fresh", "running", "done"} : hmds' = [hmds EXCEPT ![h].once = o]
    <3>1. PICK h \in DOMAIN hmds, o \in {"fresh", "running", "done"} : hmds' = [hmds EXCEPT ![h].once = o]
      BY <2>2
    <3>2. hmds \in Seq(Deducers) /\ hmds[h] \in Deducers
      BY <1>1 DEF Typed
    <3> DEFINE d == [hmds[h] EXCEPT !.once = o]
    <3>3. d \in Deducers /\ d.ans = hmds[h].ans
      BY <3>2 DEF Deducers
    <3>4. hmds' = [hmds EXCEPT ![h] = d]
      BY <3>1
    <3> HIDE DEF d
    <3>5. hmds' \in Seq(Deducers) /\ DOMAIN hmds' = DOMAIN hmds
          /\ \A g \in DOMAIN hmds : hmds'[g].ans = hmds[g].ans
      BY <3>2, <3>3, <3>4
    <3> QED BY <3>5
  <2> QED BY <2>1, <2>2
<1>3. CallRight(c, DOMAIN hmds')
  BY <1>2
<1>4. call' \in [Threads -> Calls] /\ CallsRight'
  BY <1>1, <1>2, <1>3, CallsKept
<1>5. Typed' /\ TrieRight'
  BY <1>1, <1>2, <1>4 DEF Typed, TrieRight
<1>6. EveryDeducerHasKey'
  <2> SUFFICES ASSUME NEW h \in DOMAIN hmds PROVE \E k \in asked : KeyOf(h, k)'
    BY <1>2 DEF EveryDeducerHasKey
  <2>1. PICK k \in asked : KeyOf(h, k)
    BY <1>1 DEF EveryDeducerHasKey
  <2>2. hmds'[h].ans.res = "ok" => Right(k, hmds'[h].ans)
    BY <1>2, <2>1 DEF KeyOf
  <2>3. KeyOf(h, k)'
    BY <1>1, <2>1, <2>2, KeyKept
  <2> QED BY <2>3
<1> QED BY <1>4, <1>5, <1>6 DEF DeductionInv

(* A key of the trie that is hit: above the input, in its form. *)
LEMMA HitBelow ==
  ASSUME NEW in, NEW k \in Hits(in)
  PROVE  k \in DOMAIN rootxt /\ Below(k, in)
  BY DEF Hits, LongestPrefix, Candidates, LiteralPrefix, isPathPrefixOrEqual, Below

LEMMA deduceRootPathKeeps ==
  ASSUME DeductionInv, NEW t \in Threads, NEW in \in asked, deduceRootPath(t, in)
  PROVE  DeductionInv'
<1> DEFINE now == [Idle EXCEPT !.in = in]
           Sure(c) == /\ c \in Calls /\ CallRight(c, DOMAIN hmds)
                      /\ \A k \in asked : c.pc \in InRequest /\ KeyOf(c.hmd, k) => Below(k, c.in)
<1>1. Typed /\ EveryDeducerHasKey /\ TrieRight /\ CallsRight
  BY DEF DeductionInv
<1>2. in \in AllInputs /\ asked \in Inputs
  BY <1>1 DEF Typed, AllInputs
<1>3. SUFFICES ASSUME NEW c, call' = [call EXCEPT ![t] = c],
                      \/ c = [now EXCEPT !.pc = "returned", !.ans = Failed]
                      \/ \E k \in Hits(in) :
                           \/ /\ rootxt[k].is = "source"
                              /\ c = [now EXCEPT !.pc = "returned", !.ans = Deduced(k.elems, rootxt[k].mb)]
                           \/ rootxt[k].is = "hmd" /\ c = [now EXCEPT !.pc = "once", !.hmd = rootxt[k].id]
                      \/ deduceKnownPaths(in).res = "ok" /\ c = [now EXCEPT !.pc = "known"]
                      \/ deduceKnownPaths(in).res = "unknown" /\ c = [now EXCEPT !.pc = "vanity"]
               PROVE  Sure(c)
  BY <1>1, CallKeeps DEF deduceRootPath
<1>4. now \in Calls /\ now.in = in
  <2>1. Idle \in Calls
    BY DEF Idle, Calls, Answers, Found, InRequest
  <2> QED BY <1>2, <2>1 DEF Calls
<1> HIDE DEF now
<1>5. CASE c = [now EXCEPT !.pc = "returned", !.ans = Failed]
  <2>1. Failed \in Answers /\ Failed.res # "ok"
    BY DEF Failed, Answers, Found
  <2>2. c \in Calls /\ c.pc = "returned" /\ c.in = in /\ c.ans = Failed
    BY <1>4, <1>5, <2>1 DEF Calls
  <2> QED BY <2>1, <2>2 DEF CallRight, InRequest
<1>6. ASSUME NEW k \in Hits(in), rootxt[k].is = "source",
             c = [now EXCEPT !.pc = "returned", !.ans = Deduced(k.elems, rootxt[k].mb)]
      PROVE  Sure(c)
  <2>1. k \in DOMAIN rootxt /\ Below(k, in)
    BY HitBelow
  <2>2. k = Plain(k.elems) /\ KindsRight(k.elems, rootxt[k].mb)
    BY <1>1, <1>6, <2>1 DEF TrieRight
  <2>3. Deduced(k.elems, rootxt[k].mb) \in Answers
    BY <2>2 DEF KindsRight, Answers
  <2>4. c \in Calls /\ c.pc = "returned" /\ c.in = in /\ c.ans = Deduced(k.elems, rootxt[k].mb)
    BY <1>4, <1>6, <2>3 DEF Calls
  <2>5. in.form = "plain" /\ IsPrefix(k.elems, in.elems)
    <3>1. in \in InputForms
      BY <1>2, HostsAssumption DEF AllInputs
    <3>2. in = [Plain(k.elems) EXCEPT !.elems = in.elems]
      BY <2>1, <2>2 DEF Below
    <3> QED BY <2>1, <3>1, <3>2 DEF Plain, Below
  <2>6. normalizeURI(in).scheme = Empty
    BY <2>5 DEF normalizeURI
  <2>7. Right(in, Deduced(k.elems, rootxt[k].mb))
    BY <2>2, <2>5, <2>6 DEF Right, SchemeKept, SchemeAllowed, RootOf, Deduced
  <2> QED BY <2>4, <2>7 DEF CallRight, InRequest
<1>7. ASSUME NEW k \in Hits(in), rootxt[k].is = "hmd",
             c = [now EXCEPT !.pc = "once", !.hmd = rootxt[k].id]
      PROVE  Sure(c)
  <2>1. k \in DOMAIN rootxt /\ Below(k, in)
    BY HitBelow
  <2>2. rootxt[k].id \in DOMAIN hmds /\ rootxt[k].id \in Nat
    BY <1>1, <1>7, <2>1 DEF TrieRight, Typed
  <2>3. c \in Calls /\ c.pc = "once" /\ c.in = in /\ c.hmd = rootxt[k].id
    BY <1>4, <1>7, <2>2 DEF Calls, InRequest
  <2>4. \A l \in asked : KeyOf(c.hmd, l) => l = k
    BY <1>7, <2>1, <2>3 DEF KeyOf
  <2> QED BY <2>1, <2>2, <2>3, <2>4 DEF CallRight, InRequest
<1>8. ASSUME NEW at \in {"known", "vanity"}, c = [now EXCEPT !.pc = at],
             deduceKnownPaths(in).res = IF at = "known" THEN "ok" ELSE "unknown"
      PROVE  Sure(c)
  <2>1. c \in Calls /\ c.pc = at /\ c.in = in
    BY <1>4, <1>8 DEF Calls
  <2> QED BY <1>8, <2>1 DEF CallRight, InRequest
<1> QED BY <1>3, <1>5, <1>6, <1>7, <1>8

LEMMA InsertKnownKeeps ==
  ASSUME DeductionInv, NEW t \in Threads, InsertKnown(t)
  PROVE  DeductionInv'
<1> DEFINE pd == deduceKnownPaths(call[t].in)
<1>1. call[t].pc = "known" /\ call[t].in \in AllInputs /\ pd.res = "ok"
  BY DEF InsertKnown, DeductionInv, CallsRight, CallRight, Typed, AllInputs
<1>2. RootOf(call[t].in.elems, pd) /\ SchemeKept(call[t].in, pd)
  BY <1>1, KnownRight
<1>3. pd \in Answers /\ KindsRight(pd.root, pd.mb) /\ Right(call[t].in, pd)
  BY <1>1, <1>2 DEF RootOf, Right, Answers, Known
<1> QED BY <1>1, <1>3, ReturnKeeps DEF InsertKnown

(* A new deducer: its key is the path of the call that enters it. *)
LEMMA InsertDeducerKeeps ==
  ASSUME DeductionInv, NEW t \in Threads, InsertDeducer(t),
         NEW in, in = call[t].in, NEW n, n = Len(hmds) + 1
  PROVE  DeductionInv'
<1> DEFINE c == [call[t] EXCEPT !.pc = "once", !.hmd = n]
           d == [once |-> "fresh", ans |-> NoAnswer]
<1>1. Typed /\ EveryDeducerHasKey /\ TrieRight /\ CallsRight
  BY DEF DeductionInv
<1>2. in \in asked /\ deduceKnownPaths(in).res = "unknown" /\ asked' = asked
  BY <1>1 DEF InsertDeducer, CallsRight, CallRight
<1>3. in \in InputForms /\ in.form # "bad"
  <2>1. in \in InputForms
    BY <1>1, <1>2, HostsAssumption DEF Typed
  <2>2. in.form = "bad" => deduceKnownPaths(in).res = "error"
    BY DEF deduceKnownPaths, Failed
  <2> QED BY <1>2, <2>1, <2>2
<1>4. /\ hmds' \in Seq(Deducers) /\ DOMAIN hmds' = DOMAIN hmds \cup {n} /\ n \notin DOMAIN hmds
      /\ hmds'[n] = d /\ \A h \in DOMAIN hmds : hmds'[h] = hmds[h]
  <2>1. d \in Deducers
    BY DEF Deducers, Found
  <2>2. hmds \in Seq(Deducers) /\ hmds' = Append(hmds, d)
    BY <1>1 DEF InsertDeducer, Typed
  <2> HIDE DEF d
  <2> QED BY <2>1, <2>2
<1>5. n \in Nat
  BY <1>1 DEF Typed
<1>6. call' = [call EXCEPT ![t] = c] /\ c \in Calls /\ c.pc = "once" /\ c.hmd = n /\ c.in = in
  <2>1. call[t] \in Calls
    BY <1>1 DEF Typed
  <2>2. call' = [call EXCEPT ![t] = c]
    BY <1>1 DEF InsertDeducer, Typed
  <2> QED BY <1>5, <2>1, <2>2 DEF Calls, InRequest
<1>7. NoAnswer.res # "ok"
  BY DEF NoAnswer
<1> HIDE DEF c
<1>8. CallRight(c, DOMAIN hmds')
  BY <1>2, <1>4, <1>6 DEF CallRight, InRequest
<1>9. call' \in [Threads -> Calls] /\ CallsRight'
  BY <1>1, <1>2, <1>4, <1>6, <1>8, CallsKept
<1>10. Typed'
  BY <1>1, <1>2, <1>4, <1>9 DEF Typed
<1>11. DOMAIN rootxt' = DOMAIN rootxt \cup {in}
       /\ rootxt' = [x \in DOMAIN rootxt \cup {in} |-> IF x = in THEN [is |-> "hmd", id |-> n] ELSE rootxt[x]]
  BY DEF InsertDeducer, Insert
<1>12. TrieRight'
  <2> SUFFICES ASSUME NEW x \in DOMAIN rootxt'
               PROVE  \/ rootxt'[x].is = "source" /\ x = Plain(x.elems) /\ KindsRight(x.elems, rootxt'[x].mb)
                      \/ rootxt'[x].is = "hmd" /\ rootxt'[x].id \in DOMAIN hmds'
    BY DEF TrieRight
  <2>1. CASE x = in
    BY <1>4, <1>11, <2>1
  <2>2. CASE x # in
    BY <1>1, <1>4, <1>11, <2>2 DEF TrieRight
  <2> QED BY <2>1, <2>2
<1>13. ASSUME NEW h \in DOMAIN hmds PROVE \E k \in asked : KeyOf(h, k)'
  <2>1. PICK k \in asked : KeyOf(h, k)
    BY <1>1 DEF EveryDeducerHasKey
  <2>2. hmds'[h].ans.res = "ok" => Right(k, hmds'[h].ans)
    BY <1>4, <2>1 DEF KeyOf
  <2>3. \A x \in DOMAIN rootxt' : rootxt'[x].is = "hmd" /\ rootxt'[x].id = h
          => x \in DOMAIN rootxt /\ rootxt'[x] = rootxt[x]
    BY <1>4, <1>11
  <2>4. h # n
    BY <1>4
  <2>5. KeyOf(h, k)'
    BY <1>1, <1>6, <2>1, <2>2, <2>3, <2>4, KeyKept
  <2> QED BY <2>5
<1>14. KeyOf(n, in)'
  <2>1. \A x \in DOMAIN rootxt' : rootxt'[x].is = "hmd" /\ rootxt'[x].id = n => x = in
    BY <1>1, <1>4, <1>11 DEF TrieRight
  <2>2. Below(in, in)
    <3>1. in.elems \in Seq(STRING) /\ [in EXCEPT !.elems = in.elems] = in
      BY <1>3 DEF InputForms, Paths
    <3> QED BY <3>1, PrefixElems DEF Below
  <2>3. \A s \in Threads : call'[s].pc \in InRequest /\ call'[s].hmd = n => call'[s].in = in
    BY <1>1, <1>4, <1>6 DEF CallsRight, CallRight, Typed
  <2>4. hmds'[n].ans.res # "ok"
    BY <1>4, <1>7
  <2> QED BY <1>3, <2>1, <2>2, <2>3, <2>4 DEF KeyOf
<1>15. EveryDeducerHasKey'
  BY <1>2, <1>4, <1>13, <1>14 DEF EveryDeducerHasKey
<1> QED BY <1>9, <1>10, <1>12, <1>15 DEF DeductionInv

(* Who waits for a request shares what it found. *)
LEMMA OnceKeeps ==
  ASSUME DeductionInv, NEW t \in Threads, Once(t)
  PROVE  DeductionInv'
<1> DEFINE h == call[t].hmd
<1>1. Typed /\ EveryDeducerHasKey /\ TrieRight /\ CallsRight
  BY DEF DeductionInv
<1>2. call[t].pc = "once" /\ h \in DOMAIN hmds /\ call[t].in \in asked /\ call[t] \in Calls
  BY <1>1 DEF Once, CallsRight, CallRight, InRequest, Typed
<1>3. PICK k \in asked : KeyOf(h, k)
  BY <1>1, <1>2 DEF EveryDeducerHasKey
<1>4. \A l \in asked : KeyOf(h, l) => Below(l, call[t].in)
  BY <1>2 DEF KeyOf, InRequest
<1>5. CASE hmds' = [hmds EXCEPT ![h].once = "running"] /\ call' = [call EXCEPT ![t].pc = "request"]
  <2> DEFINE c == [call[t] EXCEPT !.pc = "request"]
  <2>1. c \in Calls /\ c.pc = "request" /\ c.hmd = h /\ c.in = call[t].in
    BY <1>2 DEF Calls, InRequest
  <2>2. call' = [call EXCEPT ![t] = c]
    BY <1>1, <1>5 DEF Typed
  <2> HIDE DEF c
  <2>3. CallRight(c, DOMAIN hmds)
    BY <1>2, <2>1 DEF CallRight, InRequest
  <2>4. \A l \in asked : c.pc \in InRequest /\ KeyOf(c.hmd, l) => Below(l, c.in)
    BY <1>4, <2>1
  <2> QED BY <1>2, <1>5, <2>1, <2>2, <2>3, <2>4, CallKeeps DEF Once
<1>6. CASE Answer(t, hmds[h].ans) /\ UNCHANGED hmds
  <2>1. hmds[h].ans \in Answers
    <3>1. hmds[h] \in Deducers
      BY <1>1, <1>2 DEF Typed
    <3> QED BY <3>1 DEF Deducers, Answers
  <2>2. hmds[h].ans.res = "ok" => Right(call[t].in, hmds[h].ans)
    BY <1>1, <1>2, <1>3, <1>4, RightForCaller DEF KeyOf, Typed
  <2> QED BY <1>2, <1>6, <2>1, <2>2, ReturnKeeps DEF Once
<1> QED BY <1>5, <1>6 DEF Once

(* The request fails for all who share it, or is answered for its caller.  *)
LEMMA RequestKeeps ==
  ASSUME DeductionInv, NEW t \in Threads, Request(t)
  PROVE  DeductionInv'
<1> DEFINE h  == call[t].hmd
           in == call[t].in
<1>1. Typed /\ EveryDeducerHasKey /\ TrieRight /\ CallsRight
  BY DEF DeductionInv
<1>2. call[t].pc = "request" /\ h \in DOMAIN hmds /\ in \in asked /\ call[t] \in Calls
  BY <1>1 DEF Request, CallsRight, CallRight, InRequest, Typed
<1>3. CASE Finish(t, Failed)
  <2>1. Failed \in Answers /\ Failed \in Found /\ Failed.res # "ok"
    BY DEF Failed, Answers, Found
  <2> QED BY <1>2, <1>3, <2>1, ReturnKeeps DEF Request, Finish, InRequest
<1>4. CASE /\ FromMetadata(in) # Failed /\ UNCHANGED hmds
           /\ call' = [call EXCEPT ![t] = [@ EXCEPT !.pc = "return", !.ans = FromMetadata(in)]]
  <2> DEFINE c == [call[t] EXCEPT !.pc = "return", !.ans = FromMetadata(in)]
  <2>1. FromMetadata(in) \in Answers /\ FromMetadata(in).res = "ok"
    <3>1. in \in AllInputs
      BY <1>1, <1>2 DEF AllInputs, Typed
    <3>2. FromMetadata(in).res = "ok"
      BY <1>4 DEF FromMetadata, Deduced
    <3> QED BY <3>1, <3>2 DEF Answers, Found
  <2>2. c \in Calls /\ c.pc = "return" /\ c.hmd = h /\ c.in = in /\ c.ans = FromMetadata(in)
    BY <1>2, <2>1 DEF Calls, InRequest
  <2>3. call' = [call EXCEPT ![t] = c]
    BY <1>1, <1>4 DEF Typed
  <2> HIDE DEF c
  <2>4. CallRight(c, DOMAIN hmds)
    BY <1>2, <2>1, <2>2 DEF CallRight, InRequest
  <2>5. \A l \in asked : c.pc \in InRequest /\ KeyOf(c.hmd, l) => Below(l, c.in)
    BY <1>2, <2>2 DEF KeyOf, InRequest
  <2> QED BY <1>4, <2>2, <2>3, <2>4, <2>5, CallKeeps DEF Request
<1> QED BY <1>3, <1>4 DEF Request

(* The root goes into the trie, and the answer to all who wait. *)
LEMMA returnFuncKeeps ==
  ASSUME DeductionInv, NEW t \in Threads, returnFunc(t)
  PROVE  DeductionInv'
<1> DEFINE h   == call[t].hmd
           in  == call[t].in
           ans == call[t].ans
<1>1. Typed /\ EveryDeducerHasKey /\ TrieRight /\ CallsRight
  BY DEF DeductionInv
<1>2. /\ call[t].pc = "return" /\ h \in DOMAIN hmds /\ in \in asked /\ call[t] \in Calls
      /\ ans = FromMetadata(in) /\ ans.res = "ok"
  BY <1>1 DEF returnFunc, CallsRight, CallRight, InRequest, Typed
<1>3. in \in AllInputs /\ asked \in Inputs
  BY <1>1, <1>2 DEF AllInputs, Typed
<1>4. ans \in Found /\ ans \in Answers
  BY <1>2, <1>3 DEF Answers, Found
<1>5. \A l \in asked : KeyOf(h, l) => Below(l, in) /\ l.form # "bad"
  BY <1>2 DEF KeyOf, InRequest
<1>6. PICK k \in asked : KeyOf(h, k)
  BY <1>1, <1>2 DEF EveryDeducerHasKey
<1>7. in.form # "bad"
  BY <1>2, <1>3, <1>5, <1>6, BelowAlike
<1>8. RootOf(in.elems, ans) /\ SchemeKept(in, ans)
  BY <1>2, <1>3, <1>7, MetadataRight
<1>9. KindsRight(ans.root, ans.mb) /\ Right(in, ans)
  BY <1>8 DEF RootOf, Right
<1>10. \A l \in asked : KeyOf(h, l) /\ ans.res = "ok" => Right(l, ans)
  BY <1>2, <1>3, <1>5, RightForKey
<1> QED BY <1>2, <1>4, <1>9, <1>10, ReturnKeeps DEF returnFunc, Finish, InRequest

LEMMA CancelKeeps ==
  ASSUME DeductionInv, NEW t \in Threads, Cancel(t)
  PROVE  DeductionInv'
<1> DEFINE c == [call[t] EXCEPT !.canceled = TRUE]
<1>1. Typed /\ CallsRight /\ call[t] \in Calls
  BY DEF DeductionInv, Typed
<1>2. /\ c \in Calls /\ c.pc = call[t].pc /\ c.in = call[t].in
      /\ c.hmd = call[t].hmd /\ c.ans = call[t].ans
  BY <1>1 DEF Calls
<1>3. call' = [call EXCEPT ![t] = c]
  BY <1>1 DEF Cancel, Typed
<1> HIDE DEF c
<1>4. CallRight(c, DOMAIN hmds)
  BY <1>1, <1>2 DEF CallsRight, CallRight
<1>5. \A l \in asked : c.pc \in InRequest /\ KeyOf(c.hmd, l) => Below(l, c.in)
  BY <1>2 DEF KeyOf
<1> QED BY <1>2, <1>3, <1>4, <1>5, CallKeeps DEF Cancel

LEMMA DeductionStep == DeductionInv /\ [Next]_vars => DeductionInv'
<1> SUFFICES ASSUME DeductionInv, [Next]_vars PROVE DeductionInv'
  OBVIOUS
<1>1. CASE UNCHANGED vars \/ Release
  <2>1. UNCHANGED <<asked, rootxt, hmds, call>>
    BY <1>1 DEF vars, Release
  <2> QED BY <2>1 DEF DeductionInv, Typed, EveryDeducerHasKey, KeyOf, TrieRight, CallsRight, CallRight
<1>2. ASSUME NEW t \in Threads, Step(t) \/ Cancel(t) PROVE DeductionInv'
  BY <1>2, InsertKnownKeeps, InsertDeducerKeeps, OnceKeeps, RequestKeeps, returnFuncKeeps, CancelKeeps
     DEF Step
<1>3. ASSUME NEW t \in Threads, NEW in \in asked, deduceRootPath(t, in) PROVE DeductionInv'
  BY <1>3, deduceRootPathKeeps
<1> QED BY <1>1, <1>2, <1>3 DEF Next

-----------------------------------------------------------------------------
(* For any callers, inputs and faults: an input that names a scheme is     *)
(* never served with another one, except https for http, through whatever  *)
(* entry of rootxt or request of another caller the answer came.           *)
THEOREM SchemesAreHonored == Spec => []SchemeHonored
<1>1. DeductionInv => SchemeHonored
  BY DEF DeductionInv, CallsRight, CallRight, Answered, Right, SchemeKept, SchemeAllowed, SchemeHonored
<1> QED BY <1>1, DeductionInit, DeductionStep, PTL DEF Spec

(* For any callers, inputs, hosts and faults, as long as nobody asks for a *)
(* path above a repository's root on a host that is not well known: every  *)
(* call that succeeds names the root of the repository its own path is in, *)
(* with sources of the kinds it may be, whoever's request it shares.       *)
THEOREM RootsAreRight ==
  ASSUME AskedInside
  PROVE  Spec => []RootRight
<1>1. DeductionInv => RootRight
  <2> SUFFICES ASSUME DeductionInv, NEW t \in Threads, Answered(t)
               PROVE  /\ call[t].ans.root \in DOMAIN Roots
                      /\ IsPrefix(call[t].ans.root, call[t].in.elems)
                      /\ {mb.typ : mb \in ToSet(call[t].ans.mb)} \in (SUBSET Roots[call[t].ans.root]) \ {{}}
    BY DEF RootRight
  <2>1. RootOf(call[t].in.elems, call[t].ans)
    BY DEF DeductionInv, CallsRight, CallRight, Answered, Right
  <2>2. ToSet(call[t].ans.mb) = {call[t].ans.mb[i] : i \in DOMAIN call[t].ans.mb}
    BY DEF ToSet
  <2>3. /\ call[t].ans.root \in DOMAIN Roots /\ IsPrefix(call[t].ans.root, call[t].in.elems)
        /\ DOMAIN call[t].ans.mb # {}
        /\ \A i \in DOMAIN call[t].ans.mb : call[t].ans.mb[i].typ \in Roots[call[t].ans.root]
    BY <2>1 DEF RootOf, KindsRight
  <2>4. \A x \in ToSet(call[t].ans.mb) : x.typ \in Roots[call[t].ans.root]
    BY <2>2, <2>3
  <2>5. ToSet(call[t].ans.mb) # {}
    BY <2>2, <2>3
  <2> QED BY <2>3, <2>4, <2>5
<1> QED BY <1>1, DeductionInit, DeductionStep, PTL DEF Spec
=============================================================================
