----------------------------- MODULE KnownHosts -----------------------------
(***************************************************************************)
(* What gps/deduce.go tells from an import path or a URL without asking    *)
(* the network: normalizeURI(), the deducers of the well-known hosts, the  *)
(* one for a VCS extension and deduceKnownPaths(), which picks among them. *)
(*                                                                         *)
(* An input is a record of the form it is written in ("plain", "uri" or    *)
(* "scp", or "bad" for one that does not parse), its scheme and user, and  *)
(* its path as a sequence of elements, the host first.  The regular        *)
(* expressions ask three things of an element: whether its characters are  *)
(* allowed, which VCS extension it has and which gopkg.in version.         *)
(***************************************************************************)
EXTENDS Naturals, Sequences, SequencesExt

CONSTANTS
  Valid,     \* the elements with allowed characters
  Ext,       \* the VCS extension of each element that has one
  Gopkgin    \* "major", "unstable" or "minor" for each element with a version

(* No scheme, or no user. *)
Empty == ""

gitSchemes     == <<"https", "ssh", "git", "http">>
bzrSchemes     == <<"https", "bzr+ssh", "bzr", "http">>
hgSchemes      == <<"https", "ssh", "http">>
svnSchemes     == <<"https", "http", "svn", "svn+ssh">>
gopkginSchemes == <<"https", "http">>

SchemesOf(typ) ==
  CASE typ = "git" -> gitSchemes [] typ = "bzr" -> bzrSchemes
    [] typ = "hg" -> hgSchemes   [] typ = "svn" -> svnSchemes

validateVCSScheme(scheme, typ) == scheme = "ssh" \/ scheme \in ToSet(SchemesOf(typ))

(* A maybeSource: what is tried, with which scheme and as which user. *)
Source(typ, scheme, user) == [typ |-> typ, scheme |-> scheme, user |-> user]

Failed       == [res |-> "error", root |-> <<>>, mb |-> <<>>]
NoKnownMatch == [res |-> "unknown", root |-> <<>>, mb |-> <<>>]
Deduced(root, mb) == [res |-> "ok", root |-> root, mb |-> mb]

(* normalizeURI(): the scheme and user that were given; the path is elems. *)
normalizeURI(in) ==
  CASE in.form = "scp"   -> [scheme |-> "ssh", user |-> in.user]
    [] in.form = "uri"   -> [scheme |-> in.scheme, user |-> in.user]
    [] in.form = "plain" -> [scheme |-> Empty, user |-> Empty]

-----------------------------------------------------------------------------
(* How many elements the root of a path has; 0 when a host's expression    *)
(* does not match.                                                         *)
Plainly(path, n) == IF Len(path) >= n THEN n ELSE 0

WithExt(path, i)   == path[i] \in DOMAIN Ext
Versioned(path, i) == i <= Len(path) /\ path[i] \in DOMAIN Gopkgin

GopkginRoot(path) ==
  CASE Versioned(path, 2) -> 2
    [] ~Versioned(path, 2) /\ Versioned(path, 3) -> 3
    [] OTHER -> 0

JazzRoot(path) == IF Len(path) >= 4 /\ path[2] = "git" THEN 4 ELSE 0

ApacheRoot(path) == IF WithExt(path, 2) /\ Ext[path[2]] = "git" THEN 2 ELSE 0

RootLength(path) ==
  CASE path[1] = "github.com"        -> Plainly(path, 3)
    [] path[1] = "bitbucket.org"     -> Plainly(path, 3)
    [] path[1] = "gopkg.in"          -> GopkginRoot(path)
    [] path[1] = "launchpad.net"     -> Plainly(path, 2)
    [] path[1] = "git.launchpad.net" -> Plainly(path, 2)
    [] path[1] = "hub.jazz.net"      -> JazzRoot(path)
    [] path[1] = "git.apache.org"    -> ApacheRoot(path)

Matches(path) == RootLength(path) > 0 /\ \A i \in 2 .. Len(path) : path[i] \in Valid

Hosts == {"github.com", "bitbucket.org", "gopkg.in", "launchpad.net",
          "git.launchpad.net", "hub.jazz.net", "git.apache.org"}

(* The path up to its first element with a VCS extension, or none of it. *)
ExtRoot(path) ==
  LET at == {i \in 2 .. Len(path) : WithExt(path, i)}
  IN  IF at = {} \/ \E i \in 2 .. Len(path) : path[i] \notin Valid THEN <<>>
      ELSE SubSeq(path, 1, CHOOSE i \in at : \A j \in at : i <= j)

-----------------------------------------------------------------------------
(* What the deducers offer: one source when a scheme was asked for, one    *)
(* for each scheme of the VCS otherwise, and <<>> for an error.            *)
ForAll(typ, u) ==
  [i \in DOMAIN SchemesOf(typ) |-> Source(typ, SchemesOf(typ)[i], u.user)]

(* ssh is used as the user the host asks for. *)
ForAllAs(typ, u) ==
  [i \in DOMAIN SchemesOf(typ) |->
     Source(typ, SchemesOf(typ)[i], IF SchemesOf(typ)[i] = "ssh" THEN typ ELSE u.user)]

Asked(typ, u) ==
  CASE u.scheme = Empty -> ForAll(typ, u)
    [] u.scheme # Empty /\ validateVCSScheme(u.scheme, typ) -> <<Source(typ, u.scheme, u.user)>>
    [] OTHER -> <<>>

GithubSource(u) ==
  CASE u.scheme = "ssh" /\ u.user \notin {Empty, "git"} -> <<>>
    [] u.scheme = "ssh" /\ u.user \in {Empty, "git"} -> <<Source("git", "ssh", "git")>>
    [] u.scheme = Empty    -> ForAllAs("git", u)
    [] OTHER            -> Asked("git", u)

IsVCS(typ, u, last) == u.user = typ \/ (last \in DOMAIN Ext /\ Ext[last] = typ)

(* Both kinds of repository are tried, hg first, unless a suffix or a user *)
(* tells which it is.                                                      *)
BitbucketSource(u, last) ==
  LET isgit == IsVCS("git", u, last)
      ishg  == IsVCS("hg", u, last)
      either == validateVCSScheme(u.scheme, "git") \/ validateVCSScheme(u.scheme, "hg")
  IN  CASE u.scheme # Empty /\ isgit -> Asked("git", u)
        [] u.scheme # Empty /\ ~isgit /\ ishg -> Asked("hg", u)
        [] u.scheme # Empty /\ ~isgit /\ ~ishg ->
             IF either THEN <<Source("hg", u.scheme, u.user), Source("git", u.scheme, u.user)>>
             ELSE <<>>
        [] u.scheme = Empty -> (IF isgit THEN <<>> ELSE ForAllAs("hg", u))
                            \o (IF ishg THEN <<>> ELSE ForAllAs("git", u))

(* Only major versions, and no scheme: github is behind it. *)
GopkginSource(u, last) ==
  IF u.scheme # Empty \/ Gopkgin[last] = "minor" THEN <<>>
  ELSE [i \in DOMAIN gopkginSchemes |->
          Source(IF Gopkgin[last] = "unstable" THEN "gopkgin-unstable" ELSE "gopkgin",
                 gopkginSchemes[i], u.user)]

JazzSource(u) ==
  IF u.scheme \in {Empty, "https"} THEN <<Source("git", "https", u.user)>> ELSE <<>>

deduceSource(u, root) ==
  CASE root[1] = "github.com"    -> GithubSource(u)
    [] root[1] = "bitbucket.org" -> BitbucketSource(u, Last(root))
    [] root[1] = "gopkg.in"      -> GopkginSource(u, Last(root))
    [] root[1] = "launchpad.net" -> Asked("bzr", u)
    [] root[1] = "hub.jazz.net"  -> JazzSource(u)
    [] root[1] \in {"git.launchpad.net", "git.apache.org"} -> Asked("git", u)

ExtSource(u, root) ==
  IF Ext[Last(root)] = "svn" THEN <<>> ELSE Asked(Ext[Last(root)], u)

Offered(root, mb) == IF mb = <<>> THEN Failed ELSE Deduced(root, mb)

(* deduceKnownPaths(): a well-known host decides alone; the trie's keys    *)
(* end in "/", so that a bare host name is not one.                        *)
deduceKnownPaths(in) ==
  LET u    == normalizeURI(in)
      path == in.elems
      root == SubSeq(path, 1, RootLength(path))
      ext  == ExtRoot(path)
  IN  CASE in.form = "bad" -> Failed
        [] in.form # "bad" /\ path[1] \in Hosts /\ Len(path) > 1 ->
             IF Matches(path) THEN Offered(root, deduceSource(u, root)) ELSE Failed
        [] in.form # "bad" /\ ~(path[1] \in Hosts /\ Len(path) > 1) ->
             IF ext = <<>> THEN NoKnownMatch ELSE Offered(ext, ExtSource(u, ext))

=============================================================================
