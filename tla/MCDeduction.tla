---------------------------- MODULE MCDeduction -----------------------------
(***************************************************************************)
(* Families of inputs.  The first mixes a vanity repository, asked for at  *)
(* its root and below it, plainly and with a scheme, with two repositories *)
(* of a well-known host of which one is named like the beginning of the    *)
(* other.  The others have, for each host and each VCS extension, what its *)
(* deducer tells apart: a path below the root, the forms and schemes, and  *)
(* what it turns down.                                                     *)
(***************************************************************************)
EXTENDS Deduction

Github    == "github.com"
Bitbucket == "bitbucket.org"
Gopkg     == "gopkg.in"
Launchpad == "launchpad.net"
GitPad    == "git.launchpad.net"
Jazz      == "hub.jazz.net"
Apache    == "git.apache.org"
Vanity    == "example.org"

URI(scheme, user, path) == [form |-> "uri", scheme |-> scheme, user |-> user, elems |-> path]
SCP(user, path)         == [form |-> "scp", scheme |-> "", user |-> user, elems |-> path]
Bad                     == [Plain(<<Vanity>>) EXCEPT !.form = "bad"]

MCValid   == {"u", "foo", "foobar", "x", "lib", "go", "git", "r.git", "r.hg", "r.bzr", "r.svn",
              "p.v1", "p.v2-unstable", "p.v1.2"}
MCExt     == [e \in {"r.git", "r.hg", "r.bzr", "r.svn"} |->
                CASE e = "r.git" -> "git" [] e = "r.hg" -> "hg" [] e = "r.bzr" -> "bzr" [] e = "r.svn" -> "svn"]
MCGopkgin == [e \in {"p.v1", "p.v2-unstable", "p.v1.2"} |->
                CASE e = "p.v1" -> "major" [] e = "p.v2-unstable" -> "unstable" [] e = "p.v1.2" -> "minor"]
MCBegins  == {<<"foo", "foobar">>}

(* Bitbucket has both kinds, unless the name tells. *)
Root(path, kinds) == [root |-> path, kinds |-> kinds]

Repositories ==
  {Root(<<Github, "u", "foo">>, {"git"}), Root(<<Github, "u", "foobar">>, {"git"}),
   Root(<<Vanity, "lib">>, {"git"}),
   Root(<<Bitbucket, "u", "foo">>, {"git", "hg"}), Root(<<Bitbucket, "u", "r.git">>, {"git"}),
   Root(<<Bitbucket, "u", "r.hg">>, {"hg"}),
   Root(<<Gopkg, "p.v1">>, {"gopkgin"}), Root(<<Gopkg, "u", "p.v2-unstable">>, {"gopkgin-unstable"}),
   Root(<<Launchpad, "foo">>, {"bzr"}), Root(<<GitPad, "foo">>, {"git"}),
   Root(<<Jazz, "git", "u", "foo">>, {"git"}), Root(<<Apache, "r.git">>, {"git"}),
   Root(<<Vanity, "u", "r.git">>, {"git"}), Root(<<Vanity, "r.hg">>, {"hg"}), Root(<<Vanity, "r.bzr">>, {"bzr"}),
   Root(<<Vanity, "r.svn">>, {"svn"}), Root(<<Gopkg, "p.v1.2">>, {})}

MCRoots == [r \in {x.root : x \in Repositories} |-> (CHOOSE x \in Repositories : x.root = r).kinds]

Tag(scheme) == [prefix |-> <<Vanity, "lib">>, vcs |-> "git", scheme |-> scheme]
Noise       == [prefix |-> <<Vanity, "go">>, vcs |-> "git", scheme |-> "https"]

MCMeta == [p \in {<<Vanity, "lib">>, <<Vanity, "lib", "x">>} |-> <<Noise, Tag("http")>>]

Mixed ==
  {Plain(<<Github, "u", "foo">>), Plain(<<Github, "u", "foobar">>),
   URI("ssh", "me", <<Github, "u", "foo">>),
   URI("https", "", <<Github, "u", "foo">>),
   Plain(<<Vanity, "lib">>), Plain(<<Vanity, "lib", "x">>),
   URI("https", "", <<Vanity, "lib">>)}

MCInputs ==
  {Mixed,
   {SCP("git", <<Github, "u", "foo">>), Plain(<<Github, "u">>), Plain(<<Github, "u", "?">>),
    URI("hg", "", <<Github, "u", "foo">>), Plain(<<Github, "u", "foo", "x">>), Bad},
   {Plain(<<Bitbucket, "u", "foo", "x">>), SCP("hg", <<Bitbucket, "u", "foo">>),
    URI("git", "", <<Bitbucket, "u", "foo">>), URI("ssh", "", <<Bitbucket, "u", "r.git">>),
    Plain(<<Bitbucket, "u", "r.hg">>), URI("svn", "", <<Bitbucket, "u", "foo">>)},
   {Plain(<<Gopkg, "p.v1", "x">>), Plain(<<Gopkg, "u", "p.v2-unstable">>), Plain(<<Gopkg, "p.v1.2">>),
    URI("https", "", <<Gopkg, "p.v1">>), Plain(<<Gopkg, "u", "foo">>)},
   {Plain(<<Launchpad, "foo", "x">>), URI("bzr+ssh", "", <<Launchpad, "foo">>), URI("git", "", <<Launchpad, "foo">>),
    Plain(<<GitPad, "foo">>), URI("http", "", <<GitPad, "foo", "x">>), Plain(<<Launchpad>>)},
   {Plain(<<Jazz, "git", "u", "foo", "x">>), URI("http", "", <<Jazz, "git", "u", "foo">>), Plain(<<Jazz, "u", "foo">>),
    Plain(<<Apache, "r.git", "x">>), URI("git", "", <<Apache, "r.git">>), Plain(<<Apache, "foo">>)},
   {Plain(<<Vanity, "u", "r.git", "x">>), URI("svn", "", <<Vanity, "r.hg">>), SCP("git", <<Vanity, "u", "r.git">>),
    Plain(<<Vanity, "r.bzr">>), Plain(<<Vanity, "r.hg", "r.git">>), Plain(<<Vanity, "r.svn">>)}}

(* Only of these inputs the roots are shown to be right. *)
ASSUME MCAskedInside == AskedInside
=============================================================================
