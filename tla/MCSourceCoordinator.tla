------------------------ MODULE MCSourceCoordinator -------------------------
(***************************************************************************)
(* SourceCoordinator with one repository that has two spellings, asked for *)
(* by import path and by URL, and a vanity import path that leads to it.   *)
(***************************************************************************)
EXTENDS SourceCoordinator

MCNames  == {"github.com/a/b", "github.com/A/b", "https://github.com/a/b",
             "https://github.com/A/b", "vanity.org/b"}

MCtoFold == [n \in MCNames |->
               CASE n = "github.com/A/b" -> "github.com/a/b"
                 [] n = "https://github.com/A/b" -> "https://github.com/a/b"
                 [] OTHER -> n]

MCsourceURL == [n \in MCNames |->
                  IF n \in {"github.com/a/b", "https://github.com/a/b"}
                  THEN "https://github.com/a/b" ELSE "https://github.com/A/b"]

(* What is asked for without and with the vanity path. *)
Paths     == MCNames \ {"vanity.org/b"}
WithAlias == {"vanity.org/b", "github.com/A/b"}
=============================================================================
