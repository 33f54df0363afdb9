---------------------------- MODULE MCAlgorithms ----------------------------
(***************************************************************************)
(* Import graphs without cycles of four packages, one that may import      *)
(* itself and one that does not exist, with a package that is broken or    *)
(* special in some way; all lists of five versions on two revisions; locks *)
(* of two projects; trees with a nested vendor directory, an empty         *)
(* directory and a link.                                                   *)
(***************************************************************************)
EXTENDS Algorithms

MCRoot  == <<"r">>
MCLongerNames == {<<"r", "rr">>}
A == <<>>
B == <<"_b">>
C == <<"_b", "c">>
D == <<"d">>
Missing == MCRoot \o <<"m">>
Imp(d)  == MCRoot \o d

Source(imports) == [skip |-> FALSE, read |-> "ok", test |-> FALSE, pkg |-> "p",
                    ignored |-> FALSE, comment |-> <<>>, imports |-> imports]

Files(kind, imports) ==
  CASE kind = "ok"           -> <<Source(imports)>>
    [] kind = "nogo"         -> <<>>
    [] kind = "denied"       -> <<>>
    [] kind = "bad"          -> <<Source(imports), [Source({}) EXCEPT !.read = "bad"]>>
    [] kind = "conflict"     -> <<[Source(imports) EXCEPT !.comment = MCRoot],
                                  [Source({}) EXCEPT !.comment = Missing]>>
    [] kind = "longer"       -> <<[Source(imports) EXCEPT !.comment = <<"rr", "x">>]>>
    [] kind = "noncanonical" -> <<[Source(imports) EXCEPT !.comment = <<"y">>]>>
    [] kind = "local"        -> <<Source(imports \cup {<<"..", "z">>})>>
    [] kind = "main"         -> <<[Source(imports) EXCEPT !.pkg = "main"]>>
    [] kind = "tagged"       -> <<[Source(imports) EXCEPT !.pkg = "main", !.ignored = TRUE],
                                  [Source({}) EXCEPT !.read = "denied"], Source({<<".">>})>>
    [] kind = "test"         -> <<Source({}), [Source(imports) EXCEPT !.test = TRUE]>>

Graphs ==
  [A : SUBSET {B, C, D}, B : SUBSET {C, D}, C : SUBSET {D, <<"m">>}, D : SUBSET {D, <<"m">>}]

Broken1 == {<<"A", "conflict">>, <<"B", "bad">>, <<"B", "noncanonical">>, <<"C", "nogo">>,
            <<"D", "local">>, <<"C", "main">>, <<"B", "denied">>, <<"B", "tagged">>,
            <<"C", "test">>, <<"B", "longer">>, <<"A", "ok">>}

Wild(path)    == [path |-> path, wild |-> TRUE]
Literal(path) == [path |-> path, wild |-> FALSE]
RuleSets == {{Literal(Imp(B))}, {Wild(Imp(B)), Literal(Imp(C))},
             {Wild(<<>>), Literal(Imp(B)), Wild(Imp(C)), Wild(Imp(B))}}

Directories(g, broken) ==
  LET Dir(name, d) ==
        LET kind == IF broken[1] = name THEN broken[2] ELSE "ok"
        IN [denied |-> kind = "denied",
            files  |-> Files(kind, {Imp(i) : i \in g[name]} \cup {<<"x">> \o d, <<"shared">>})]
  IN [d \in {A, B, C, D, <<"vendor">>} |->
        CASE d = A -> Dir("A", A) [] d = B -> Dir("B", B) [] d = C -> Dir("C", C) [] d = D -> Dir("D", D)
          [] OTHER -> Dir("vendor", A)]

Graph(g) == [name \in {"A", "B", "C", "D", "vendor"} |-> IF name = "vendor" THEN {} ELSE g[name]]

Input(g, broken, rules, more, backprop) ==
  [dirs |-> Directories(Graph(g), broken), rules |-> rules,
   main |-> more, tests |-> more, backprop |-> backprop]

MCInputs ==
  {Input(g, broken, {}, more, backprop) :
     g \in Graphs, broken \in Broken1, more \in BOOLEAN, backprop \in BOOLEAN}
  \cup {Input(g, <<"A", "ok">>, rules, TRUE, backprop) :
     g \in Graphs, rules \in RuleSets, backprop \in BOOLEAN}

(* What the theorem on the reach map takes for granted holds of all these. *)
ASSUME MCAcyclic == AcyclicImports

-----------------------------------------------------------------------------
Sem(n) == Semver(n, 0)
Names  == {Branch(1, TRUE), Branch(2, FALSE), Plain(1), Sem(1), Sem(2)}

MCVersionLists ==
  {SortForUpgrade({Pair(n, f[n]) : n \in DOMAIN f}) : f \in UNION {[N -> {1, 2}] : N \in SUBSET Names}}

MCConstraints ==
  {any, Revision(1), Revision(3), Branch(1, FALSE), Branch(2, FALSE), Plain(1), Plain(2),
   Sem(1), Sem(2), Range_({Sem(1)}), Range_({Sem(1), Sem(2)}), Range_({Sem(2), Sem(3)})}

MCOtherVersions ==
  {Revision(1), Revision(3), Pair(Branch(1, FALSE), 3), Pair(Sem(1), 3), Plain(2)}

MCOrders ==
  {{Branch(1, TRUE), Branch(2, TRUE), Branch(3, FALSE), Branch(4, FALSE), Plain(1),
    Plain(2), Revision(1), Revision(2)} \cup {Semver(n, pre) : n \in 1..2, pre \in 0..2}}

-----------------------------------------------------------------------------
LockVersions ==
  {Revision(1), Plain(1), Pair(Branch(1, FALSE), 1), Pair(Branch(2, FALSE), 1),
   Pair(Plain(1), 1), Pair(Sem(1), 1), Pair(Sem(1), 2)}

First  == {NewLockedProject(1, source, v, pkgs) :
             source \in {"", "fork"}, v \in LockVersions, pkgs \in {<<1>>, <<1, 2>>, <<3, 1>>}}
Second == {NewLockedProject(2, "", v, <<1>>) : v \in {Revision(1), Pair(Sem(1), 1)}}

MCLocks ==
  [digest : {1}, projects : {<<>>} \cup {<<p>> : p \in First \cup Second} \cup {<<q, p>> : p \in First, q \in Second}]
  \cup [digest : {2}, projects : {<<q>> : q \in Second}]

-----------------------------------------------------------------------------
File(dir, kind) == [dir |-> dir, go |-> kind \in {"go", "test", "legal test"},
                    test |-> kind \in {"test", "legal test"}, legal |-> kind \in {"legal", "legal test"}]

TreeFiles == {File(<<>>, "go"), File(<<"p">>, "go"), File(<<"p">>, "test"), File(<<"p">>, "other"),
              File(<<"p", "vendor", "q">>, "go"), File(<<"p", "vendor", "q">>, "legal"),
              File(<<"e", "f">>, "legal"), File(<<"e", "f">>, "other"), File(<<"e", "f">>, "legal test")}

MCTrees ==
  [dirs  : {{<<"p">>, <<"p", "vendor">>, <<"p", "vendor", "q">>, <<"e">>, <<"e", "f">>}},
   files : SUBSET TreeFiles,
   links : {{}, {<<"e", "vendor">>, <<"p", "l">>}}]

MCPackageSets == {{}, {<<"p">>}, {<<>>, <<"e", "f">>}}
=============================================================================
