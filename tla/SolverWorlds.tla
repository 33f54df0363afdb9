---------------------------- MODULE SolverWorlds ----------------------------
(***************************************************************************)
(* Universes for TLC.  The projects are a = 1, b = 2, c = 3 and, where     *)
(* case matters, B = 4, which is b's root spelled in another case.  The    *)
(* families of universes of the runs are built from Base.                  *)
(***************************************************************************)
EXTENDS SolverInductive

MCFold == [p \in ProjectRoots |-> IF p = 4 THEN 2 ELSE p]

a1 == <<1, 1>>
b1 == <<2, 1>>
b2 == <<2, 2>>
c1 == <<3, 1>>
B1 == <<4, 1>>
r1 == <<Root, 1>>

Absent == [has |-> FALSE, in |-> {}, ex |-> {}]
Pkg(in, ex) == [has |-> TRUE, in |-> in, ex |-> ex]
Always(x) == [v \in Versions |-> x]
Needs(p, c, pl) == [id |-> [pr |-> p, src |-> NoSource], c |-> c, pl |-> pl]
NoRule == [c |-> AnyVersion, src |-> NoSource]

(* code[p][v]: package p at version v, the packages of its own project and *)
(* of others that it reaches; cons[p][v]: the rules of p's manifest.       *)
Base(code, cons, rdeps) ==
  [vers  |-> [p \in Projects |-> <<2, 1>>],
   has   |-> [v \in Versions |-> {p \in DOMAIN code : code[p][v].has}],
   reach |-> [p \in Packages |-> [v \in Versions |->
                IF /\ p \in DOMAIN code
                   /\ code[p][v].has
                   /\ \A q \in code[p][v].in : code[q][v].has
                THEN [ok |-> TRUE, in |-> code[p][v].in,
                      ex |-> UNION {code[q][v].ex : q \in {p} \cup code[p][v].in}]
                ELSE [ok |-> FALSE, in |-> {}, ex |-> {}]]],
   cons  |-> [p \in Projects |-> [v \in Versions |-> [q \in ProjectRoots |->
                LET Of == {k \in cons : k[1] = <<p, v, q>>}
                IN  IF Of = {} THEN NoRule ELSE (CHOOSE k \in Of : TRUE)[2]]]],
   lock  |-> [p \in Projects |-> [v \in Versions |-> [q \in ProjectRoots |-> None]]],
   root  |-> rdeps,
   rootPkgs |-> {r1},
   rlm   |-> [p \in Projects |-> None],
   chng  |-> {},
   chngall |-> FALSE]

Rule(p, v, q, c) == <<<<p, v, q>>, [c |-> c, src |-> NoSource]>>
SrcRule(p, v, q, s) == <<<<p, v, q>>, [c |-> AnyVersion, src |-> s]>>

RootNeeds == {{Needs(1, AnyVersion, {a1})},
              {Needs(1, AnyVersion, {a1}), Needs(2, AnyVersion, {b1})},
              {Needs(1, AnyVersion, {a1}), Needs(3, {2}, {c1})},
              {Needs(1, AnyVersion, {a1}), Needs(2, AnyVersion, {b1}), Needs(3, {2}, {c1})}}
=============================================================================
