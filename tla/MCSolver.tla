------------------------------ MODULE MCSolver ------------------------------
(***************************************************************************)
(* The families of universes that the solver's runs choose from.  A family *)
(* is a set of records, its choices, and an operator that makes a universe *)
(* of each.                                                                *)
(***************************************************************************)
EXTENDS SolverWorlds

Two == {1, 2}
At(f, v) == IF v = 2 THEN f[2] ELSE f[1]

(* a's package imports b and c in several ways; b may lack its second      *)
(* package, which its first may import; c may import b back.               *)
General ==
  [old: {{}, {b1}, {c1}}, new: {{}, {b1}, {b2}, {c1}, {b2, c1}}, bc: {AnyVersion, {1}},
   bi: [Two -> {{}, {b2}}], bh: [Two -> BOOLEAN], ci: {{}, {b1}}, rd: RootNeeds]

GeneralWorld(k) ==
  Base((a1 :> [v \in Versions |-> Pkg({}, IF v = 2 THEN k.new ELSE k.old)]) @@
       (b1 :> [v \in Versions |-> Pkg(At(k.bi, v), {})]) @@
       (b2 :> [v \in Versions |-> IF At(k.bh, v) THEN Pkg({}, {c1}) ELSE Absent]) @@
       (c1 :> [v \in Versions |-> Pkg({}, IF v = 2 THEN k.ci ELSE {})]),
       {Rule(1, 2, 2, k.bc), Rule(3, 2, 2, {1})}, k.rd)

(* The chain a -> b -> c that the families below vary. *)
Chain(ai, bx, cons, rd) ==
  Base((a1 :> [v \in Versions |-> Pkg({}, ai[v])]) @@
       (b1 :> Always(Pkg({}, bx))) @@
       (c1 :> Always(Pkg({}, {}))) @@
       (B1 :> Always(Pkg({}, {}))), cons, rd)

(* Locks: the root's, forced changes to it, and the ones dependencies ship. *)
Locking ==
  [bc: {AnyVersion, {1}, {2}}, lb: {None, 1, 2}, lc: {None, 2}, pb: {None, 1},
   ch: {{}, {2}}, all: BOOLEAN, rd: RootNeeds]

LockWorld(k) ==
  [Chain(Always({b1}), {c1},
         {Rule(1, v, 2, k.bc) : v \in Versions} \cup {Rule(2, 2, 3, {1})}, k.rd)
    EXCEPT !.rlm = [p \in Projects |-> IF p = 2 THEN k.lb ELSE IF p = 3 THEN k.lc ELSE None],
           !.chng = k.ch, !.chngall = k.all,
           !.lock = [@ EXCEPT ![1][2] = [@ EXCEPT ![2] = k.pb, ![3] = 1]]]

(* A revision for b that a asks for, and that b may or may not have.       *)
Pinning == [ai: [Versions -> {{}, {b1}}], there: BOOLEAN, rd: RootNeeds]

RevisionWorld(k) ==
  [Chain(k.ai, {}, {Rule(1, 2, 2, {3})}, k.rd)
    EXCEPT !.has = [@ EXCEPT ![3] = IF k.there THEN @ ELSE {}],
           !.reach = [p \in Packages |-> [@[p] EXCEPT ![3].ok = @ /\ k.there]]]

(* a may name a source for b, as may the root.                             *)
Sourcing == [sa: [Versions -> {NoSource, 1}], sr: {None, NoSource, 1}]

SourceWorld(k) ==
  Chain(Always({b1, c1}), {}, {SrcRule(1, v, 2, k.sa[v]) : v \in Versions},
        {Needs(1, AnyVersion, {a1})} \cup
          (IF k.sr = None THEN {} ELSE {[Needs(2, AnyVersion, {b1}) EXCEPT !.id.src = k.sr]}))

(* a may import b under another case than the root does, and both may mix  *)
(* the spellings.                                                          *)
Spelling ==
  [ab: [Versions -> {{}, {b1}, {B1}, {b1, B1}}],
   rd: RootNeeds \cup {{Needs(1, AnyVersion, {a1}), Needs(4, AnyVersion, {B1})},
                      {Needs(1, AnyVersion, {a1}), Needs(2, AnyVersion, {b1}),
                       Needs(4, AnyVersion, {B1})}}]

CaseWorld(k) == Chain(k.ab, {c1}, {}, k.rd)

(* c's source does not exist; a may import the root back.                  *)
Missing == [ar: [Versions -> {{}, {b1}, {r1}}], rc: {AnyVersion, {1}}, rd: RootNeeds]

AbsentWorld(k) ==
  [Chain(k.ar, {c1}, {Rule(1, 2, Root, k.rc)}, k.rd)
    EXCEPT !.vers = [@ EXCEPT ![3] = <<>>]]

World(k) == CASE k \in General  -> GeneralWorld(k)
              [] k \in Locking  -> LockWorld(k)
              [] k \in Pinning  -> RevisionWorld(k)
              [] k \in Sourcing -> SourceWorld(k)
              [] k \in Spelling -> CaseWorld(k)
              [] k \in Missing  -> AbsentWorld(k)

GeneralWorlds == {World(k) : k \in General}

RunWorlds ==
  {World(k) : k \in General \cup Locking \cup Pinning \cup Sourcing \cup Spelling \cup Missing}

(* b's first package imports its second, and c at 2 or 3; a's newest       *)
(* version imports b and a version of c that does not exist, its oldest    *)
(* version imports c at 1 only.                                            *)
StaleWorlds ==
  {Base((a1 :> [v \in Versions |-> Pkg({}, IF v = 2 THEN {b1, c1} ELSE {c1})]) @@
        (b1 :> Always(Pkg({b2}, {c1}))) @@
        (b2 :> Always(Pkg({}, {}))) @@
        (c1 :> Always(Pkg({}, {}))),
        {Rule(1, 2, 3, {3}), Rule(1, 1, 3, {1})} \cup {Rule(2, v, 3, bc) : v \in Versions},
        {Needs(1, AnyVersion, {a1})}) :
     bc \in {AnyVersion, {2, 3}}}
=============================================================================
