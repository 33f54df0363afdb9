--------------------------- MODULE MCSourceCache ----------------------------
(***************************************************************************)
(* Two revisions: a tree that changes for one, a manifest with a lock for  *)
(* the other.                                                              *)
(***************************************************************************)
EXTENDS SourceCache

CONSTANTS r1, r2, t1, t2, m1, l1

MCTreesOf == [r \in {r1, r2} |-> IF r = r1 THEN {t1, t2} ELSE {}]

MCInfosOf == [r \in {r1, r2} |-> IF r = r1 THEN {} ELSE {[manifest |-> m1, lock |-> l1]}]

=============================================================================
