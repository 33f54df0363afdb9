------------------------------ MODULE Sorting ------------------------------
(***************************************************************************)
(* Sorting as the Go library's sort package does it, for the lists that    *)
(* gps sorts by a key: locked projects by root, packages by path, rules by *)
(* what they match.  The order of elements with equal keys is any.         *)
(***************************************************************************)
EXTENDS Naturals, Functions

(* The elements of a sequence in the order of their keys. *)
SortedBy(s, key) ==
  LET p == CHOOSE p \in Bijection(DOMAIN s, DOMAIN s) :
             \A i, j \in DOMAIN s : i < j => key[p[i]] <= key[p[j]]
  IN [i \in DOMAIN s |-> s[p[i]]]
=============================================================================
