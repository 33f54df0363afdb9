-------------------------- MODULE AlgorithmProofs --------------------------
(***************************************************************************)
(* The algorithms, for inputs of any size.  wmToReach(), in any order of   *)
(* its maps: what it finds for a package is what the package reaches.  The *)
(* orders of versions that SortForUpgrade() and SortForDowngrade() use:    *)
(* both are strict and total.  The version unifier: it decides by names    *)
(* and by the revisions a source lists.  Pruning: it leaves what is needed *)
(* and nothing else.  DiffLocks(): what it says turns one lock into the    *)
(* other.                                                                  *)
(***************************************************************************)
EXTENDS Algorithms, FiniteSetTheorems, SequenceTheorems, WellFoundedInduction, TLAPS

-----------------------------------------------------------------------------
(* Naturals. *)

(* A set of naturals that is not empty has a least element. *)
LEMMA Least ==
  ASSUME NEW S \in SUBSET Nat, S # {}
  PROVE  Min(S) \in S /\ \A y \in S : Min(S) <= y
<1>1. OpToRel(<, Nat) = {ss \in Nat \X Nat : ss[1] < ss[2]}
  BY DEF OpToRel
<1>2. PICK x \in S : \A y \in S : ~(<<y, x>> \in {ss \in Nat \X Nat : ss[1] < ss[2]})
  BY <1>1, NatLessThanWellFounded, WFMin
<1>3. ASSUME NEW y \in S
      PROVE  x <= y
  <2>1. <<y, x>> \in Nat \X Nat /\ <<y, x>>[1] = y /\ <<y, x>>[2] = x
    OBVIOUS
  <2>2. ~(y < x)
    BY <1>2, <2>1
  <2>3. x \in Nat /\ y \in Nat
    OBVIOUS
  <2> QED BY <2>2, <2>3
<1> QED BY <1>3 DEF Min

(* Induction, for sets of naturals. *)
LEMMA Induction ==
  ASSUME NEW S \in SUBSET Nat, 0 \in S, \A n \in S : n + 1 \in S
  PROVE  S = Nat
<1> SUFFICES ASSUME Nat \ S # {} PROVE FALSE
  OBVIOUS
<1> DEFINE m == Min(Nat \ S)
<1>1. m \in Nat \ S /\ \A y \in Nat \ S : m <= y
  BY Least
<1> HIDE DEF m
<1>2. m - 1 \in Nat /\ m - 1 < m
  BY <1>1
<1>3. m - 1 \in S
  BY <1>1, <1>2
<1> QED BY <1>1, <1>2, <1>3

(* A set of naturals that is not empty and has a bound has a greatest      *)
(* element.                                                                *)
LEMMA Greatest ==
  ASSUME NEW S \in SUBSET Nat, S # {}, NEW b \in Nat, \A y \in S : y <= b
  PROVE  Max(S) \in S /\ \A y \in S : Max(S) >= y
<1> DEFINE T == {b - y : y \in S}
<1>0. \A y \in S : y \in Nat /\ b - y \in Nat
  OBVIOUS
<1>1. T \in SUBSET Nat /\ T # {}
  BY <1>0
<1>2. Min(T) \in T /\ \A z \in T : Min(T) <= z
  BY <1>1, Least
<1>3. PICK x \in S : Min(T) = b - x
  BY <1>2
<1>4. \A y \in S : b - x <= b - y
  BY <1>2, <1>3
<1>5. \A y \in S : x >= y
  BY <1>4
<1> QED BY <1>5 DEF Max

-----------------------------------------------------------------------------
(* Sorting. *)

(* The permutations of the first n naturals that put keys in order. *)
Sorts(n, key, p) ==
  /\ p \in Bijection(1..n, 1..n)
  /\ \A i, j \in 1..n : i < j => key[p[i]] <= key[p[j]]

LEMMA Bijections ==
  ASSUME NEW n \in Nat, NEW p
  PROVE  p \in Bijection(1..n, 1..n) <=>
           /\ p \in [1..n -> 1..n]
           /\ \A i, j \in 1..n : p[i] = p[j] => i = j
           /\ \A k \in 1..n : \E i \in 1..n : p[i] = k
BY DEF Bijection, Injection, Surjection, IsInjective

(* One of the first k keys is greatest. *)
LEMMA GreatestKey ==
  ASSUME NEW n \in Nat, n > 0, NEW key \in [1..n -> Nat]
  PROVE  \E m \in 1..n : \A i \in 1..n : key[i] <= key[m]
<1> DEFINE G(k) == \E m \in 1..k : \A i \in 1..k : key[i] <= key[m]
           S == {k \in Nat : k > 0 /\ k <= n => G(k)}
<1>1. 0 \in S
  OBVIOUS
<1>2. ASSUME NEW k \in S PROVE k + 1 \in S
  <2>1. CASE k = 0
    BY <2>1
  <2>2. CASE k # 0 /\ k + 1 <= n
    <3>1. k > 0 /\ k <= n /\ k + 1 \in 1..n
      BY <2>2
    <3>2. PICK m \in 1..k : \A i \in 1..k : key[i] <= key[m]
      BY <1>2, <3>1
    <3>3. CASE key[m] <= key[k + 1]
      <4>1. \A i \in 1..(k + 1) : key[i] <= key[k + 1]
        BY <3>1, <3>2, <3>3
      <4> QED BY <4>1
    <3>4. CASE ~(key[m] <= key[k + 1])
      <4>1. \A i \in 1..(k + 1) : key[i] <= key[m]
        BY <3>1, <3>2, <3>4
      <4> QED BY <4>1
    <3> QED BY <3>3, <3>4
  <2> QED BY <2>1, <2>2
<1> HIDE DEF S, G
<1>3. S = Nat
  BY <1>1, <1>2, Induction DEF S
<1>4. G(n)
  BY <1>3 DEF S
<1> QED BY <1>4 DEF G

(* Every sequence of keys can be sorted: a greatest one goes last. *)
LEMMA SortingStep ==
  ASSUME NEW n \in Nat, \A key \in [1..n -> Nat] : \E p : Sorts(n, key, p),
         NEW N, N = n + 1, NEW key \in [1..N -> Nat]
  PROVE  \E p : Sorts(N, key, p)
<1>0. N \in Nat /\ N > 0 /\ 1..n \subseteq 1..N /\ 1..N = 1..n \cup {N} /\ N \notin 1..n
  OBVIOUS
<1>1. PICK m \in 1..N : \A i \in 1..N : key[i] <= key[m]
  BY <1>0, GreatestKey
<1> DEFINE swap == [i \in 1..N |-> IF i = m THEN N ELSE IF i = N THEN m ELSE i]
<1>2. /\ swap \in [1..N -> 1..N] /\ swap[m] = N /\ swap[N] = m
      /\ \A i \in 1..N : swap[swap[i]] = i
  BY <1>0
<1> HIDE DEF swap
<1> DEFINE rest == [i \in 1..n |-> key[swap[i]]]
<1>3. rest \in [1..n -> Nat]
  BY <1>0, <1>2
<1>4. PICK q : Sorts(n, rest, q)
  BY <1>3
<1> HIDE DEF rest
<1>45. q \in Bijection(1..n, 1..n)
  BY <1>4 DEF Sorts
<1>5. q \in [1..n -> 1..n] /\ \A i \in 1..n : q[i] \in 1..n
  <2>1. q \in [1..n -> 1..n]
    BY <1>45, Bijections
  <2> QED BY <2>1
<1>6. \A i, j \in 1..n : q[i] = q[j] => i = j
  BY <1>45, Bijections
<1>7. \A k \in 1..n : \E i \in 1..n : q[i] = k
  BY <1>45, Bijections
<1>8. \A i, j \in 1..n : i < j => rest[q[i]] <= rest[q[j]]
  BY <1>4 DEF Sorts
<1> DEFINE p == [i \in 1..N |-> IF i = N THEN m ELSE swap[q[i]]]
<1>9. p[N] = m
  BY <1>0
<1>10. \A i \in 1..n : p[i] = swap[q[i]]
  BY <1>0
<1>11. p \in [1..N -> 1..N]
  BY <1>0, <1>2, <1>5
<1> HIDE DEF p
<1>12. ASSUME NEW i \in 1..n PROVE p[i] # m /\ key[p[i]] = rest[q[i]] /\ swap[p[i]] = q[i]
  <2>1. q[i] \in 1..N /\ q[i] # N /\ q[i] \in 1..n
    BY <1>0, <1>5
  <2>2. swap[p[i]] = q[i]
    BY <1>2, <1>10, <2>1
  <2>3. rest[q[i]] = key[swap[q[i]]]
    BY <2>1 DEF rest
  <2> QED BY <1>2, <1>10, <2>1, <2>2, <2>3
<1>13. ASSUME NEW i \in 1..N, NEW j \in 1..N, p[i] = p[j] PROVE i = j
  <2>1. CASE i \in 1..n /\ j \in 1..n
    <3>1. q[i] = q[j]
      BY <1>12, <1>13, <2>1
    <3> QED BY <1>6, <2>1, <3>1
  <2>2. CASE i = N \/ j = N
    BY <1>0, <1>9, <1>12, <1>13, <2>2
  <2> QED BY <1>0, <2>1, <2>2
<1>14. ASSUME NEW k \in 1..N PROVE \E i \in 1..N : p[i] = k
  <2>1. CASE k = m
    BY <1>0, <1>9, <2>1
  <2>2. CASE k # m
    <3>1. swap[k] \in 1..n /\ swap[swap[k]] = k
      BY <1>0, <1>2, <2>2
    <3>2. PICK i \in 1..n : q[i] = swap[k]
      BY <1>7, <3>1
    <3>3. p[i] = k /\ i \in 1..N
      BY <1>0, <1>10, <3>1, <3>2
    <3> QED BY <3>3
  <2> QED BY <2>1, <2>2
<1>15. ASSUME NEW i \in 1..N, NEW j \in 1..N, i < j PROVE key[p[i]] <= key[p[j]]
  <2>1. CASE j = N
    BY <1>1, <1>9, <1>11, <2>1
  <2>2. CASE j # N
    <3>1. i \in 1..n /\ j \in 1..n
      BY <1>0, <1>15, <2>2
    <3>2. rest[q[i]] <= rest[q[j]]
      BY <1>8, <1>15, <3>1
    <3> QED BY <1>12, <3>1, <3>2
  <2> QED BY <2>1, <2>2
<1>16. p \in Bijection(1..N, 1..N)
  BY <1>0, <1>11, <1>13, <1>14, Bijections
<1>17. Sorts(N, key, p)
  BY <1>15, <1>16 DEF Sorts
<1> QED BY <1>17

LEMMA SortingExists ==
  \A n \in Nat : \A key \in [1..n -> Nat] : \E p : Sorts(n, key, p)
<1> DEFINE S == {n \in Nat : \A key \in [1..n -> Nat] : \E p : Sorts(n, key, p)}
<1>1. 0 \in S
  <2>1. ASSUME NEW key PROVE Sorts(0, key, <<>>)
    <3>1. <<>> \in [1..0 -> 1..0]
      OBVIOUS
    <3>2. 1..0 = {}
      OBVIOUS
    <3>3. <<>> \in Bijection(1..0, 1..0)
      BY <3>1, <3>2, Bijections
    <3> QED BY <3>2, <3>3 DEF Sorts
  <2> QED BY <2>1
<1>2. ASSUME NEW n \in S PROVE n + 1 \in S
  <2>1. n \in Nat /\ n + 1 \in Nat /\ \A key \in [1..n -> Nat] : \E p : Sorts(n, key, p)
    BY <1>2
  <2>2. \A key \in [1..(n + 1) -> Nat] : \E p : Sorts(n + 1, key, p)
    BY <2>1, SortingStep
  <2> QED BY <2>1, <2>2
<1> HIDE DEF S
<1>3. S = Nat
  BY <1>1, <1>2, Induction DEF S
<1> QED BY <1>3 DEF S

(* A sorted sequence has the same elements, in order. *)
InOrder(n, s, key, t) ==
  /\ t = [i \in 1..n |-> t[i]] /\ ToSet(t) = ToSet(s)
  /\ \E p \in [1..n -> 1..n] : /\ \A i \in 1..n : t[i] = s[p[i]]
                               /\ \A i, j \in 1..n : i < j => key[p[i]] < key[p[j]]

LEMMA SortedByOf ==
  ASSUME NEW n \in Nat, NEW s, DOMAIN s = 1..n, NEW key \in [1..n -> Nat], IsInjective(key),
         NEW t, t = SortedBy(s, key)
  PROVE  InOrder(n, s, key, t)
<1> DEFINE q == CHOOSE p \in Bijection(1..n, 1..n) : \A i, j \in 1..n : i < j => key[p[i]] <= key[p[j]]
<1>1. \E p : Sorts(n, key, p)
  BY SortingExists
<1>2. q \in Bijection(1..n, 1..n) /\ \A i, j \in 1..n : i < j => key[q[i]] <= key[q[j]]
  BY <1>1 DEF Sorts
<1>3. t = [i \in 1..n |-> s[q[i]]]
  BY DEF SortedBy
<1> HIDE DEF q
<1>4. q \in [1..n -> 1..n] /\ \A i, j \in 1..n : q[i] = q[j] => i = j
  BY <1>2, Bijections
<1>45. \A k \in 1..n : \E i \in 1..n : q[i] = k
  BY <1>2, Bijections
<1>5. ToSet(t) = ToSet(s)
  <2>1. ToSet(t) = {t[i] : i \in 1..n} /\ ToSet(s) = {s[i] : i \in 1..n}
    BY <1>3 DEF ToSet
  <2>2. \A i \in 1..n : t[i] = s[q[i]] /\ q[i] \in 1..n
    BY <1>3, <1>4
  <2>3. ASSUME NEW k \in 1..n PROVE s[k] \in ToSet(t)
    <3>1. PICK i \in 1..n : q[i] = k
      BY <1>45
    <3>2. t[i] = s[k]
      BY <2>2, <3>1
    <3> QED BY <2>1, <3>2
  <2>4. ASSUME NEW i \in 1..n PROVE t[i] \in ToSet(s)
    BY <2>1, <2>2
  <2> QED BY <2>1, <2>3, <2>4
<1>6. ASSUME NEW i \in 1..n, NEW j \in 1..n, i < j PROVE key[q[i]] < key[q[j]]
  <2>1. q[i] \in 1..n /\ q[j] \in 1..n /\ q[i] # q[j]
    BY <1>4, <1>6
  <2>2. key[q[i]] # key[q[j]]
    BY <2>1 DEF IsInjective
  <2> QED BY <1>2, <1>6, <2>1, <2>2
<1> QED BY <1>3, <1>4, <1>5, <1>6 DEF InOrder

-----------------------------------------------------------------------------
(* Paths. *)

(* The sequences of elements of paths. *)
Paths == Seq(STRING)

(* A prefix is the beginning of a path. *)
LEMMA PrefixIs ==
  ASSUME NEW s \in Paths, NEW t \in Paths
  PROVE  IsPrefix(s, t) <=> Len(s) <= Len(t) /\ \A i \in 1..Len(s) : s[i] = t[i]
<1>1. SubSeq(s, 1, Len(s)) = s
  BY DEF Paths
<1>2. ASSUME Len(s) <= Len(t)
      PROVE  /\ SubSeq(t, 1, Len(s)) \in Paths /\ Len(SubSeq(t, 1, Len(s))) = Len(s)
             /\ \A i \in 1..Len(s) : SubSeq(t, 1, Len(s))[i] = t[i]
  BY <1>2 DEF Paths
<1>3. ASSUME NEW u \in Paths, Len(u) = Len(s)
      PROVE  s = u <=> \A i \in 1..Len(s) : s[i] = u[i]
  BY <1>3 DEF Paths
<1> QED BY <1>1, <1>2, <1>3 DEF IsPrefix

(* The beginnings of a path. *)
LEMMA Beginnings ==
  ASSUME NEW t \in Paths, NEW n \in 0..Len(t)
  PROVE  /\ SubSeq(t, 1, n) \in Paths /\ Len(SubSeq(t, 1, n)) = n
         /\ \A i \in 1..n : SubSeq(t, 1, n)[i] = t[i]
         /\ IsPrefix(SubSeq(t, 1, n), t)
         /\ \A s \in Paths : IsPrefix(s, t) /\ Len(s) <= n => IsPrefix(s, SubSeq(t, 1, n))
<1>1. /\ SubSeq(t, 1, n) \in Paths /\ Len(SubSeq(t, 1, n)) = n
      /\ \A i \in 1..n : SubSeq(t, 1, n)[i] = t[i]
  BY DEF Paths
<1>2. Len(t) \in Nat /\ \A s \in Paths : Len(s) \in Nat
  BY DEF Paths
<1>3. IsPrefix(SubSeq(t, 1, n), t)
  <2> DEFINE s == SubSeq(t, 1, n)
  <2>1. s \in Paths /\ Len(s) = n /\ n <= Len(t) /\ \A i \in 1..n : s[i] = t[i]
    BY <1>1, <1>2
  <2> HIDE DEF s
  <2>2. IsPrefix(s, t)
    BY <2>1, PrefixIs
  <2> QED BY <2>2 DEF s
<1>4. ASSUME NEW s \in Paths, IsPrefix(s, t), Len(s) <= n
      PROVE  IsPrefix(s, SubSeq(t, 1, n))
  <2>1. \A i \in 1..Len(s) : s[i] = t[i] /\ i \in 1..n
    BY <1>2, <1>4, PrefixIs
  <2> QED BY <1>1, <1>4, <2>1, PrefixIs
<1> QED BY <1>1, <1>3, <1>4

(* Prefixes of a prefix. *)
LEMMA PrefixesOf ==
  ASSUME NEW s \in Paths, NEW t \in Paths, NEW u \in Paths, IsPrefix(s, t), IsPrefix(t, u)
  PROVE  IsPrefix(s, u)
<1>1. Len(s) \in Nat /\ Len(t) \in Nat /\ Len(u) \in Nat
  BY DEF Paths
<1>2. Len(s) <= Len(u)
  BY <1>1, PrefixIs
<1>3. \A i \in 1..Len(s) : i \in 1..Len(t)
  BY <1>1, PrefixIs
<1>4. \A i \in 1..Len(s) : s[i] = u[i]
  BY <1>3, PrefixIs
<1> QED BY <1>2, <1>4, PrefixIs

-----------------------------------------------------------------------------
(* The trie of ignored rules. *)

(* A rule is a path, literal or a wildcard. *)
IsRule(r) == r.path \in Paths /\ r.wild \in BOOLEAN

(* What the trie holds after the rules of R: rules of R, none under the    *)
(* wildcard of another, and a key for each rule or a wildcard above it.    *)
Wildcards(trie) == {k \in DOMAIN trie : trie[k]}

Apart(trie) ==
  /\ DOMAIN trie \subseteq Paths \ {<<>>}
  /\ \A k \in Wildcards(trie), j \in DOMAIN trie : IsPrefix(k, j) => j = k

TrieInv(R, trie) ==
  /\ Apart(trie)
  /\ \A k \in DOMAIN trie : \E r \in R : r.path = k
  /\ \A k \in Wildcards(trie) : \E r \in R : r.path = k /\ r.wild
  /\ \A r \in R : r.path # <<>> =>
       \/ r.path \in DOMAIN trie /\ (r.wild => r.path \in Wildcards(trie))
       \/ \E k \in Wildcards(trie) : IsPrefix(k, r.path)

(* Prefixes of the same path are prefixes of each other. *)
LEMMA PrefixOrder ==
  ASSUME NEW s \in Paths, NEW t \in Paths
  PROVE  /\ IsPrefix(s, s) /\ Len(s) \in Nat
         /\ IsPrefix(s, t) /\ Len(t) <= Len(s) => s = t
         /\ \A u \in Paths : IsPrefix(s, u) /\ IsPrefix(t, u) /\ Len(s) <= Len(t) => IsPrefix(s, t)
<1>1. Len(s) \in Nat /\ Len(t) \in Nat
  BY DEF Paths
<1>2. IsPrefix(s, s)
  BY <1>1, PrefixIs
<1>3. ASSUME IsPrefix(s, t), Len(t) <= Len(s) PROVE s = t
  <2>1. Len(s) = Len(t) /\ \A i \in 1..Len(s) : s[i] = t[i]
    BY <1>1, <1>3, PrefixIs
  <2> QED BY <2>1 DEF Paths
<1>4. ASSUME NEW u \in Paths, IsPrefix(s, u), IsPrefix(t, u), Len(s) <= Len(t) PROVE IsPrefix(s, t)
  <2>1. \A i \in 1..Len(s) : i \in 1..Len(t) /\ s[i] = u[i] /\ t[i] = u[i]
    BY <1>1, <1>4, PrefixIs
  <2> QED BY <1>4, <2>1, PrefixIs
<1> QED BY <1>1, <1>2, <1>3, <1>4

(* The longest prefix of a path that is a key. *)
LEMMA LongestOf ==
  ASSUME NEW trie, DOMAIN trie \subseteq Paths, NEW path \in Paths, NEW k \in DOMAIN trie, IsPrefix(k, path)
  PROVE  \E m \in DOMAIN trie : /\ LongestPrefix(trie, path) = {m} /\ IsPrefix(m, path)
                                /\ \A j \in DOMAIN trie : IsPrefix(j, path) => IsPrefix(j, m)
<1> DEFINE has == {j \in DOMAIN trie : IsPrefix(j, path)}
           lens == {Len(j) : j \in has}
<1>1. \A j \in has : j \in Paths /\ Len(j) \in Nat /\ Len(j) <= Len(path)
  BY PrefixIs, PrefixOrder
<1>2. lens \in SUBSET Nat /\ lens # {} /\ Len(path) \in Nat /\ \A y \in lens : y <= Len(path)
  <2>1. Len(path) \in Nat
    BY PrefixOrder
  <2>2. k \in has
    OBVIOUS
  <2> HIDE DEF has
  <2> QED BY <1>1, <2>1, <2>2
<1>3. Max(lens) \in lens /\ \A y \in lens : Max(lens) >= y
  BY <1>2, Greatest
<1>4. \E m \in has : \A j \in has : Len(j) <= Len(m)
  <2>1. PICK m \in has : Len(m) = Max(lens)
    BY <1>3
  <2> HIDE DEF has
  <2>2. \A j \in has : Len(j) \in Nat /\ Len(m) \in Nat /\ Len(m) >= Len(j)
    BY <1>1, <1>3, <2>1
  <2> QED BY <2>2
<1> DEFINE m == CHOOSE m \in has : \A j \in has : Len(j) <= Len(m)
<1>5. LongestPrefix(trie, path) = {m}
  BY DEF LongestPrefix
<1>6. m \in has /\ \A j \in has : Len(j) <= Len(m)
  BY <1>4
<1> HIDE DEF m
<1>7. \A j \in has : IsPrefix(j, m)
  BY <1>1, <1>6, PrefixOrder
<1> QED BY <1>5, <1>6, <1>7

(* What a trie says of a path. *)
LEMMA TrieSays ==
  ASSUME NEW trie, Apart(trie), NEW path \in Paths
  PROVE  /\ UnderWildcard(trie, path) <=> \E k \in Wildcards(trie) : IsPrefix(k, path)
         /\ IsIgnored(trie, path) <=> path \in DOMAIN trie \/ \E k \in Wildcards(trie) : IsPrefix(k, path)
<1>1. DOMAIN trie \subseteq Paths
  BY DEF Apart
<1>2. ASSUME NEW k \in LongestPrefix(trie, path) PROVE k \in DOMAIN trie /\ IsPrefix(k, path)
  <2>1. LongestPrefix(trie, path) # {}
    BY <1>2
  <2>2. {j \in DOMAIN trie : IsPrefix(j, path)} # {}
    BY <2>1 DEF LongestPrefix
  <2>3. PICK j \in DOMAIN trie : IsPrefix(j, path)
    BY <2>2
  <2>4. \E m \in DOMAIN trie : LongestPrefix(trie, path) = {m} /\ IsPrefix(m, path)
    BY <1>1, <2>3, LongestOf
  <2> QED BY <1>2, <2>4
<1>3. ASSUME NEW k \in Wildcards(trie), IsPrefix(k, path) PROVE LongestPrefix(trie, path) = {k}
  <2>1. k \in DOMAIN trie
    BY DEF Wildcards
  <2>2. PICK m \in DOMAIN trie : LongestPrefix(trie, path) = {m} /\ IsPrefix(k, m)
    BY <1>1, <1>3, <2>1, LongestOf
  <2> QED BY <2>2 DEF Apart
<1>4. ASSUME path \in DOMAIN trie PROVE LongestPrefix(trie, path) = {path}
  <2>1. IsPrefix(path, path)
    BY PrefixOrder
  <2>2. PICK m \in DOMAIN trie : LongestPrefix(trie, path) = {m} /\ IsPrefix(m, path) /\ IsPrefix(path, m)
    BY <1>1, <1>4, <2>1, LongestOf
  <2>3. m \in Paths /\ Len(m) <= Len(path) /\ Len(path) <= Len(m)
    BY <1>1, <2>2, PrefixIs
  <2>4. m = path
    BY <2>2, <2>3, PrefixOrder
  <2> QED BY <2>2, <2>4
<1>5. \A k \in DOMAIN trie : trie[k] <=> k \in Wildcards(trie)
  BY DEF Wildcards
<1>6. UnderWildcard(trie, path) <=> \E k \in LongestPrefix(trie, path) : k \in Wildcards(trie)
  BY <1>2, <1>5 DEF UnderWildcard
<1>7. IsIgnored(trie, path) <=> \E k \in LongestPrefix(trie, path) : k \in Wildcards(trie) \/ k = path
  BY <1>2, <1>5 DEF IsIgnored
<1> QED BY <1>2, <1>3, <1>4, <1>6, <1>7

(* The keys of rules. *)
LEMMA SortKeyIs ==
  ASSUME NEW r, IsRule(r)
  PROVE  /\ Len(r.path) \in Nat /\ SortKey(r) \in Nat
         /\ SortKey(r) = 2 * Len(r.path) \/ SortKey(r) = 2 * Len(r.path) + 1
<1>1. Len(r.path) \in Nat
  BY DEF IsRule, Paths
<1>2. CASE r.wild
  <2>1. SortKey(r) = 2 * Len(r.path) + 1
    BY <1>2 DEF SortKey
  <2> QED BY <1>1, <2>1
<1>3. CASE ~r.wild
  <2>1. SortKey(r) = 2 * Len(r.path) + 0
    BY <1>3 DEF SortKey
  <2> QED BY <1>1, <2>1
<1> QED BY <1>2, <1>3

(* A rule is added after those with no greater keys. *)
LEMMA InsertKeeps ==
  ASSUME NEW R, \A q \in R : IsRule(q), NEW trie, TrieInv(R, trie),
         NEW r, IsRule(r), \A q \in R : SortKey(q) <= SortKey(r),
         NEW t, t = InsertRule(trie, r)
  PROVE  TrieInv(R \cup {r}, t)
<1>1. Apart(trie) /\ r.path \in Paths
  BY DEF TrieInv, IsRule
<1>2. CASE r.path = <<>> \/ UnderWildcard(trie, r.path)
  <2>1. t = trie
    BY <1>2 DEF InsertRule
  <2>2. r.path # <<>> => \E k \in Wildcards(trie) : IsPrefix(k, r.path)
    BY <1>1, <1>2, TrieSays
  <2> QED BY <2>1, <2>2 DEF TrieInv
<1>3. CASE r.path # <<>> /\ ~UnderWildcard(trie, r.path)
  <2>1. t = [k \in DOMAIN trie \cup {r.path} |-> IF k = r.path THEN r.wild ELSE trie[k]]
    BY <1>3 DEF InsertRule
  <2>2. \A k \in Wildcards(trie) : ~IsPrefix(k, r.path)
    BY <1>1, <1>3, TrieSays
  <2>3. DOMAIN t = DOMAIN trie \cup {r.path}
    BY <2>1
  <2>4. r.path \notin Wildcards(trie)
    BY <1>1, <2>2, PrefixOrder
  <2>5. \A k : k \in Wildcards(t) <=> k \in Wildcards(trie) \/ (k = r.path /\ r.wild)
    <3>1. ASSUME NEW k, k # r.path PROVE k \in Wildcards(t) <=> k \in Wildcards(trie)
      BY <2>1, <3>1 DEF Wildcards
    <3>2. r.path \in Wildcards(t) <=> r.wild
      BY <2>1 DEF Wildcards
    <3> QED BY <2>4, <3>1, <3>2
  <2>6. ASSUME NEW j \in DOMAIN trie, IsPrefix(r.path, j) PROVE j = r.path
    <3>1. PICK q \in R : q.path = j
      BY DEF TrieInv
    <3>2. Len(j) \in Nat /\ Len(r.path) \in Nat /\ j \in Paths
      BY <1>1, <3>1, PrefixOrder DEF IsRule
    <3>3. 2 * Len(j) <= 2 * Len(r.path) + 1
      <4>1. SortKey(q) <= SortKey(r)
        OBVIOUS
      <4>2. SortKey(q) = 2 * Len(j) \/ SortKey(q) = 2 * Len(j) + 1
        BY <3>1, SortKeyIs
      <4>3. SortKey(r) = 2 * Len(r.path) \/ SortKey(r) = 2 * Len(r.path) + 1
        BY SortKeyIs
      <4> QED BY <3>2, <4>1, <4>2, <4>3
    <3>4. Len(j) <= Len(r.path)
      BY <3>2, <3>3
    <3> QED BY <1>1, <2>6, <3>2, <3>4, PrefixOrder
  <2>7. Apart(t)
    <3>1. DOMAIN t \subseteq Paths \ {<<>>}
      BY <1>1, <1>3, <2>3 DEF Apart
    <3>2. ASSUME NEW k \in Wildcards(t), NEW j \in DOMAIN t, IsPrefix(k, j) PROVE j = k
      <4>1. CASE k \in Wildcards(trie) /\ j \in DOMAIN trie
        BY <1>1, <3>2, <4>1 DEF Apart
      <4>2. CASE k \in Wildcards(trie) /\ j = r.path
        BY <2>2, <3>2, <4>2
      <4>3. CASE k = r.path
        BY <2>3, <2>6, <3>2, <4>3
      <4> QED BY <2>3, <2>5, <4>1, <4>2, <4>3
    <3> QED BY <3>1, <3>2 DEF Apart
  <2>8. \A k \in DOMAIN t : \E q \in R \cup {r} : q.path = k
    BY <2>3 DEF TrieInv
  <2>9. \A k \in Wildcards(t) : \E q \in R \cup {r} : q.path = k /\ q.wild
    BY <2>5 DEF TrieInv
  <2>10. ASSUME NEW q \in R \cup {r}, q.path # <<>>
         PROVE  \/ q.path \in DOMAIN t /\ (q.wild => q.path \in Wildcards(t))
                \/ \E k \in Wildcards(t) : IsPrefix(k, q.path)
    <3>1. CASE q = r
      BY <2>3, <2>5, <3>1
    <3>2. CASE q \in R
      <4>1. \/ q.path \in DOMAIN trie /\ (q.wild => q.path \in Wildcards(trie))
            \/ \E k \in Wildcards(trie) : IsPrefix(k, q.path)
        BY <2>10, <3>2 DEF TrieInv
      <4> QED BY <2>3, <2>5, <4>1
    <3> QED BY <3>1, <3>2
  <2> QED BY <2>7, <2>8, <2>9, <2>10 DEF TrieInv
<1> QED BY <1>2, <1>3

(* The steps of the loop that fills the trie. *)
IsTrie(sorted, n, trie) ==
  trie = [k \in 0..n |-> IF k = 0 THEN <<>> ELSE InsertRule(trie[k - 1], sorted[k])]

LEMMA TrieExists ==
  ASSUME NEW n \in Nat, NEW sorted
  PROVE  \E trie : IsTrie(sorted, n, trie)
<1> DEFINE S == {m \in Nat : \E trie : IsTrie(sorted, m, trie)}
<1>1. 0 \in S
  <2> DEFINE trie == [k \in 0..0 |-> <<>>]
  <2>1. IsTrie(sorted, 0, trie)
    <3>1. \A k \in 0..0 : k = 0
      OBVIOUS
    <3> QED BY <3>1 DEF IsTrie
  <2> QED BY <2>1
<1>2. ASSUME NEW m \in S PROVE m + 1 \in S
  <2>1. PICK old : IsTrie(sorted, m, old)
    BY <1>2
  <2>2. m \in Nat
    BY <1>2
  <2> DEFINE trie == [k \in 0..(m + 1) |-> IF k = m + 1 THEN InsertRule(old[m], sorted[m + 1]) ELSE old[k]]
  <2>3. \A k \in 0..m : trie[k] = old[k]
    BY <2>2
  <2>4. ASSUME NEW k \in 0..(m + 1)
        PROVE  trie[k] = IF k = 0 THEN <<>> ELSE InsertRule(trie[k - 1], sorted[k])
    <3>1. CASE k = m + 1
      <4>1. k # 0 /\ k - 1 = m /\ m \in 0..m /\ trie[k] = InsertRule(old[m], sorted[k])
        BY <2>2, <3>1
      <4>2. trie[k - 1] = old[m]
        BY <2>3, <4>1
      <4> HIDE DEF trie
      <4> QED BY <4>1, <4>2
    <3>2. CASE k # m + 1
      <4>1. k \in 0..m
        BY <2>2, <3>2
      <4>2. old[k] = IF k = 0 THEN <<>> ELSE InsertRule(old[k - 1], sorted[k])
        BY <2>1, <4>1 DEF IsTrie
      <4>3. k # 0 => k - 1 \in 0..m
        BY <2>2, <4>1
      <4> HIDE DEF trie
      <4> QED BY <2>3, <4>1, <4>2, <4>3
    <3> QED BY <3>1, <3>2
  <2>5. trie = [k \in 0..(m + 1) |-> trie[k]]
    OBVIOUS
  <2> HIDE DEF trie
  <2>6. IsTrie(sorted, m + 1, trie)
    BY <2>4, <2>5 DEF IsTrie
  <2> QED BY <2>2, <2>6
<1> HIDE DEF S
<1>3. S = Nat
  BY <1>1, <1>2, Induction DEF S
<1> QED BY <1>3 DEF S

(* The rules in the order in which they are added. *)
LEMMA SortedRules ==
  ASSUME NEW n \in Nat, NEW rules, \A r \in rules : IsRule(r), NEW ig \in Bijection(1..n, rules),
         NEW sorted, sorted = SortedBy(ig, [i \in 1..n |-> SortKey(ig[i])])
  PROVE  /\ \A i \in 1..n : sorted[i] \in rules
         /\ \A r \in rules : \E i \in 1..n : sorted[i] = r
         /\ \A i, j \in 1..n : i < j => SortKey(sorted[i]) <= SortKey(sorted[j])
<1>1. ig \in [1..n -> rules] /\ \A r \in rules : \E i \in 1..n : ig[i] = r
  BY DEF Bijection, Injection, Surjection
<1>2. PICK key : key = [i \in 1..n |-> SortKey(ig[i])]
  OBVIOUS
<1>3. key \in [1..n -> Nat] /\ \A i \in 1..n : key[i] = SortKey(ig[i])
  <2>1. \A r \in rules : SortKey(r) \in Nat
    BY SortKeyIs
  <2> QED BY <1>1, <1>2, <2>1
<1> DEFINE q == CHOOSE p \in Bijection(1..n, 1..n) : \A i, j \in 1..n : i < j => key[p[i]] <= key[p[j]]
<1>4. q \in Bijection(1..n, 1..n) /\ \A i, j \in 1..n : i < j => key[q[i]] <= key[q[j]]
  BY <1>3, SortingExists DEF Sorts
<1>5. sorted = [i \in 1..n |-> ig[q[i]]]
  <2>1. DOMAIN ig = 1..n /\ sorted = SortedBy(ig, key)
    BY <1>1, <1>2
  <2> QED BY <2>1 DEF SortedBy
<1> HIDE DEF q
<1>6. q \in [1..n -> 1..n] /\ \A k \in 1..n : \E i \in 1..n : q[i] = k
  BY <1>4, Bijections
<1>7. \A i \in 1..n : sorted[i] = ig[q[i]] /\ q[i] \in 1..n
  BY <1>5, <1>6
<1>8. \A i \in 1..n : sorted[i] \in rules /\ SortKey(sorted[i]) = key[q[i]]
  BY <1>1, <1>3, <1>7
<1>9. ASSUME NEW r \in rules PROVE \E i \in 1..n : sorted[i] = r
  <2>1. PICK k \in 1..n : ig[k] = r
    BY <1>1
  <2>2. PICK i \in 1..n : q[i] = k
    BY <1>6
  <2> QED BY <1>7, <2>1, <2>2
<1> QED BY <1>4, <1>8, <1>9

(* NewIgnoredRuleset() makes a trie that ignores what a rule matches. *)
LEMMA RulesIgnore ==
  ASSUME NEW rules, IsFiniteSet(rules), \A r \in rules : IsRule(r), NEW path \in Paths
  PROVE  IsIgnored(NewIgnoredRuleset(rules), path) <=> Matched(rules, path)
<1>1. PICK n : n = Cardinality(rules)
  OBVIOUS
<1>2. n \in Nat /\ ExistsBijection(1..n, rules)
  BY <1>1, FS_CardinalityType
<1>3. PICK ig : ig = CHOOSE f \in Bijection(1..n, rules) : TRUE
  OBVIOUS
<1>4. ig \in Bijection(1..n, rules)
  BY <1>2, <1>3 DEF ExistsBijection
<1>5. PICK sorted : sorted = SortedBy(ig, [i \in 1..n |-> SortKey(ig[i])])
  OBVIOUS
<1>6. /\ \A i \in 1..n : sorted[i] \in rules
      /\ \A r \in rules : \E i \in 1..n : sorted[i] = r
      /\ \A i, j \in 1..n : i < j => SortKey(sorted[i]) <= SortKey(sorted[j])
  BY <1>2, <1>4, <1>5, SortedRules
<1> DEFINE trie == CHOOSE trie : IsTrie(sorted, n, trie)
<1>7. IsTrie(sorted, n, trie)
  BY <1>2, TrieExists
<1>8. NewIgnoredRuleset(rules) = trie[n]
  BY <1>1, <1>3, <1>5 DEF NewIgnoredRuleset, IsTrie
<1> HIDE DEF trie
<1> DEFINE R(k) == {sorted[i] : i \in 1..k}
           S == {k \in Nat : k <= n => TrieInv(R(k), trie[k])}
<1>9. 0 \in S
  <2>1. trie[0] = <<>>
    BY <1>2, <1>7 DEF IsTrie
  <2>2. DOMAIN <<>> = {} /\ R(0) = {}
    OBVIOUS
  <2>3. Wildcards(<<>>) = {}
    BY <2>2 DEF Wildcards
  <2>4. TrieInv({}, <<>>)
    BY <2>2, <2>3 DEF TrieInv, Apart
  <2> QED BY <2>1, <2>2, <2>4
<1>10. ASSUME NEW k \in S PROVE k + 1 \in S
  <2>1. k \in Nat /\ k + 1 \in Nat /\ (k <= n => TrieInv(R(k), trie[k]))
    BY <1>10
  <2>2. ASSUME k + 1 <= n PROVE TrieInv(R(k + 1), trie[k + 1])
    <3>1. k <= n /\ k + 1 \in 1..n /\ k + 1 \in 0..n /\ k + 1 # 0 /\ (k + 1) - 1 = k /\ \A i \in 1..k : i \in 1..n /\ i < k + 1
      BY <1>2, <2>1, <2>2
    <3>2. trie[k + 1] = InsertRule(trie[k], sorted[k + 1])
      BY <1>7, <3>1 DEF IsTrie
    <3>3. \A q \in R(k) : IsRule(q) /\ SortKey(q) <= SortKey(sorted[k + 1])
      BY <1>6, <3>1
    <3>4. IsRule(sorted[k + 1])
      BY <1>6, <3>1
    <3>5. R(k + 1) = R(k) \cup {sorted[k + 1]}
      BY <2>1
    <3> HIDE DEF R
    <3> QED BY <2>1, <3>1, <3>2, <3>3, <3>4, <3>5, InsertKeeps
  <2> QED BY <2>1, <2>2
<1> HIDE DEF S
<1>11. S = Nat
  BY <1>9, <1>10, Induction DEF S
<1>12. R(n) = rules
  <2>1. \A r : r \in R(n) <=> \E i \in 1..n : r = sorted[i]
    OBVIOUS
  <2> HIDE DEF R
  <2> QED BY <1>6, <2>1
<1>13. TrieInv(rules, trie[n])
  <2> HIDE DEF R
  <2>1. TrieInv(R(n), trie[n])
    BY <1>2, <1>11 DEF S
  <2> QED BY <1>12, <2>1
<1>14. IsIgnored(trie[n], path) <=> path \in DOMAIN trie[n] \/ \E k \in Wildcards(trie[n]) : IsPrefix(k, path)
  BY <1>13, TrieSays DEF TrieInv
<1>15. \A k \in DOMAIN trie[n] : k \in Paths /\ k # <<>>
  BY <1>13 DEF TrieInv, Apart
<1>16. Wildcards(trie[n]) \subseteq DOMAIN trie[n]
  BY DEF Wildcards
<1>17. ASSUME IsIgnored(trie[n], path) PROVE Matched(rules, path)
  <2>1. CASE path \in DOMAIN trie[n]
    BY <1>13, <1>15, <2>1 DEF TrieInv, Matched
  <2>2. ASSUME NEW k \in Wildcards(trie[n]), IsPrefix(k, path) PROVE Matched(rules, path)
    BY <1>13, <1>15, <1>16, <2>2 DEF TrieInv, Matched
  <2> QED BY <1>14, <1>17, <2>1, <2>2
<1>18. ASSUME Matched(rules, path) PROVE IsIgnored(trie[n], path)
  <2>1. PICK r \in rules : r.path # <<>> /\ (r.path = path \/ (r.wild /\ IsPrefix(r.path, path)))
    BY <1>18 DEF Matched
  <2>2. r.path \in Paths /\ IsPrefix(path, path)
    BY PrefixOrder DEF IsRule
  <2>3. IsPrefix(r.path, path)
    BY <2>1, <2>2
  <2>4. CASE r.path \in DOMAIN trie[n] /\ (r.wild => r.path \in Wildcards(trie[n]))
    BY <1>14, <2>1, <2>4
  <2>5. ASSUME NEW k \in Wildcards(trie[n]), IsPrefix(k, r.path) PROVE IsIgnored(trie[n], path)
    <3>1. IsPrefix(k, path)
      BY <1>15, <1>16, <2>2, <2>3, <2>5, PrefixesOf
    <3> QED BY <1>14, <3>1
  <2> QED BY <1>13, <2>1, <2>4, <2>5 DEF TrieInv
<1> QED BY <1>8, <1>17, <1>18

(* The packages of a tree have paths, and rules are rules. *)
LEMMA InputsAre ==
  ASSUME NEW input \in Inputs
  PROVE  DOMAIN Tree(input) \subseteq Paths /\ IsFiniteSet(input.rules) /\ \A r \in input.rules : IsRule(r)
<1>1. ImportRoot \in Paths /\ DOMAIN input.dirs \subseteq Paths
  BY InputsAssumption DEF Paths
<1>2. IsFiniteSet(input.rules) /\ \A r \in input.rules : IsRule(r)
  BY InputsAssumption DEF Paths, IsRule
<1>3. ASSUME NEW ip \in DOMAIN Tree(input) PROVE ip \in Paths
  <2>1. PICK d \in DOMAIN input.dirs : ip = ImportRoot \o d
    BY DEF Tree, ListPackages
  <2> QED BY <1>1, <2>1 DEF Paths
<1> QED BY <1>2, <1>3

-----------------------------------------------------------------------------
(* The reach map. *)

(* What dfe() has found for p takes r into account. *)
Counted(p, r) ==
  /\ r \in Sound(workmap) => workmap[r].in \subseteq inrsets[p] /\ workmap[r].ex \subseteq exrsets[p]
  /\ in.backprop => r \in Sound(workmap)

(* A package is still to be visited by call k or one above it. *)
Pending(st, k, r) == \E j \in DOMAIN st : k <= j /\ r \in st[j].todo

(* The packages in process and done, the ones that have sets and the ones  *)
(* that have errors.                                                       *)
Shape ==
  /\ colors \in [DOMAIN colors -> {"grey", "black"}]
  /\ DOMAIN colors \subseteq Known(workmap)
  /\ exrsets = [p \in DOMAIN exrsets |-> exrsets[p]]
  /\ inrsets = [p \in DOMAIN exrsets |-> inrsets[p]]
  /\ errmap = [p \in DOMAIN errmap |-> errmap[p]]
  /\ DOMAIN exrsets \subseteq Sound(workmap) \cap DOMAIN colors
  /\ DOMAIN errmap = {p \in DOMAIN workmap \cap DOMAIN colors : colors[p] = "black"} \ DOMAIN exrsets

(* The calls of dfe() are a path of imports, one for each package in       *)
(* process, and what is reached directly along the way is in the sets of   *)
(* all before.                                                             *)
StackInv(st) ==
  /\ st \in Seq([pkg : Sound(workmap), todo : SUBSET Known(workmap)])
  /\ \A i, j \in DOMAIN st : st[i].pkg = st[j].pkg => i = j
  /\ \A k \in DOMAIN st : st[k].pkg \in DOMAIN exrsets /\ colors[st[k].pkg] = "grey"
  /\ \A p \in DOMAIN colors : colors[p] = "grey" => \E k \in DOMAIN st : st[k].pkg = p
  /\ \A j, k \in DOMAIN st : k = j + 1 => st[k].pkg \in workmap[st[j].pkg].in
  /\ \A k \in DOMAIN st : st[k].todo \subseteq workmap[st[k].pkg].in
  /\ \A j, k \in DOMAIN st : j <= k =>
       /\ st[k].pkg \in Reached(workmap, st[j].pkg)
       /\ workmap[st[k].pkg].in \subseteq inrsets[st[j].pkg]
       /\ workmap[st[k].pkg].ex \subseteq exrsets[st[j].pkg]

(* What is found for a package in process counts every package found,      *)
(* except for those that a call at it or above it still has to visit.      *)
CountedInv(st, except) ==
  \A k \in DOMAIN st : \A r \in inrsets[st[k].pkg] :
    Counted(st[k].pkg, r) \/ Pending(st, k, r) \/ r \in except

(* What is found for a package that is done counts every package found;    *)
(* one that is done and has no sets is broken or reaches a broken one.     *)
BlackInv ==
  \A p \in DOMAIN colors : colors[p] = "black" =>
    IF p \in DOMAIN exrsets THEN \A r \in inrsets[p] : Counted(p, r)
    ELSE p \notin Sound(workmap) \/ (in.backprop /\ ~(Reached(workmap, p) \subseteq Sound(workmap)))

(* A package has in its sets what it imports, and nothing that it does not *)
(* reach.                                                                  *)
FoundInv ==
  \A p \in DOMAIN exrsets :
    /\ workmap[p].in \subseteq inrsets[p] /\ workmap[p].ex \subseteq exrsets[p]
    /\ inrsets[p] \subseteq Internal(workmap, p) /\ exrsets[p] \subseteq External(workmap, p)

(* A sequence of imports that ends in a broken package. *)
Chain(w, s) ==
  /\ \A k \in 1..Len(s) - 1 : s[k + 1] \in w[s[k]].in
  /\ s[Len(s)] \notin Sound(w)

(* The cause of an error is such a chain from the package that has it. *)
ErrInv ==
  \A p \in DOMAIN errmap :
    errmap[p].cause \in Seq(Known(workmap)) /\ Chain(workmap, <<p>> \o errmap[p].cause)

(* The adjacency list is that of the input. *)
InputInv ==
  /\ in \in Inputs
  /\ workmap = Workmap(Tree(in), NewIgnoredRuleset(in.rules), in.main, in.tests)

(* The inductive invariant of wmToReach(). *)
ReachInv ==
  /\ InputInv
  /\ Shape /\ StackInv(stack) /\ CountedInv(stack, {}) /\ BlackInv /\ FoundInv /\ ErrInv
-----------------------------------------------------------------------------
(* What is reached from a package is the least closed set with it. *)
LEMMA ReachedLeast ==
  ASSUME NEW w, NEW p, NEW S \in SUBSET Known(w), p \in S, Closed(w, S)
  PROVE  Reached(w, p) \subseteq S
BY DEF Reached

(* What a package reaches is closed under imports. *)
LEMMA ReachedClosed ==
  ASSUME NEW w, NEW p \in Known(w)
  PROVE  p \in Reached(w, p) /\ Reached(w, p) \subseteq Known(w) /\ Closed(w, Reached(w, p))
<1>1. p \in Reached(w, p) /\ Reached(w, p) \subseteq Known(w)
  BY DEF Reached
<1>2. ASSUME NEW q \in Reached(w, p) \cap Sound(w), NEW i \in w[q].in
      PROVE  i \in Reached(w, p)
  <2>1. i \in Known(w)
    BY <1>2 DEF Known, Sound
  <2>2. ASSUME NEW S \in SUBSET Known(w), p \in S, Closed(w, S)
        PROVE  i \in S
    <3>1. q \in S
      BY <2>2, <1>2, ReachedLeast
    <3> QED BY <3>1, <2>2, <1>2 DEF Closed
  <2> QED BY <2>1, <2>2 DEF Reached
<1> QED BY <1>1, <1>2 DEF Closed

(* Reaching is transitive. *)
LEMMA ReachedOn ==
  ASSUME NEW w, NEW p \in Known(w), NEW q \in Reached(w, p)
  PROVE  /\ Reached(w, q) \subseteq Reached(w, p)
         /\ Internal(w, q) \subseteq Internal(w, p)
         /\ External(w, q) \subseteq External(w, p)
<1>1. Reached(w, q) \subseteq Reached(w, p)
  BY ReachedClosed, ReachedLeast
<1> QED BY <1>1 DEF Internal, External

(* A package reaches what it imports. *)
LEMMA ReachedDirectly ==
  ASSUME NEW w, NEW p \in Sound(w)
  PROVE  /\ p \in Known(w)
         /\ w[p].in \subseteq Reached(w, p)
         /\ w[p].in \subseteq Internal(w, p)
         /\ w[p].ex \subseteq External(w, p)
<1>1. p \in Known(w)
  BY DEF Known, Sound
<1>2. p \in Reached(w, p) /\ Closed(w, Reached(w, p))
  BY <1>1, ReachedClosed
<1> QED BY <1>1, <1>2 DEF Internal, External, Closed

(* The internal packages found are reached. *)
LEMMA InternalReached ==
  ASSUME NEW w, NEW p \in Known(w)
  PROVE  Internal(w, p) \subseteq Reached(w, p)
BY ReachedClosed DEF Internal, Closed

(* What is reached is the package itself or an import of one reached. *)
LEMMA ReachedSplit ==
  ASSUME NEW w, NEW p \in Known(w), NEW q \in Reached(w, p)
  PROVE  q = p \/ q \in Internal(w, p)
<1>1. {p} \cup Internal(w, p) \in SUBSET Known(w)
  BY InternalReached, ReachedClosed
<1>2. ASSUME NEW r \in ({p} \cup Internal(w, p)) \cap Sound(w), NEW i \in w[r].in
      PROVE  i \in Internal(w, p)
  <2>1. r \in Reached(w, p)
    BY InternalReached, ReachedClosed
  <2> QED BY <2>1, <1>2 DEF Internal
<1>3. Closed(w, {p} \cup Internal(w, p))
  BY <1>2 DEF Closed
<1> QED BY <1>1, <1>3, ReachedLeast

-----------------------------------------------------------------------------
(* What is found for a package that is done is what it reaches. *)
LEMMA BlackIsReached ==
  ASSUME Shape, BlackInv, FoundInv, NEW p \in DOMAIN exrsets, colors[p] = "black"
  PROVE  /\ inrsets[p] = Internal(workmap, p)
         /\ exrsets[p] = External(workmap, p)
         /\ in.backprop => Reached(workmap, p) \subseteq Sound(workmap)
<1>1. p \in Sound(workmap) /\ p \in Known(workmap) /\ p \in DOMAIN colors
  BY ReachedDirectly DEF Shape
<1>2. \A r \in inrsets[p] : Counted(p, r)
  BY <1>1 DEF BlackInv
<1>3. /\ workmap[p].in \subseteq inrsets[p] /\ workmap[p].ex \subseteq exrsets[p]
      /\ inrsets[p] \subseteq Internal(workmap, p) /\ exrsets[p] \subseteq External(workmap, p)
  BY DEF FoundInv
<1>4. {p} \cup inrsets[p] \in SUBSET Known(workmap)
  BY <1>1, <1>3, InternalReached, ReachedClosed
<1>5. Closed(workmap, {p} \cup inrsets[p])
  BY <1>2, <1>3 DEF Closed, Counted
<1>6. Reached(workmap, p) \subseteq {p} \cup inrsets[p]
  BY <1>4, <1>5, ReachedLeast
<1>7. ASSUME NEW q \in Reached(workmap, p) \cap Sound(workmap)
      PROVE  workmap[q].in \subseteq inrsets[p] /\ workmap[q].ex \subseteq exrsets[p]
  BY <1>2, <1>3, <1>6, <1>7 DEF Counted
<1>8. Internal(workmap, p) \subseteq inrsets[p] /\ External(workmap, p) \subseteq exrsets[p]
  BY <1>7 DEF Internal, External
<1>9. in.backprop => Reached(workmap, p) \subseteq Sound(workmap)
  BY <1>1, <1>2, <1>6 DEF Counted
<1> QED BY <1>3, <1>8, <1>9

(* When all packages are done, the first half of ReachRight holds. *)
LEMMA DoneIsClosure ==
  ASSUME ReachInv
  PROVE  ReachIsClosure
<1> SUFFICES ASSUME Done
             PROVE  /\ DOMAIN exrsets =
                         {p \in Sound(workmap) : in.backprop => Reached(workmap, p) \subseteq Sound(workmap)}
                    /\ DOMAIN inrsets = DOMAIN exrsets
                    /\ DOMAIN errmap = DOMAIN workmap \ DOMAIN exrsets
                    /\ \A p \in DOMAIN exrsets : /\ exrsets[p] = External(workmap, p)
                                                 /\ inrsets[p] = Internal(workmap, p)
                    /\ \A p \in DOMAIN errmap :
                         LET chain == <<p>> \o errmap[p].cause
                         IN /\ \A k \in 1..Len(chain) - 1 : chain[k + 1] \in workmap[chain[k]].in
                            /\ Last(chain) \notin Sound(workmap)
  BY DEF ReachIsClosure
<1>1. \A p \in DOMAIN workmap : p \in DOMAIN colors /\ colors[p] = "black"
  BY DEF Done, Color
<1>2. DOMAIN exrsets \subseteq Sound(workmap) /\ Sound(workmap) \subseteq DOMAIN workmap
  BY DEF ReachInv, Shape, Sound
<1>3. DOMAIN exrsets = {p \in Sound(workmap) : in.backprop => Reached(workmap, p) \subseteq Sound(workmap)}
  <2>1. ASSUME NEW p \in DOMAIN exrsets PROVE in.backprop => Reached(workmap, p) \subseteq Sound(workmap)
    BY <1>1, <1>2, BlackIsReached DEF ReachInv
  <2>2. ASSUME NEW p \in Sound(workmap), p \notin DOMAIN exrsets
        PROVE  in.backprop /\ ~(Reached(workmap, p) \subseteq Sound(workmap))
    BY <1>1, <1>2, <2>2 DEF ReachInv, BlackInv
  <2> QED BY <1>2, <2>1, <2>2
<1>4. DOMAIN inrsets = DOMAIN exrsets
  BY DEF ReachInv, Shape
<1>5. DOMAIN errmap = DOMAIN workmap \ DOMAIN exrsets
  BY <1>1 DEF ReachInv, Shape
<1>6. \A p \in DOMAIN exrsets : exrsets[p] = External(workmap, p) /\ inrsets[p] = Internal(workmap, p)
  BY <1>1, <1>2, BlackIsReached DEF ReachInv
<1>7. ASSUME NEW p \in DOMAIN errmap
      PROVE  LET chain == <<p>> \o errmap[p].cause
             IN /\ \A k \in 1..Len(chain) - 1 : chain[k + 1] \in workmap[chain[k]].in
                /\ Last(chain) \notin Sound(workmap)
  BY DEF ReachInv, ErrInv, Chain, Last
<1> QED BY <1>3, <1>4, <1>5, <1>6, <1>7

-----------------------------------------------------------------------------
(* The adjacency list of a tree: what the rules ignore is neither in it    *)
(* nor imported, and it has of a part of the tree what it has of the tree. *)
LEMMA WorkmapOf ==
  ASSUME NEW tree, NEW ignore, NEW main, NEW tests, NEW w, w = Workmap(tree, ignore, main, tests)
  PROVE  /\ DOMAIN w \subseteq DOMAIN tree
         /\ \A p \in DOMAIN w : \A i \in w[p].in : ~IsIgnored(ignore, i)
         /\ \A p \in Sound(w) : ~IsIgnored(ignore, p)
<1> DEFINE errs == {ip \in DOMAIN tree : tree[ip].err # ""}
           kept == {ip \in DOMAIN tree \ errs :
                      (tree[ip].name # "main" \/ main) /\ ~IsIgnored(ignore, ip)}
           Imps(ip) == {i \in tree[ip].imports \cup (IF tests THEN tree[ip].testImports ELSE {}) :
                          ~IsIgnored(ignore, i) /\ i # <<".">>}
           imps(ip) == IF ip \in kept THEN Imps(ip) ELSE {}
           in_(ip) == {i \in imps(ip) : eqOrSlashedPrefix(i, ImportRoot)}
<1>1. w = [ip \in errs \cup kept |-> [err |-> tree[ip].err, ex |-> imps(ip) \ in_(ip), in |-> in_(ip)]]
  BY DEF Workmap
<1>2. DOMAIN w = errs \cup kept
  BY <1>1
<1>3. ASSUME NEW p \in DOMAIN w PROVE w[p].err = tree[p].err /\ w[p].in = in_(p)
  <2> HIDE DEF errs, kept, imps, in_
  <2>1. w[p] = [err |-> tree[p].err, ex |-> imps(p) \ in_(p), in |-> in_(p)]
    BY <1>1, <1>2, <1>3
  <2> QED BY <2>1
<1>4. \A p : \A i \in in_(p) : ~IsIgnored(ignore, i)
  OBVIOUS
<1>5. \A p \in Sound(w) : p \in kept
  BY <1>2, <1>3 DEF Sound
<1>6. \A p \in Sound(w) : ~IsIgnored(ignore, p)
  BY <1>5
<1>7. \A p \in DOMAIN w : \A i \in w[p].in : ~IsIgnored(ignore, i)
  <2> HIDE DEF errs, kept, imps, in_
  <2> QED BY <1>3, <1>4
<1> QED BY <1>2, <1>6, <1>7

(* The adjacency list of a part of a tree is part of that of the tree. *)
LEMMA WorkmapOfPart ==
  ASSUME NEW tree, NEW ignore, NEW main, NEW tests, NEW part,
         DOMAIN part \subseteq DOMAIN tree, \A p \in DOMAIN part : part[p] = tree[p],
         NEW w, w = Workmap(tree, ignore, main, tests),
         NEW v, v = Workmap(part, ignore, main, tests)
  PROVE  /\ DOMAIN v = DOMAIN w \cap DOMAIN part
         /\ \A p \in DOMAIN v : v[p] = w[p]
<1> DEFINE Errs(t) == {ip \in DOMAIN t : t[ip].err # ""}
           Kept(t) == {ip \in DOMAIN t \ Errs(t) :
                         (t[ip].name # "main" \/ main) /\ ~IsIgnored(ignore, ip)}
           Entry(t, ip) ==
             LET imps == IF ip \in Kept(t)
                         THEN {i \in t[ip].imports \cup (IF tests THEN t[ip].testImports ELSE {}) :
                                 ~IsIgnored(ignore, i) /\ i # <<".">>}
                         ELSE {}
                 in_  == {i \in imps : eqOrSlashedPrefix(i, ImportRoot)}
             IN [err |-> t[ip].err, ex |-> imps \ in_, in |-> in_]
<1>1. \A t : Workmap(t, ignore, main, tests) = [ip \in Errs(t) \cup Kept(t) |-> Entry(t, ip)]
  BY DEF Workmap
<1>2. Errs(part) = Errs(tree) \cap DOMAIN part /\ Kept(part) = Kept(tree) \cap DOMAIN part
  OBVIOUS
<1>3. ASSUME NEW ip \in Errs(part) \cup Kept(part)
      PROVE  Entry(part, ip) = Entry(tree, ip)
  <2>1. part[ip] = tree[ip] /\ (ip \in Kept(part) <=> ip \in Kept(tree))
    BY <1>2, <1>3
  <2> QED BY <2>1
<1> HIDE DEF Errs, Kept, Entry
<1>4. DOMAIN Workmap(part, ignore, main, tests) = Errs(part) \cup Kept(part)
  BY <1>1
<1>5. DOMAIN Workmap(tree, ignore, main, tests) = Errs(tree) \cup Kept(tree)
  BY <1>1
<1>6. ASSUME NEW ip \in Errs(part) \cup Kept(part)
      PROVE  Workmap(part, ignore, main, tests)[ip] = Workmap(tree, ignore, main, tests)[ip]
  <2>1. ip \in Errs(tree) \cup Kept(tree)
    BY <1>2, <1>6
  <2>2. Workmap(part, ignore, main, tests)[ip] = Entry(part, ip)
    BY <1>1, <1>6
  <2>3. Workmap(tree, ignore, main, tests)[ip] = Entry(tree, ip)
    BY <1>1, <2>1
  <2> QED BY <2>2, <2>3, <1>3, <1>6
<1>7. /\ DOMAIN Workmap(part, ignore, main, tests) = DOMAIN Workmap(tree, ignore, main, tests) \cap DOMAIN part
      /\ \A p \in DOMAIN Workmap(part, ignore, main, tests) :
            Workmap(part, ignore, main, tests)[p] = Workmap(tree, ignore, main, tests)[p]
  BY <1>2, <1>4, <1>5, <1>6
<1> QED BY <1>7

(* A part of the graph in which a package's reach lies reaches the same. *)
LEMMA ReachOfPart ==
  ASSUME NEW w, NEW v, NEW keep, DOMAIN v = DOMAIN w \cap keep,
         \A p \in DOMAIN v : v[p] = w[p],
         NEW p \in Sound(w), Reached(w, p) \subseteq keep
  PROVE  p \in Sound(v) /\ External(v, p) = External(w, p)
<1>1. Sound(v) = Sound(w) \cap keep
  BY DEF Sound
<1>2. p \in Known(w) /\ p \in Reached(w, p)
  BY ReachedDirectly, ReachedClosed
<1>3. p \in Sound(v) /\ p \in Known(v)
  BY <1>1, <1>2 DEF Known, Sound
<1>4. \A q \in Sound(v) : v[q].in = w[q].in /\ v[q].ex = w[q].ex
  BY DEF Sound
<1>5. Known(v) \subseteq Known(w)
  BY DEF Known
<1>6. Reached(w, p) \subseteq Known(v)
  <2>1. ASSUME NEW q \in Reached(w, p) PROVE q \in Known(v)
    <3>1. CASE q = p
      BY <3>1, <1>3
    <3>2. CASE q \in Internal(w, p)
      <4>1. PICK r \in Reached(w, p) \cap Sound(w) : q \in w[r].in
        BY <3>2 DEF Internal
      <4>2. r \in Sound(v)
        BY <1>1
      <4> QED BY <4>1, <4>2, <1>4 DEF Known, Sound
    <3> QED BY <1>2, <3>1, <3>2, ReachedSplit
  <2> QED BY <2>1
<1>7. Closed(v, Reached(w, p))
  BY <1>1, <1>2, <1>4, ReachedClosed DEF Closed
<1>8. Reached(v, p) \subseteq Reached(w, p)
  BY <1>2, <1>6, <1>7, ReachedLeast
<1>9. Closed(v, Reached(v, p)) /\ p \in Reached(v, p) /\ Reached(v, p) \subseteq Known(v)
  BY <1>3, ReachedClosed
<1>10. Closed(w, Reached(v, p))
  BY <1>1, <1>4, <1>8, <1>9 DEF Closed
<1>11. Reached(w, p) \subseteq Reached(v, p)
  BY <1>5, <1>9, <1>10, ReachedLeast
<1>12. Reached(w, p) = Reached(v, p)
  BY <1>8, <1>11
<1>13. Reached(w, p) \cap Sound(w) = Reached(v, p) \cap Sound(v)
  BY <1>12, <1>1
<1> QED BY <1>3, <1>4, <1>13 DEF External

(* And so does the second half, about TrimHiddenPackages(). *)
LEMMA DoneTrims ==
  ASSUME ReachInv
  PROVE  TrimKeepsReach
<1> DEFINE tree     == Tree(in)
           ignore   == NewIgnoredRuleset(in.rules)
           Shown(p) == pkgFilter(p) /\ ~IsIgnored(ignore, p)
           shown    == {p \in DOMAIN exrsets : Shown(p)}
           preserve == shown \cup (UNION {inrsets[p] : p \in shown}) \cup {p \in DOMAIN errmap : Shown(p)}
           trimmed  == [p \in DOMAIN tree \cap preserve |-> tree[p]]
           v        == Workmap(trimmed, ignore, in.main, in.tests)
<1> SUFFICES ASSUME Done, ~in.backprop
             PROVE  /\ Flatten = UNION {External(v, p) : p \in {q \in Sound(v) : pkgFilter(q)}}
                    /\ \A p \in DOMAIN trimmed :
                         /\ ~Matched(in.rules, p)
                         /\ ~pkgFilter(p) => \E q \in Sound(workmap) : pkgFilter(q) /\ p \in Reached(workmap, q)
  BY DEF TrimKeepsReach, TrimHiddenPackages
<1>1. workmap = Workmap(tree, ignore, in.main, in.tests)
  BY DEF ReachInv, InputInv
<1>2. /\ DOMAIN exrsets = Sound(workmap)
      /\ \A p \in DOMAIN exrsets : exrsets[p] = External(workmap, p) /\ inrsets[p] = Internal(workmap, p)
  BY DoneIsClosure DEF ReachIsClosure
<1>3. /\ \A p \in DOMAIN workmap : \A i \in workmap[p].in : ~IsIgnored(ignore, i)
      /\ \A p \in Sound(workmap) : ~IsIgnored(ignore, p)
  BY <1>1, WorkmapOf
<1>4. DOMAIN v = DOMAIN workmap \cap preserve /\ \A p \in DOMAIN v : v[p] = workmap[p]
  <2> HIDE DEF tree, ignore, preserve
  <2>0. DOMAIN trimmed = DOMAIN tree \cap preserve /\ \A p \in DOMAIN trimmed : trimmed[p] = tree[p]
    OBVIOUS
  <2>1. v = Workmap(trimmed, ignore, in.main, in.tests)
    OBVIOUS
  <2> HIDE DEF trimmed, v
  <2>2. DOMAIN v = DOMAIN workmap \cap DOMAIN trimmed /\ \A p \in DOMAIN v : v[p] = workmap[p]
    BY <1>1, <2>0, <2>1, WorkmapOfPart
  <2>3. DOMAIN workmap \subseteq DOMAIN tree
    BY <1>1, WorkmapOf
  <2> QED BY <2>0, <2>2, <2>3
<1>5. shown = {p \in Sound(workmap) : pkgFilter(p)}
  BY <1>2, <1>3
<1>6. \A p \in shown : inrsets[p] = Internal(workmap, p)
  BY <1>2
<1>7. shown \subseteq preserve /\ \A p \in shown : inrsets[p] \subseteq preserve
  OBVIOUS
<1>8. \A p \in preserve : p \in shown \/ (\E q \in shown : p \in inrsets[q]) \/ Shown(p)
  OBVIOUS
<1>9. \A p \in shown : p \in Sound(workmap) /\ pkgFilter(p) /\ ~IsIgnored(ignore, p)
  BY <1>2
<1> HIDE DEF tree, ignore, shown, preserve, v
<1>10. Flatten = UNION {External(v, p) : p \in {q \in Sound(v) : pkgFilter(q)}}
  <2>1. Flatten = UNION {External(workmap, p) : p \in shown}
    BY <1>2, <1>5 DEF Flatten
  <2>2. ASSUME NEW p \in shown PROVE p \in Sound(v) /\ External(v, p) = External(workmap, p)
    <3>1. p \in Sound(workmap) /\ p \in Known(workmap)
      BY <1>9, ReachedDirectly
    <3>2. Reached(workmap, p) \subseteq preserve
      BY <3>1, <1>6, <1>7, ReachedSplit
    <3> QED BY <1>4, <3>1, <3>2, ReachOfPart
  <2>3. {q \in Sound(v) : pkgFilter(q)} = shown
    BY <1>4, <1>5, <2>2 DEF Sound
  <2> QED BY <2>1, <2>2, <2>3
<1>11. ASSUME NEW p \in DOMAIN trimmed
       PROVE  /\ ~Matched(in.rules, p)
              /\ ~pkgFilter(p) => \E q \in Sound(workmap) : pkgFilter(q) /\ p \in Reached(workmap, q)
  <2>1. p \in DOMAIN tree /\ p \in preserve
    OBVIOUS
  <2>2. ASSUME NEW q \in shown, p \in inrsets[q]
        PROVE  ~IsIgnored(ignore, p) /\ p \in Reached(workmap, q)
    <3>1. q \in Known(workmap) /\ p \in Internal(workmap, q)
      BY <1>6, <1>9, <2>2, ReachedDirectly
    <3>2. \E r \in DOMAIN workmap : p \in workmap[r].in
      BY <3>1 DEF Internal, Sound
    <3> QED BY <1>3, <3>1, <3>2, InternalReached
  <2>3. ~IsIgnored(ignore, p)
    BY <1>8, <1>9, <2>1, <2>2
  <2>4. ~Matched(in.rules, p)
    <3>1. in \in Inputs
      BY DEF ReachInv, InputInv
    <3>2. p \in Paths /\ IsFiniteSet(in.rules) /\ \A r \in in.rules : IsRule(r)
      BY <2>1, <3>1, InputsAre DEF tree
    <3> QED BY <2>3, <3>2, RulesIgnore DEF ignore
  <2>5. ~pkgFilter(p) => \E q \in Sound(workmap) : pkgFilter(q) /\ p \in Reached(workmap, q)
    BY <1>8, <1>9, <2>1, <2>2
  <2> QED BY <2>4, <2>5
<1> QED BY <1>10, <1>11 DEF tree, ignore, shown, preserve, v

-----------------------------------------------------------------------------
(* The calls of dfe() when a package is about to be visited: everything    *)
(* holds but that nobody has counted the package.                          *)
AtImport(p, calls) ==
  /\ p \in Known(workmap)
  /\ StackInv(calls) /\ CountedInv(calls, {p})
  /\ calls # <<>> => p \in workmap[calls[Len(calls)].pkg].in

(* The parts of the invariant that are not about the calls. *)
Others == Shape /\ BlackInv /\ FoundInv /\ ErrInv

(* Facts about sequences that the provers need to be told. *)
LEMMA SeqFacts ==
  ASSUME NEW T, NEW s \in Seq(T)
  PROVE  Len(s) \in Nat /\ DOMAIN s = 1..Len(s) /\ \A k \in DOMAIN s : s[k] \in T
OBVIOUS

(* What Front() and Last() are. *)
LEMMA FrontFacts ==
  ASSUME NEW T, NEW s \in Seq(T), s # <<>>
  PROVE  /\ Len(s) \in Nat \ {0} /\ Len(s) \in DOMAIN s /\ Last(s) = s[Len(s)] /\ Last(s) \in T
         /\ Front(s) \in Seq(T) /\ Len(Front(s)) = Len(s) - 1
         /\ \A k \in 1..Len(s)-1 : Front(s)[k] = s[k]
<1>1. Len(s) \in Nat \ {0} /\ Len(s) \in DOMAIN s
  OBVIOUS
<1>2. Last(s) = s[Len(s)] /\ Last(s) \in T
  BY <1>1, SeqFacts DEF Last
<1>3. /\ Front(s) \in Seq(T) /\ Len(Front(s)) = Len(s) - 1
      /\ \A k \in 1..Len(s)-1 : Front(s)[k] = s[k]
  <2>1. PICK n \in Nat : n = Len(s) - 1
    BY <1>1
  <2>2. 1 \in Int /\ n \in Int /\ \A i \in 1..n : s[i] \in T
    BY <1>1, <2>1, SeqFacts
  <2>3. /\ SubSeq(s, 1, n) \in Seq(T) /\ Len(SubSeq(s, 1, n)) = IF 1 <= n THEN n - 1 + 1 ELSE 0
        /\ \A i \in 1..n-1+1 : SubSeq(s, 1, n)[i] = s[1+i-1]
    BY <2>2, SubSeqProperties
  <2>4. /\ SubSeq(s, 1, n) \in Seq(T) /\ Len(SubSeq(s, 1, n)) = n
        /\ \A i \in 1..n : SubSeq(s, 1, n)[i] = s[i]
    BY <2>3
  <2> QED BY <2>1, <2>4 DEF Front
<1> QED BY <1>1, <1>2, <1>3

(* A sequence whose last element is replaced. *)
LEMMA ReplaceLast ==
  ASSUME NEW T, NEW s \in Seq(T), s # <<>>, NEW e \in T
  PROVE  /\ Append(Front(s), e) \in Seq(T) /\ Len(Append(Front(s), e)) = Len(s)
         /\ \A k \in 1..Len(s)-1 : Append(Front(s), e)[k] = s[k]
         /\ Append(Front(s), e)[Len(s)] = e
<1>1. PICK front \in Seq(T) : front = Front(s)
  BY FrontFacts
<1>2. Len(front) = Len(s) - 1 /\ Len(s) \in Nat /\ \A k \in 1..Len(s)-1 : front[k] = s[k]
  BY <1>1, FrontFacts
<1>3. /\ Append(front, e) \in Seq(T) /\ Len(Append(front, e)) = Len(front) + 1
      /\ \A k \in 1..Len(front) : Append(front, e)[k] = front[k]
      /\ Append(front, e)[Len(front) + 1] = e
  BY AppendProperties
<1> QED BY <1>1, <1>2, <1>3

(* With one import less to visit in the last call, that import is all that *)
(* may be uncounted.                                                       *)
LEMMA CallsOfImport ==
  ASSUME StackInv(stack), CountedInv(stack, {}), stack # <<>>, NEW p \in stack[Len(stack)].todo,
         NEW calls \in Seq([pkg : Sound(workmap), todo : SUBSET Known(workmap)]), NEW n \in Nat \ {0},
         n = Len(stack), Len(calls) = n, \A k \in 1..n-1 : calls[k] = stack[k],
         calls[n].pkg = stack[n].pkg, calls[n].todo = stack[n].todo \ {p}
  PROVE  AtImport(p, calls) /\ calls # <<>>
<1> DEFINE Call == [pkg : Sound(workmap), todo : SUBSET Known(workmap)]
<1>1. stack \in Seq(Call) /\ calls \in Seq(Call)
  BY DEF StackInv
<1> HIDE DEF Call
<1>2. DOMAIN stack = 1..n /\ n \in DOMAIN stack /\ stack[n] \in Call
  BY <1>1, SeqFacts
<1>5. DOMAIN calls = 1..n /\ calls # <<>>
  BY <1>1, SeqFacts
<1>7. ASSUME NEW k \in 1..n
      PROVE  /\ calls[k].pkg = stack[k].pkg /\ calls[k].todo \subseteq stack[k].todo
             /\ stack[k].todo \subseteq calls[k].todo \cup {p}
  <2>1. CASE k = n
    BY <2>1
  <2>2. CASE k # n
    <3>1. k \in 1..n-1
      BY <2>2
    <3> QED BY <3>1
  <2> QED BY <2>1, <2>2
<1>8. p \in workmap[stack[n].pkg].in /\ p \in Known(workmap)
  BY <1>2 DEF StackInv, Call
<1>9. StackInv(calls)
  <2>1. calls \in Seq([pkg : Sound(workmap), todo : SUBSET Known(workmap)])
    BY <1>5 DEF Call
  <2>2. DOMAIN calls = DOMAIN stack
    BY <1>2, <1>5
  <2>3. \A k \in DOMAIN calls : calls[k].pkg = stack[k].pkg /\ calls[k].todo \subseteq stack[k].todo
    BY <1>7, <1>5
  <2>4. \A i, j \in DOMAIN calls : calls[i].pkg = calls[j].pkg => i = j
    BY <2>2, <2>3 DEF StackInv
  <2>5. \A k \in DOMAIN calls : calls[k].pkg \in DOMAIN exrsets /\ colors[calls[k].pkg] = "grey"
    BY <2>2, <2>3 DEF StackInv
  <2>6. \A q \in DOMAIN colors : colors[q] = "grey" => \E k \in DOMAIN calls : calls[k].pkg = q
    BY <2>2, <2>3 DEF StackInv
  <2>7. \A j, k \in DOMAIN calls : k = j + 1 => calls[k].pkg \in workmap[calls[j].pkg].in
    BY <2>2, <2>3 DEF StackInv
  <2>8. \A k \in DOMAIN calls : calls[k].todo \subseteq workmap[calls[k].pkg].in
    BY <2>2, <2>3 DEF StackInv
  <2>9. \A j, k \in DOMAIN calls : j <= k =>
           /\ calls[k].pkg \in Reached(workmap, calls[j].pkg)
           /\ workmap[calls[k].pkg].in \subseteq inrsets[calls[j].pkg]
           /\ workmap[calls[k].pkg].ex \subseteq exrsets[calls[j].pkg]
    BY <2>2, <2>3 DEF StackInv
  <2> QED BY <2>1, <2>4, <2>5, <2>6, <2>7, <2>8, <2>9 DEF StackInv
<1>10. CountedInv(calls, {p})
  <2>1. ASSUME NEW k \in 1..n, NEW r, Pending(stack, k, r), r # p
        PROVE  Pending(calls, k, r)
    <3>1. PICK j \in 1..n : k <= j /\ r \in stack[j].todo
      BY <1>2, <2>1 DEF Pending
    <3>2. r \in calls[j].todo
      BY <1>7, <2>1, <3>1
    <3> QED BY <1>5, <3>1, <3>2 DEF Pending
  <2>2. ASSUME NEW k \in 1..n, NEW r \in inrsets[stack[k].pkg]
        PROVE  Counted(stack[k].pkg, r) \/ Pending(stack, k, r)
    BY <1>2 DEF CountedInv
  <2> QED BY <1>5, <1>7, <2>1, <2>2 DEF CountedInv
<1> QED BY <1>2, <1>5, <1>7, <1>8, <1>9, <1>10 DEF AtImport

(* So it is for the calls that Import() goes on with. *)
LEMMA ImportCalls ==
  ASSUME StackInv(stack), CountedInv(stack, {}), stack # <<>>, NEW p \in Last(stack).todo
  PROVE  AtImport(p, Append(Front(stack), [Last(stack) EXCEPT !.todo = @ \ {p}]))
<1> DEFINE Call == [pkg : Sound(workmap), todo : SUBSET Known(workmap)]
           n    == Len(stack)
<1>1. stack \in Seq(Call)
  BY DEF StackInv
<1>2. Last(stack) = stack[n] /\ Last(stack) \in Call /\ n \in Nat \ {0}
  <2> HIDE DEF Call
  <2> QED BY <1>1, FrontFacts
<1>3. PICK e \in Call : /\ e = [Last(stack) EXCEPT !.todo = @ \ {p}]
                        /\ e.pkg = stack[n].pkg /\ e.todo = stack[n].todo \ {p}
  <2>1. PICK c \in Call : c = Last(stack)
    BY <1>2
  <2>2. /\ [c EXCEPT !.todo = @ \ {p}] \in Call
        /\ [c EXCEPT !.todo = @ \ {p}].pkg = c.pkg
        /\ [c EXCEPT !.todo = @ \ {p}].todo = c.todo \ {p}
    OBVIOUS
  <2> HIDE DEF Call
  <2>3. PICK e : e = [c EXCEPT !.todo = @ \ {p}]
    OBVIOUS
  <2>4. e \in Call /\ e.pkg = c.pkg /\ e.todo = c.todo \ {p}
    BY <2>2, <2>3
  <2>5. e = [Last(stack) EXCEPT !.todo = @ \ {p}]
    BY <2>1, <2>3
  <2> QED BY <1>2, <2>1, <2>4, <2>5
<1> HIDE DEF Call
<1>4. PICK calls : calls = Append(Front(stack), e)
  OBVIOUS
<1>5. /\ calls \in Seq(Call) /\ Len(calls) = n
      /\ \A k \in 1..n-1 : calls[k] = stack[k]
      /\ calls[n] = e
  BY <1>1, <1>4, ReplaceLast
<1>6. AtImport(p, calls)
  <2>1. p \in stack[n].todo
    BY <1>2
  <2>2. calls[n].pkg = stack[n].pkg /\ calls[n].todo = stack[n].todo \ {p}
    BY <1>3, <1>5
  <2>3. calls \in Seq([pkg : Sound(workmap), todo : SUBSET Known(workmap)])
    BY <1>5 DEF Call
  <2> QED BY <1>2, <1>5, <2>1, <2>2, <2>3, CallsOfImport
<1> QED BY <1>3, <1>4, <1>6

(* The path to a package that is visited. *)
LEMMA PathOf ==
  ASSUME Shape, NEW p, NEW calls, AtImport(p, calls)
  PROVE  /\ calls \in Seq([pkg : Sound(workmap), todo : SUBSET Known(workmap)])
         /\ DOMAIN calls = 1..Len(calls) /\ Len(calls) \in Nat
         /\ ToSet(Path(calls)) = {calls[k].pkg : k \in DOMAIN calls}
         /\ \A x \in ToSet(Path(calls)) :
              /\ x \in DOMAIN exrsets /\ x \in Sound(workmap) /\ x \in Known(workmap)
              /\ x \in DOMAIN colors /\ colors[x] = "grey"
              /\ p \in Reached(workmap, x)
<1>1. /\ calls \in Seq([pkg : Sound(workmap), todo : SUBSET Known(workmap)])
      /\ DOMAIN calls = 1..Len(calls) /\ Len(calls) \in Nat
  BY DEF AtImport, StackInv
<1>2. ToSet(Path(calls)) = {calls[k].pkg : k \in DOMAIN calls}
  BY DEF ToSet, Path
<1>3. ASSUME NEW k \in DOMAIN calls
      PROVE  /\ calls[k].pkg \in DOMAIN exrsets /\ calls[k].pkg \in Sound(workmap) /\ calls[k].pkg \in Known(workmap)
             /\ calls[k].pkg \in DOMAIN colors /\ colors[calls[k].pkg] = "grey"
             /\ p \in Reached(workmap, calls[k].pkg)
  <2>1. calls[k].pkg \in DOMAIN exrsets /\ colors[calls[k].pkg] = "grey"
    BY DEF AtImport, StackInv
  <2>2. calls[k].pkg \in Sound(workmap) /\ calls[k].pkg \in DOMAIN colors
    BY <2>1 DEF Shape
  <2>3. calls[k].pkg \in Known(workmap)
    BY <2>2, ReachedDirectly
  <2>4. Len(calls) \in DOMAIN calls /\ k <= Len(calls) /\ calls # <<>>
    BY <1>1
  <2>5. calls[Len(calls)].pkg \in Reached(workmap, calls[k].pkg) /\ calls[Len(calls)].pkg \in Sound(workmap)
    <3>0. calls[Len(calls)] \in [pkg : Sound(workmap), todo : SUBSET Known(workmap)]
      BY <1>1, <2>4, SeqFacts
    <3>1. calls[Len(calls)].pkg \in Sound(workmap)
      BY <3>0
    <3>2. StackInv(calls)
      BY DEF AtImport
    <3> QED BY <3>1, <3>2, <2>4 DEF StackInv
  <2>6. p \in Reached(workmap, calls[Len(calls)].pkg)
    BY <2>4, <2>5, ReachedDirectly DEF AtImport
  <2> QED BY <2>1, <2>2, <2>3, <2>5, <2>6, ReachedOn
<1> QED BY <1>1, <1>2, <1>3

(* What is known of a package only grows when sets are pushed. *)
Grows(P, fin, fex) ==
  /\ DOMAIN exrsets \subseteq DOMAIN exrsets' /\ in' = in /\ workmap' = workmap
  /\ \A x \in DOMAIN exrsets \cap P : inrsets'[x] = inrsets[x] \cup fin /\ exrsets'[x] = exrsets[x] \cup fex
  /\ \A x \in DOMAIN exrsets \ P : inrsets'[x] = inrsets[x] /\ exrsets'[x] = exrsets[x]

(* What is counted stays counted. *)
LEMMA CountedStays ==
  ASSUME NEW P, NEW fin, NEW fex, Grows(P, fin, fex), NEW x \in DOMAIN exrsets, NEW r, Counted(x, r)
  PROVE  Counted(x, r)'
<1>1. inrsets[x] \subseteq inrsets'[x] /\ exrsets[x] \subseteq exrsets'[x]
  BY DEF Grows
<1>2. workmap' = workmap /\ in' = in
  BY DEF Grows
<1> QED BY <1>1, <1>2 DEF Counted

(* The sets and colors after a visit that goes down into a package. *)
LEMMA VisitSoundSets ==
  ASSUME Shape, NEW p, NEW calls, p \notin DOMAIN colors, VisitSound(p, calls), UNCHANGED <<in, workmap>>
  PROVE  /\ Grows(ToSet(Path(calls)), workmap[p].in, workmap[p].ex)
         /\ DOMAIN exrsets' = DOMAIN exrsets \cup {p} /\ DOMAIN inrsets' = DOMAIN exrsets \cup {p}
         /\ exrsets' = [x \in DOMAIN exrsets' |-> exrsets'[x]]
         /\ inrsets' = [x \in DOMAIN inrsets' |-> inrsets'[x]]
         /\ inrsets'[p] = workmap[p].in /\ exrsets'[p] = workmap[p].ex
         /\ DOMAIN colors' = DOMAIN colors \cup {p} /\ colors'[p] = "grey"
         /\ colors' = [x \in DOMAIN colors' |-> colors'[x]]
         /\ \A x \in DOMAIN colors : colors'[x] = colors[x]
<1> DEFINE P == ToSet(Path(calls))
<1> HIDE DEF P
<1>1. /\ colors' = With(colors, {p}, "grey")
      /\ exrsets' = Push(With(exrsets, {p}, workmap[p].ex), P, workmap[p].ex)
      /\ inrsets' = Push(With(inrsets, {p}, workmap[p].in), P, workmap[p].in)
  BY DEF VisitSound, P
<1>2. p \notin DOMAIN exrsets /\ DOMAIN inrsets = DOMAIN exrsets
  BY DEF Shape
<1>3. /\ DOMAIN exrsets' = DOMAIN exrsets \cup {p}
      /\ exrsets' = [x \in DOMAIN exrsets' |-> exrsets'[x]]
      /\ exrsets'[p] = workmap[p].ex
      /\ \A x \in DOMAIN exrsets : exrsets'[x] = IF x \in P THEN exrsets[x] \cup workmap[p].ex ELSE exrsets[x]
  BY <1>1, <1>2 DEF Push, With
<1>4. /\ DOMAIN inrsets' = DOMAIN exrsets \cup {p}
      /\ inrsets' = [x \in DOMAIN inrsets' |-> inrsets'[x]]
      /\ inrsets'[p] = workmap[p].in
      /\ \A x \in DOMAIN exrsets : inrsets'[x] = IF x \in P THEN inrsets[x] \cup workmap[p].in ELSE inrsets[x]
  BY <1>1, <1>2 DEF Push, With
<1>5. /\ DOMAIN colors' = DOMAIN colors \cup {p} /\ colors'[p] = "grey"
      /\ colors' = [x \in DOMAIN colors' |-> colors'[x]]
      /\ \A x \in DOMAIN colors : colors'[x] = colors[x]
  BY <1>1 DEF With
<1>6. Grows(P, workmap[p].in, workmap[p].ex)
  BY <1>3, <1>4 DEF Grows
<1> QED BY <1>3, <1>4, <1>5, <1>6 DEF P

(* A visit that goes down into a package. *)
LEMMA VisitSoundKeeps ==
  ASSUME Others, NEW p, NEW calls, AtImport(p, calls), p \notin DOMAIN colors, p \in Sound(workmap),
         VisitSound(p, calls), UNCHANGED <<in, workmap>>
  PROVE  Others' /\ StackInv(stack)' /\ CountedInv(stack, {})'
<1> DEFINE P    == ToSet(Path(calls))
           n    == Len(calls)
           wp   == workmap[p]
           Call == [pkg : Sound(workmap), todo : SUBSET Known(workmap)]
<1>1. Shape /\ BlackInv /\ FoundInv /\ ErrInv
  BY DEF Others
<1>2. /\ Grows(P, wp.in, wp.ex)
      /\ DOMAIN exrsets' = DOMAIN exrsets \cup {p} /\ DOMAIN inrsets' = DOMAIN exrsets \cup {p}
      /\ exrsets' = [x \in DOMAIN exrsets' |-> exrsets'[x]]
      /\ inrsets' = [x \in DOMAIN inrsets' |-> inrsets'[x]]
      /\ inrsets'[p] = wp.in /\ exrsets'[p] = wp.ex
  BY <1>1, VisitSoundSets
<1>3. /\ DOMAIN colors' = DOMAIN colors \cup {p} /\ colors'[p] = "grey"
      /\ colors' = [x \in DOMAIN colors' |-> colors'[x]]
      /\ \A x \in DOMAIN colors : colors'[x] = colors[x]
  BY <1>1, VisitSoundSets
<1>4. errmap' = errmap /\ workmap' = workmap /\ in' = in /\ stack' = Append(calls, [pkg |-> p, todo |-> wp.in])
  BY DEF VisitSound
<1>5. p \in Known(workmap) /\ wp.in \subseteq Known(workmap) /\ p \notin DOMAIN exrsets
  <2>1. p \in Known(workmap) /\ p \notin DOMAIN exrsets
    BY <1>1, ReachedDirectly DEF Shape
  <2>2. p \in DOMAIN workmap
    BY DEF Sound
  <2> QED BY <2>1, <2>2 DEF Known
<1>6. /\ calls \in Seq(Call) /\ DOMAIN calls = 1..n /\ n \in Nat /\ P = {calls[k].pkg : k \in DOMAIN calls}
      /\ \A x \in P : /\ x \in DOMAIN exrsets /\ x \in Sound(workmap) /\ x \in Known(workmap)
                      /\ x \in DOMAIN colors /\ colors[x] = "grey" /\ p \in Reached(workmap, x)
  BY <1>1, PathOf
<1>7. StackInv(calls) /\ CountedInv(calls, {p}) /\ (calls # <<>> => p \in workmap[calls[n].pkg].in)
  BY DEF AtImport
<1> HIDE DEF P, n, wp, Call
<1>8. /\ stack' \in Seq(Call) /\ DOMAIN stack' = 1..n+1
      /\ \A k \in 1..n : stack'[k] = calls[k]
      /\ stack'[n+1].pkg = p /\ stack'[n+1].todo = wp.in
  <2>0. [pkg |-> p, todo |-> wp.in] \in Call
    BY <1>5 DEF Call
  <2>1. PICK e \in Call : e = [pkg |-> p, todo |-> wp.in] /\ e.pkg = p /\ e.todo = wp.in
    BY <2>0
  <2>2. /\ Append(calls, e) \in Seq(Call) /\ Len(Append(calls, e)) = n + 1
        /\ \A k \in 1..n : Append(calls, e)[k] = calls[k]
        /\ Append(calls, e)[n + 1] = e
    BY <1>6, AppendProperties DEF n
  <2>3. stack' = Append(calls, e)
    BY <1>4, <2>1
  <2>4. DOMAIN stack' = 1..n+1
    BY <2>2, <2>3, SeqFacts
  <2> QED BY <2>1, <2>2, <2>3, <2>4
<1>9. Shape'
  <2>1. colors' \in [DOMAIN colors' -> {"grey", "black"}]
    BY <1>1, <1>3 DEF Shape
  <2>2. DOMAIN errmap' = {q \in DOMAIN workmap' \cap DOMAIN colors' : colors'[q] = "black"} \ DOMAIN exrsets'
    BY <1>1, <1>2, <1>3, <1>4, <1>5 DEF Shape
  <2>3. DOMAIN exrsets' \subseteq Sound(workmap') \cap DOMAIN colors'
    BY <1>1, <1>2, <1>3, <1>4 DEF Shape
  <2>4. DOMAIN colors' \subseteq Known(workmap')
    BY <1>1, <1>3, <1>4, <1>5 DEF Shape
  <2>5. inrsets' = [x \in DOMAIN exrsets' |-> inrsets'[x]]
    BY <1>2
  <2>6. errmap' = [x \in DOMAIN errmap' |-> errmap'[x]]
    BY <1>1, <1>4 DEF Shape
  <2> QED BY <1>2, <2>1, <2>2, <2>3, <2>4, <2>5, <2>6 DEF Shape
<1>10. BlackInv'
  <2> SUFFICES ASSUME NEW q \in DOMAIN colors', colors'[q] = "black"
               PROVE  IF q \in DOMAIN exrsets' THEN \A r \in inrsets'[q] : Counted(q, r)'
                      ELSE q \notin Sound(workmap') \/ (in'.backprop /\ ~(Reached(workmap', q) \subseteq Sound(workmap')))
    BY DEF BlackInv
  <2>1. q \in DOMAIN colors /\ colors[q] = "black" /\ q # p
    BY <1>3
  <2>2. q \notin P
    BY <1>6, <2>1
  <2>3. CASE q \in DOMAIN exrsets
    <3>1. inrsets'[q] = inrsets[q] /\ q \in DOMAIN exrsets'
      BY <1>2, <2>2, <2>3 DEF Grows
    <3>2. \A r \in inrsets[q] : Counted(q, r)
      BY <1>1, <2>1, <2>3 DEF BlackInv
    <3> QED BY <1>2, <2>3, <3>1, <3>2, CountedStays
  <2>4. CASE q \notin DOMAIN exrsets
    <3>1. q \notin DOMAIN exrsets'
      BY <1>2, <2>1, <2>4
    <3> QED BY <1>1, <1>4, <2>1, <2>4, <3>1 DEF BlackInv
  <2> QED BY <2>3, <2>4
<1>11. FoundInv'
  <2> SUFFICES ASSUME NEW q \in DOMAIN exrsets'
               PROVE  /\ workmap[q].in \subseteq inrsets'[q] /\ workmap[q].ex \subseteq exrsets'[q]
                      /\ inrsets'[q] \subseteq Internal(workmap, q) /\ exrsets'[q] \subseteq External(workmap, q)
    BY <1>4 DEF FoundInv
  <2>1. wp.in \subseteq Internal(workmap, p) /\ wp.ex \subseteq External(workmap, p)
    BY ReachedDirectly DEF wp
  <2>2. CASE q = p
    BY <1>2, <2>1, <2>2 DEF wp
  <2>3. CASE q # p
    <3>1. q \in DOMAIN exrsets
      BY <1>2, <2>3
    <3>2. /\ workmap[q].in \subseteq inrsets[q] /\ workmap[q].ex \subseteq exrsets[q]
          /\ inrsets[q] \subseteq Internal(workmap, q) /\ exrsets[q] \subseteq External(workmap, q)
      BY <1>1, <3>1 DEF FoundInv
    <3>3. CASE q \in P
      <4>1. Internal(workmap, p) \subseteq Internal(workmap, q) /\ External(workmap, p) \subseteq External(workmap, q)
        BY <1>6, <3>3, ReachedOn
      <4> QED BY <1>2, <2>1, <3>1, <3>2, <3>3, <4>1 DEF Grows
    <3>4. CASE q \notin P
      BY <1>2, <3>1, <3>2, <3>4 DEF Grows
    <3> QED BY <3>3, <3>4
  <2> QED BY <2>2, <2>3
<1>12. ErrInv'
  BY <1>1, <1>4 DEF ErrInv
<1>13. ASSUME NEW k \in 1..n
       PROVE  /\ calls[k].pkg \in P /\ calls[k].pkg \in DOMAIN exrsets /\ calls[k].pkg # p
              /\ inrsets'[calls[k].pkg] = inrsets[calls[k].pkg] \cup wp.in
              /\ exrsets'[calls[k].pkg] = exrsets[calls[k].pkg] \cup wp.ex
              /\ p \in Reached(workmap, calls[k].pkg)
  <2>1. calls[k].pkg \in P
    BY <1>6
  <2> QED BY <1>2, <1>5, <1>6, <2>1 DEF Grows
<1>14. StackInv(stack)'
  <2>1. stack' \in Seq([pkg : Sound(workmap'), todo : SUBSET Known(workmap')])
    BY <1>4, <1>8 DEF Call
  <2>2. \A k \in 1..n+1 : k = n + 1 \/ (k \in 1..n /\ stack'[k] = calls[k])
    BY <1>6, <1>8
  <2>3. \A i, j \in DOMAIN stack' : stack'[i].pkg = stack'[j].pkg => i = j
    BY <1>6, <1>7, <1>8, <1>13, <2>2 DEF StackInv
  <2>4. \A k \in DOMAIN stack' : stack'[k].pkg \in DOMAIN exrsets' /\ colors'[stack'[k].pkg] = "grey"
    BY <1>2, <1>3, <1>6, <1>8, <1>13, <2>2
  <2>5. ASSUME NEW q \in DOMAIN colors', colors'[q] = "grey"
        PROVE  \E k \in DOMAIN stack' : stack'[k].pkg = q
    <3>1. CASE q = p
      BY <1>6, <1>8, <3>1
    <3>2. CASE q # p
      <4>1. PICK k \in 1..n : calls[k].pkg = q
        BY <1>3, <1>6, <1>7, <2>5, <3>2 DEF StackInv
      <4> QED BY <1>6, <1>8, <4>1
    <3> QED BY <3>1, <3>2
  <2>6. ASSUME NEW j \in DOMAIN stack', NEW k \in DOMAIN stack', k = j + 1
        PROVE  stack'[k].pkg \in workmap[stack'[j].pkg].in
    <3>1. CASE k = n + 1
      BY <1>6, <1>7, <1>8, <2>6, <3>1
    <3>2. CASE k # n + 1
      BY <1>6, <1>7, <1>8, <2>2, <2>6, <3>2 DEF StackInv
    <3> QED BY <3>1, <3>2
  <2>7. \A k \in DOMAIN stack' : stack'[k].todo \subseteq workmap[stack'[k].pkg].in
    BY <1>6, <1>7, <1>8, <2>2 DEF StackInv, wp
  <2>8. ASSUME NEW j \in DOMAIN stack', NEW k \in DOMAIN stack', j <= k
        PROVE  /\ stack'[k].pkg \in Reached(workmap, stack'[j].pkg)
               /\ workmap[stack'[k].pkg].in \subseteq inrsets'[stack'[j].pkg]
               /\ workmap[stack'[k].pkg].ex \subseteq exrsets'[stack'[j].pkg]
    <3>1. CASE j = n + 1
      <4>1. k = n + 1
        BY <1>6, <1>8, <2>8, <3>1
      <4> QED BY <1>2, <1>5, <1>8, <3>1, <4>1, ReachedClosed DEF wp
    <3>2. CASE j # n + 1 /\ k = n + 1
      <4>1. j \in 1..n /\ stack'[j] = calls[j]
        BY <1>8, <2>2, <3>2
      <4> QED BY <1>8, <1>13, <3>2, <4>1 DEF wp
    <3>3. CASE j # n + 1 /\ k # n + 1
      <4>1. j \in 1..n /\ stack'[j] = calls[j] /\ k \in 1..n /\ stack'[k] = calls[k]
        BY <1>8, <2>2, <3>3
      <4>2. /\ calls[k].pkg \in Reached(workmap, calls[j].pkg)
            /\ workmap[calls[k].pkg].in \subseteq inrsets[calls[j].pkg]
            /\ workmap[calls[k].pkg].ex \subseteq exrsets[calls[j].pkg]
        BY <1>6, <1>7, <2>8, <4>1 DEF StackInv
      <4> QED BY <1>13, <4>1, <4>2
    <3> QED BY <3>1, <3>2, <3>3
  <2> QED BY <1>4, <2>1, <2>3, <2>4, <2>5, <2>6, <2>7, <2>8 DEF StackInv
<1>15. CountedInv(stack, {})'
  <2> SUFFICES ASSUME NEW k \in DOMAIN stack', NEW r \in inrsets'[stack'[k].pkg]
               PROVE  Counted(stack[k].pkg, r)' \/ Pending(stack', k, r)
    BY DEF CountedInv, Pending
  <2>1. k \in Nat /\ k <= n + 1
    BY <1>6, <1>8
  <2>2. CASE r \in wp.in
    BY <1>6, <1>8, <2>1, <2>2 DEF Pending
  <2>3. CASE r \notin wp.in
    <3>1. k \in 1..n /\ stack'[k] = calls[k]
      BY <1>2, <1>6, <1>8, <2>1, <2>3
    <3>2. r \in inrsets[calls[k].pkg]
      BY <1>13, <2>3, <3>1
    <3>3. Counted(calls[k].pkg, r) \/ Pending(calls, k, r) \/ r = p
      BY <1>6, <1>7, <3>1, <3>2 DEF CountedInv
    <3>4. CASE Counted(calls[k].pkg, r)
      BY <1>2, <1>13, <3>1, <3>4, CountedStays
    <3>5. CASE Pending(calls, k, r)
      <4>1. PICK j \in 1..n : k <= j /\ r \in calls[j].todo
        BY <1>6, <3>5 DEF Pending
      <4> QED BY <1>6, <1>8, <4>1 DEF Pending
    <3>6. CASE r = p
      <4>1. workmap'[r].in \subseteq inrsets'[calls[k].pkg] /\ workmap'[r].ex \subseteq exrsets'[calls[k].pkg]
        BY <1>4, <1>13, <3>1, <3>6 DEF wp
      <4> QED BY <1>4, <3>1, <3>6, <4>1 DEF Counted
    <3> QED BY <3>3, <3>4, <3>5, <3>6
  <2> QED BY <2>2, <2>3
<1> QED BY <1>9, <1>10, <1>11, <1>12, <1>14, <1>15 DEF Others

-----------------------------------------------------------------------------
(* When all calls count the package, nothing is left uncounted. *)
LEMMA CountedAll ==
  ASSUME NEW p, NEW calls, AtImport(p, calls), \A k \in DOMAIN calls : Counted(calls[k].pkg, p)
  PROVE  CountedInv(calls, {})
BY DEF AtImport, CountedInv

(* An import that adds nothing. *)
LEMMA SkipKeeps ==
  ASSUME Others, NEW p, NEW calls, AtImport(p, calls), \A k \in DOMAIN calls : Counted(calls[k].pkg, p),
         stack' = calls, UNCHANGED <<in, workmap, colors, exrsets, inrsets, errmap>>
  PROVE  Others' /\ StackInv(stack)' /\ CountedInv(stack, {})'
<1>1. Others'
  BY DEF Others, Shape, BlackInv, FoundInv, ErrInv, Counted
<1>2. StackInv(calls) /\ CountedInv(calls, {})
  BY CountedAll DEF AtImport
<1>3. StackInv(stack)'
  BY <1>2 DEF StackInv
<1>4. CountedInv(stack, {})'
  BY <1>2 DEF CountedInv, Counted, Pending
<1> QED BY <1>1, <1>3, <1>4

(* A package in process that is imported is the one that imports it: no    *)
(* import leads back.                                                      *)
LEMMA GreyIsLast ==
  ASSUME Acyclic(workmap), Shape, NEW p, NEW calls, AtImport(p, calls), p \in DOMAIN colors, colors[p] = "grey"
  PROVE  calls # <<>> /\ p = calls[Len(calls)].pkg
<1> DEFINE n == Len(calls)
<1>1. DOMAIN calls = 1..n /\ n \in Nat /\ \A x \in ToSet(Path(calls)) : x \in Sound(workmap) /\ x \in Known(workmap)
  BY PathOf
<1>2. ToSet(Path(calls)) = {calls[k].pkg : k \in DOMAIN calls}
  BY PathOf
<1> HIDE DEF n
<1>3. PICK j \in 1..n : calls[j].pkg = p
  BY <1>1 DEF AtImport, StackInv
<1>4. n \in 1..n /\ calls # <<>> /\ p \in workmap[calls[n].pkg].in
  <2>1. n \in 1..n
    BY <1>1, <1>3
  <2>2. calls # <<>>
    BY <1>1, <2>1
  <2> QED BY <2>1, <2>2 DEF AtImport, n
<1>5. /\ \A i, k \in 1..n : calls[i].pkg = calls[k].pkg => i = k
      /\ \A i, k \in 1..n : k = i + 1 => calls[k].pkg \in workmap[calls[i].pkg].in
  BY <1>1 DEF AtImport, StackInv
<1>6. SUFFICES ASSUME j # n PROVE FALSE
  BY <1>3, <1>4 DEF n
<1> DEFINE S == {calls[k].pkg : k \in j..n}
<1>7. \A k \in j..n : k \in 1..n /\ calls[k].pkg \in Sound(workmap) /\ calls[k].pkg \in Known(workmap)
  BY <1>1, <1>2, <1>3
<1>8. S \in SUBSET Known(workmap) /\ S # {}
  BY <1>3, <1>7
<1>9. PICK q \in S : q \in Sound(workmap) => workmap[q].in \cap S \subseteq {q}
  BY <1>8 DEF Acyclic
<1>10. PICK k \in j..n : q = calls[k].pkg
  BY <1>9
<1>11. workmap[q].in \cap S \subseteq {q}
  BY <1>7, <1>9, <1>10
<1>12. CASE k = n
  <2>1. p \in S /\ p \in workmap[q].in
    BY <1>3, <1>4, <1>10, <1>12
  <2>2. p = calls[n].pkg
    BY <1>10, <1>11, <1>12, <2>1
  <2> QED BY <1>3, <1>4, <1>5, <1>6, <2>2
<1>13. CASE k # n
  <2>1. k + 1 \in j..n /\ k \in 1..n /\ k + 1 \in 1..n
    BY <1>1, <1>3, <1>10, <1>13
  <2>2. calls[k + 1].pkg \in S /\ calls[k + 1].pkg \in workmap[q].in
    BY <1>5, <1>10, <2>1
  <2>3. calls[k + 1].pkg = calls[k].pkg
    BY <1>10, <1>11, <2>2
  <2> QED BY <1>5, <2>1, <2>3
<1> QED BY <1>12, <1>13

(* So every call has counted it when it is met again. *)
LEMMA GreyCounted ==
  ASSUME Acyclic(workmap), Shape, NEW p, NEW calls, AtImport(p, calls), p \in DOMAIN colors, colors[p] = "grey"
  PROVE  \A k \in DOMAIN calls : Counted(calls[k].pkg, p)
<1>1. calls # <<>> /\ p = calls[Len(calls)].pkg
  BY GreyIsLast
<1>2. DOMAIN calls = 1..Len(calls) /\ Len(calls) \in Nat
  BY PathOf
<1>3. p \in Sound(workmap)
  BY <1>1, <1>2, PathOf
<1>4. ASSUME NEW k \in DOMAIN calls
      PROVE  workmap[p].in \subseteq inrsets[calls[k].pkg] /\ workmap[p].ex \subseteq exrsets[calls[k].pkg]
  <2>1. Len(calls) \in DOMAIN calls /\ k <= Len(calls)
    BY <1>2
  <2> QED BY <1>1, <2>1 DEF AtImport, StackInv
<1> QED BY <1>3, <1>4 DEF Counted

(* A visit of a package that is done and has its sets. *)
LEMMA RevisitKeeps ==
  ASSUME Others, NEW p, NEW calls, AtImport(p, calls), p \in DOMAIN colors, colors[p] = "black",
         p \in DOMAIN exrsets, Revisit(p, calls), UNCHANGED <<in, workmap>>
  PROVE  Others' /\ StackInv(stack)' /\ CountedInv(stack, {})'
<1> DEFINE P == ToSet(Path(calls))
<1>1. Shape /\ BlackInv /\ FoundInv /\ ErrInv
  BY DEF Others
<1>2. /\ DOMAIN calls = 1..Len(calls) /\ P = {calls[k].pkg : k \in DOMAIN calls}
      /\ \A x \in P : /\ x \in DOMAIN exrsets /\ x \in Sound(workmap) /\ x \in Known(workmap)
                      /\ x \in DOMAIN colors /\ colors[x] = "grey" /\ p \in Reached(workmap, x)
  BY <1>1, PathOf
<1> HIDE DEF P
<1>3. /\ exrsets' = Push(exrsets, P, exrsets[p]) /\ inrsets' = Push(inrsets, P, inrsets[p])
      /\ stack' = calls /\ colors' = colors /\ errmap' = errmap /\ in' = in /\ workmap' = workmap
  BY DEF Revisit, P
<1>4. /\ DOMAIN exrsets' = DOMAIN exrsets /\ DOMAIN inrsets' = DOMAIN exrsets
      /\ exrsets' = [x \in DOMAIN exrsets' |-> exrsets'[x]]
      /\ inrsets' = [x \in DOMAIN exrsets' |-> inrsets'[x]]
      /\ \A x \in DOMAIN exrsets : exrsets'[x] = IF x \in P THEN exrsets[x] \cup exrsets[p] ELSE exrsets[x]
      /\ \A x \in DOMAIN exrsets : inrsets'[x] = IF x \in P THEN inrsets[x] \cup inrsets[p] ELSE inrsets[x]
  BY <1>1, <1>3 DEF Push, Shape
<1>5. Grows(P, inrsets[p], exrsets[p])
  BY <1>3, <1>4 DEF Grows
<1>6. p \in Sound(workmap) /\ \A r \in inrsets[p] : Counted(p, r)
  BY <1>1 DEF Shape, BlackInv
<1>7. ASSUME NEW x \in P, NEW r, r \in inrsets[p] \/ r = p
      PROVE  Counted(x, r)'
  <2>1. inrsets[p] \subseteq inrsets'[x] /\ exrsets[p] \subseteq exrsets'[x]
    BY <1>2, <1>4
  <2>2. r \in Sound(workmap) => workmap[r].in \subseteq inrsets[p] /\ workmap[r].ex \subseteq exrsets[p]
    BY <1>1, <1>6, <1>7 DEF Counted, FoundInv
  <2>3. in.backprop => r \in Sound(workmap)
    BY <1>6, <1>7 DEF Counted
  <2> QED BY <1>3, <2>1, <2>2, <2>3 DEF Counted
<1>8. Shape'
  BY <1>1, <1>3, <1>4 DEF Shape
<1>9. BlackInv'
  <2> SUFFICES ASSUME NEW q \in DOMAIN colors, colors[q] = "black"
               PROVE  IF q \in DOMAIN exrsets' THEN \A r \in inrsets'[q] : Counted(q, r)'
                      ELSE q \notin Sound(workmap') \/ (in'.backprop /\ ~(Reached(workmap', q) \subseteq Sound(workmap')))
    BY <1>3 DEF BlackInv
  <2>1. q \notin P
    BY <1>2
  <2>2. CASE q \in DOMAIN exrsets
    <3>1. inrsets'[q] = inrsets[q] /\ \A r \in inrsets[q] : Counted(q, r)
      BY <1>1, <1>4, <2>1, <2>2 DEF BlackInv
    <3> QED BY <1>4, <1>5, <2>2, <3>1, CountedStays
  <2>3. CASE q \notin DOMAIN exrsets
    BY <1>1, <1>3, <1>4, <2>3 DEF BlackInv
  <2> QED BY <2>2, <2>3
<1>10. FoundInv'
  <2> SUFFICES ASSUME NEW q \in DOMAIN exrsets
               PROVE  /\ workmap[q].in \subseteq inrsets'[q] /\ workmap[q].ex \subseteq exrsets'[q]
                      /\ inrsets'[q] \subseteq Internal(workmap, q) /\ exrsets'[q] \subseteq External(workmap, q)
    BY <1>3, <1>4 DEF FoundInv
  <2>1. /\ workmap[q].in \subseteq inrsets[q] /\ workmap[q].ex \subseteq exrsets[q]
        /\ inrsets[q] \subseteq Internal(workmap, q) /\ exrsets[q] \subseteq External(workmap, q)
        /\ inrsets[p] \subseteq Internal(workmap, p) /\ exrsets[p] \subseteq External(workmap, p)
    BY <1>1 DEF FoundInv
  <2>2. CASE q \in P
    <3>1. Internal(workmap, p) \subseteq Internal(workmap, q) /\ External(workmap, p) \subseteq External(workmap, q)
      BY <1>2, <2>2, ReachedOn
    <3> QED BY <1>4, <2>1, <2>2, <3>1
  <2>3. CASE q \notin P
    BY <1>4, <2>1, <2>3
  <2> QED BY <2>2, <2>3
<1>11. ErrInv'
  BY <1>1, <1>3 DEF ErrInv
<1>12. StackInv(calls) /\ CountedInv(calls, {p})
  BY DEF AtImport
<1>13. \A x \in DOMAIN exrsets : inrsets[x] \subseteq inrsets'[x] /\ exrsets[x] \subseteq exrsets'[x]
  BY <1>4
<1>14. StackInv(stack)'
  <2>1. ASSUME NEW j \in DOMAIN calls, NEW k \in DOMAIN calls, j <= k
        PROVE  /\ calls[k].pkg \in Reached(workmap, calls[j].pkg)
               /\ workmap[calls[k].pkg].in \subseteq inrsets'[calls[j].pkg]
               /\ workmap[calls[k].pkg].ex \subseteq exrsets'[calls[j].pkg]
    <3>1. calls[j].pkg \in DOMAIN exrsets
      BY <1>12 DEF StackInv
    <3>2. /\ calls[k].pkg \in Reached(workmap, calls[j].pkg)
          /\ workmap[calls[k].pkg].in \subseteq inrsets[calls[j].pkg]
          /\ workmap[calls[k].pkg].ex \subseteq exrsets[calls[j].pkg]
      BY <1>12, <2>1 DEF StackInv
    <3> QED BY <1>13, <3>1, <3>2
  <2> QED BY <1>3, <1>4, <1>12, <2>1 DEF StackInv
<1>15. CountedInv(stack, {})'
  <2> SUFFICES ASSUME NEW k \in DOMAIN calls, NEW r \in inrsets'[calls[k].pkg]
               PROVE  Counted(calls[k].pkg, r)' \/ Pending(calls, k, r)
    BY <1>3 DEF CountedInv, Pending, Counted
  <2>1. calls[k].pkg \in P /\ calls[k].pkg \in DOMAIN exrsets
    BY <1>2
  <2>2. CASE r \in inrsets[p] \/ r = p
    BY <1>7, <2>1, <2>2
  <2>3. CASE ~(r \in inrsets[p] \/ r = p)
    <3>1. r \in inrsets[calls[k].pkg]
      BY <1>4, <2>1, <2>3
    <3>2. Counted(calls[k].pkg, r) \/ Pending(calls, k, r)
      BY <1>12, <2>3, <3>1 DEF CountedInv
    <3> QED BY <1>5, <2>1, <3>2, CountedStays
  <2> QED BY <2>2, <2>3
<1> QED BY <1>8, <1>9, <1>10, <1>11, <1>14, <1>15 DEF Others

(* A broken package, without backprop. *)
LEMMA VisitBrokenKeeps ==
  ASSUME Others, NEW p, NEW calls, AtImport(p, calls), p \notin DOMAIN colors, p \notin Sound(workmap),
         ~in.backprop, VisitBroken(p, calls), UNCHANGED <<in, workmap>>
  PROVE  Others' /\ StackInv(stack)' /\ CountedInv(stack, {})'
<1>1. Shape /\ BlackInv /\ FoundInv /\ ErrInv
  BY DEF Others
<1>2. /\ colors' = With(colors, {p}, "black") /\ stack' = calls
      /\ exrsets' = exrsets /\ inrsets' = inrsets /\ in' = in /\ workmap' = workmap
  BY DEF VisitBroken
<1>3. /\ DOMAIN colors' = DOMAIN colors \cup {p} /\ colors'[p] = "black"
      /\ colors' = [x \in DOMAIN colors' |-> colors'[x]]
      /\ \A x \in DOMAIN colors : colors'[x] = colors[x]
  BY <1>2 DEF With
<1>4. p \in Known(workmap) /\ p \notin DOMAIN exrsets
  BY <1>1 DEF AtImport, Shape
<1>5. /\ DOMAIN errmap' = DOMAIN errmap \cup (IF p \in DOMAIN workmap THEN {p} ELSE {})
      /\ errmap' = [x \in DOMAIN errmap' |-> errmap'[x]]
      /\ \A x \in DOMAIN errmap' : x = p => errmap'[x].cause = <<>>
      /\ \A x \in DOMAIN errmap' : x # p => x \in DOMAIN errmap /\ errmap'[x] = errmap[x]
  <2>0. errmap' = IF p \in DOMAIN workmap
                  THEN With(errmap, {p}, [cause |-> <<>>, err |-> workmap[p].err])
                  ELSE errmap
    BY DEF VisitBroken
  <2>1. CASE p \in DOMAIN workmap
    BY <2>0, <2>1 DEF With
  <2>2. CASE p \notin DOMAIN workmap
    <3>1. errmap = [x \in DOMAIN errmap |-> errmap[x]] /\ p \notin DOMAIN errmap
      BY <1>1, <2>2 DEF Shape
    <3> QED BY <2>0, <2>2, <3>1
  <2> QED BY <2>1, <2>2
<1>6. Shape'
  <2>1. colors' \in [DOMAIN colors' -> {"grey", "black"}]
    BY <1>1, <1>3 DEF Shape
  <2>2. DOMAIN errmap' = {q \in DOMAIN workmap' \cap DOMAIN colors' : colors'[q] = "black"} \ DOMAIN exrsets'
    <3>1. DOMAIN errmap = {q \in DOMAIN workmap \cap DOMAIN colors : colors[q] = "black"} \ DOMAIN exrsets
      BY <1>1 DEF Shape
    <3> QED BY <1>2, <1>3, <1>4, <1>5, <3>1
  <2>3. DOMAIN colors' \subseteq Known(workmap') /\ DOMAIN exrsets' \subseteq Sound(workmap') \cap DOMAIN colors'
    BY <1>1, <1>2, <1>3, <1>4 DEF Shape
  <2>4. exrsets' = [x \in DOMAIN exrsets' |-> exrsets'[x]] /\ inrsets' = [x \in DOMAIN exrsets' |-> inrsets'[x]]
    BY <1>1, <1>2 DEF Shape
  <2> QED BY <1>5, <2>1, <2>2, <2>3, <2>4 DEF Shape
<1>7. BlackInv'
  <2> SUFFICES ASSUME NEW q \in DOMAIN colors', colors'[q] = "black"
               PROVE  IF q \in DOMAIN exrsets THEN \A r \in inrsets[q] : Counted(q, r)
                      ELSE q \notin Sound(workmap) \/ (in.backprop /\ ~(Reached(workmap, q) \subseteq Sound(workmap)))
    BY <1>2 DEF BlackInv, Counted
  <2> QED BY <1>1, <1>3, <1>4 DEF BlackInv
<1>8. FoundInv'
  BY <1>1, <1>2 DEF FoundInv
<1>9. ErrInv'
  <2> SUFFICES ASSUME NEW q \in DOMAIN errmap'
               PROVE  errmap'[q].cause \in Seq(Known(workmap)) /\ Chain(workmap, <<q>> \o errmap'[q].cause)
    BY <1>2 DEF ErrInv
  <2>1. CASE q = p
    <3>1. errmap'[q].cause = <<>>
      BY <1>5, <2>1
    <3>2. <<q>> \o <<>> = <<q>> /\ Chain(workmap, <<q>>)
      BY <2>1 DEF Chain
    <3> QED BY <3>1, <3>2
  <2>2. CASE q # p
    BY <1>1, <1>5, <2>2 DEF ErrInv
  <2> QED BY <2>1, <2>2
<1>10. StackInv(calls) /\ CountedInv(calls, {})
  BY CountedAll DEF AtImport, Counted
<1>11. StackInv(stack)'
  <2>1. \A k \in DOMAIN calls : calls[k].pkg \in DOMAIN exrsets /\ colors'[calls[k].pkg] = "grey"
    BY <1>1, <1>3, <1>10 DEF StackInv, Shape
  <2>2. \A q \in DOMAIN colors' : colors'[q] = "grey" => \E k \in DOMAIN calls : calls[k].pkg = q
    BY <1>3, <1>10 DEF StackInv
  <2> QED BY <1>2, <1>10, <2>1, <2>2 DEF StackInv
<1>12. CountedInv(stack, {})'
  BY <1>2, <1>10 DEF CountedInv, Counted, Pending
<1> QED BY <1>6, <1>7, <1>8, <1>9, <1>11, <1>12 DEF Others

-----------------------------------------------------------------------------
(* Chains of imports to a broken package. *)
LEMMA ChainJoin ==
  ASSUME NEW w, NEW K, NEW a \in Seq(K), NEW p \in K, NEW c \in Seq(K),
         \A k \in 1..Len(a)-1 : a[k + 1] \in w[a[k]].in,
         Len(a) > 0 => p \in w[a[Len(a)]].in,
         Chain(w, <<p>> \o c)
  PROVE  Append(a, p) \o c \in Seq(K) /\ Chain(w, Append(a, p) \o c)
<1> DEFINE s == Append(a, p) \o c
           t == <<p>> \o c
           n == Len(a)
           m == Len(c)
<1>1. n \in Nat /\ m \in Nat
  OBVIOUS
<1>2. /\ s \in Seq(K) /\ Len(s) = n + 1 + m
      /\ \A k \in 1..n : s[k] = a[k]
      /\ s[n + 1] = p
      /\ \A k \in 1..m : s[n + 1 + k] = c[k]
  OBVIOUS
<1>3. /\ Len(t) = m + 1 /\ t[1] = p
      /\ \A k \in 1..m : t[k + 1] = c[k]
  OBVIOUS
<1>4. /\ \A k \in 1..m : t[k + 1] \in w[t[k]].in
      /\ t[m + 1] \notin Sound(w)
  BY <1>1, <1>3 DEF Chain
<1> HIDE DEF s, t, n, m
<1>5. \A k \in 1..m+1 : s[n + k] = t[k]
  <2> TAKE k \in 1..m+1
  <2>1. CASE k = 1
    BY <1>2, <1>3, <2>1
  <2>2. CASE k # 1
    <3>1. PICK j \in 1..m : k = j + 1
      BY <1>1, <2>2
    <3>2. n + k = n + 1 + j
      BY <1>1, <3>1
    <3>3. s[n + 1 + j] = c[j] /\ t[j + 1] = c[j]
      BY <1>2, <1>3, <3>1
    <3> QED BY <3>1, <3>2, <3>3
  <2> QED BY <2>1, <2>2
<1>6. ASSUME NEW k \in 1..Len(s)-1
      PROVE  s[k + 1] \in w[s[k]].in
  <2>1. k \in 1..n+m
    BY <1>1, <1>2
  <2>2. CASE k < n
    <3>1. k \in 1..n-1 /\ k \in 1..n /\ k + 1 \in 1..n
      BY <1>1, <2>1, <2>2
    <3>2. a[k + 1] \in w[a[k]].in
      BY <3>1 DEF n
    <3> QED BY <1>2, <3>1, <3>2
  <2>3. CASE k = n
    BY <1>1, <1>2, <2>1, <2>3 DEF n
  <2>4. CASE k > n
    <3>1. PICK j \in 1..m : k = n + j
      <4>1. k - n \in 1..m /\ k = n + (k - n)
        BY <1>1, <2>1, <2>4
      <4> QED BY <4>1
    <3>2. j \in 1..m+1 /\ j + 1 \in 1..m+1 /\ k + 1 = n + (j + 1)
      BY <1>1, <3>1
    <3> QED BY <1>4, <1>5, <3>1, <3>2
  <2> QED BY <1>1, <2>1, <2>2, <2>3, <2>4
<1>7. s[Len(s)] \notin Sound(w)
  <2>1. m + 1 \in 1..m+1 /\ Len(s) = n + (m + 1)
    BY <1>1, <1>2
  <2> QED BY <1>4, <1>5, <2>1
<1>8. s \in Seq(K) /\ Chain(w, s)
  BY <1>2, <1>6, <1>7 DEF Chain
<1> QED BY <1>8 DEF s

(* The rest of a chain is a chain. *)
LEMMA ChainRest ==
  ASSUME NEW w, NEW K, NEW s \in Seq(K), Chain(w, s), NEW k \in 1..Len(s)
  PROVE  /\ SubSeq(s, k + 1, Len(s)) \in Seq(K)
         /\ Chain(w, <<s[k]>> \o SubSeq(s, k + 1, Len(s)))
<1> DEFINE n == Len(s)
           r == SubSeq(s, k + 1, Len(s))
           t == <<s[k]>> \o r
<1>1. n \in Nat /\ k \in Nat /\ k <= n /\ n - k \in Nat
  OBVIOUS
<1>2. r \in Seq(K) /\ Len(r) = n - k /\ \A i \in 1..n-k : r[i] = s[k + i]
  <2>1. \A i \in k+1..n : s[i] \in K
    BY <1>1
  <2>2. /\ r \in Seq(K) /\ Len(r) = IF k + 1 <= n THEN n - (k + 1) + 1 ELSE 0
        /\ \A i \in 1..n-(k+1)+1 : r[i] = s[k + 1 + i - 1]
    BY <1>1, <2>1, SubSeqProperties
  <2> HIDE DEF r, n
  <2> QED BY <1>1, <2>2
<1>3. PICK e \in K : e = s[k]
  BY <1>1
<1> HIDE DEF n, r
<1>4. /\ Len(t) = n - k + 1 /\ t[1] = s[k]
      /\ \A i \in 1..n-k : t[i + 1] = r[i]
  <2>1. /\ Len(<<e>> \o r) = 1 + Len(r) /\ (<<e>> \o r)[1] = e
        /\ \A i \in 1..Len(r) : (<<e>> \o r)[i + 1] = r[i]
    BY <1>2
  <2>2. t = <<e>> \o r
    BY <1>3
  <2> HIDE DEF t
  <2> QED BY <1>1, <1>2, <1>3, <2>1, <2>2
<1> HIDE DEF t
<1>5. \A i \in 1..n-k+1 : t[i] = s[k + i - 1]
  <2> TAKE i \in 1..n-k+1
  <2>1. CASE i = 1
    BY <1>1, <1>4, <2>1
  <2>2. CASE i # 1
    <3>1. PICK j \in 1..n-k : i = j + 1
      <4>1. i - 1 \in 1..n-k /\ i = (i - 1) + 1
        BY <1>1, <2>2
      <4> QED BY <4>1
    <3>2. k + i - 1 = k + j
      BY <1>1, <3>1
    <3> QED BY <1>2, <1>4, <3>1, <3>2
  <2> QED BY <2>1, <2>2
<1>6. ASSUME NEW i \in 1..Len(t)-1 PROVE t[i + 1] \in w[t[i]].in
  <2>1. i \in 1..n-k+1 /\ i + 1 \in 1..n-k+1 /\ k + i - 1 \in 1..n-1 /\ k + (i + 1) - 1 = (k + i - 1) + 1
    BY <1>1, <1>4
  <2>2. t[i] = s[k + i - 1] /\ t[i + 1] = s[(k + i - 1) + 1]
    BY <1>5, <2>1
  <2> QED BY <2>1, <2>2 DEF Chain, n
<1>7. t[Len(t)] \notin Sound(w)
  <2>1. Len(t) \in 1..n-k+1 /\ k + Len(t) - 1 = n
    BY <1>1, <1>4
  <2>2. t[Len(t)] = s[n]
    BY <1>5, <2>1
  <2> QED BY <2>2 DEF Chain, n
<1>8. Chain(w, t)
  BY <1>6, <1>7 DEF Chain
<1> QED BY <1>2, <1>8 DEF t, r

-----------------------------------------------------------------------------
(* poison(): the packages on the path lose their sets, and the calls end. *)
LEMMA PoisonKeeps ==
  ASSUME Others, NEW p, NEW calls, AtImport(p, calls), in.backprop,
         NEW path, NEW cause \in Seq(Known(workmap)), NEW err,
         Poison(path, cause, err, ToSet(path)), UNCHANGED <<in, workmap>>,
         DOMAIN path = 1..Len(path), Len(path) \in Nat,
         ToSet(Path(calls)) \subseteq ToSet(path), ToSet(path) \subseteq ToSet(Path(calls)) \cup {p},
         \A k \in DOMAIN path : k < Len(path) => path[k] \in DOMAIN workmap,
         \A x \in ToSet(path) : ~(Reached(workmap, x) \subseteq Sound(workmap)),
         \A k \in DOMAIN path : /\ SubSeq(cause, k + 1, Len(cause)) \in Seq(Known(workmap))
                                /\ Chain(workmap, <<path[k]>> \o SubSeq(cause, k + 1, Len(cause)))
  PROVE  Others' /\ StackInv(stack)' /\ CountedInv(stack, {})'
<1> DEFINE D == ToSet(path)
           poisoned == {k \in DOMAIN path : k < Len(path) \/ path[k] \in DOMAIN workmap}
           IndexOf(q) == CHOOSE k \in poisoned : path[k] = q
           hit == {path[k] : k \in poisoned}
<1>1. Shape /\ BlackInv /\ FoundInv /\ ErrInv /\ StackInv(calls)
  BY DEF Others, AtImport
<1>2. /\ exrsets' = Without(exrsets, D) /\ inrsets' = Without(inrsets, D)
      /\ colors' = With(colors, D, "black") /\ stack' = <<>> /\ in' = in /\ workmap' = workmap
  BY DEF Poison
<1>3. errmap' = [q \in DOMAIN errmap \cup hit |->
                   IF q \in hit THEN [cause |-> SubSeq(cause, IndexOf(q) + 1, Len(cause)), err |-> err]
                   ELSE errmap[q]]
  BY DEF Poison
<1>4. D = {path[k] : k \in DOMAIN path} /\ hit = D \cap DOMAIN workmap
  BY DEF ToSet
<1>5. /\ DOMAIN errmap' = DOMAIN errmap \cup hit
      /\ errmap' = [q \in DOMAIN errmap' |-> errmap'[q]]
      /\ \A q \in DOMAIN errmap \ hit : errmap'[q] = errmap[q]
      /\ \A q \in hit : errmap'[q].cause = SubSeq(cause, IndexOf(q) + 1, Len(cause))
  <2> HIDE DEF hit, IndexOf
  <2> QED BY <1>3
<1>6. \A q \in hit : IndexOf(q) \in DOMAIN path /\ path[IndexOf(q)] = q
  OBVIOUS
<1> HIDE DEF D, hit, IndexOf, poisoned
<1>7. /\ DOMAIN exrsets' = DOMAIN exrsets \ D /\ DOMAIN inrsets' = DOMAIN exrsets \ D
      /\ exrsets' = [x \in DOMAIN exrsets' |-> exrsets'[x]]
      /\ inrsets' = [x \in DOMAIN exrsets' |-> inrsets'[x]]
      /\ \A x \in DOMAIN exrsets' : exrsets'[x] = exrsets[x] /\ inrsets'[x] = inrsets[x]
  BY <1>1, <1>2 DEF Without, Shape
<1>8. /\ DOMAIN colors' = DOMAIN colors \cup D
      /\ colors' = [x \in DOMAIN colors' |-> colors'[x]]
      /\ \A x \in D : colors'[x] = "black"
      /\ \A x \in DOMAIN colors \ D : colors'[x] = colors[x]
  BY <1>2 DEF With
<1>9. \A x \in DOMAIN colors : colors[x] = "grey" => x \in D
  <2>1. \A x \in DOMAIN colors : colors[x] = "grey" => x \in ToSet(Path(calls))
    BY <1>1, PathOf DEF StackInv
  <2> QED BY <2>1 DEF D
<1>10. D \subseteq Known(workmap)
  <2>1. ToSet(Path(calls)) \cup {p} \subseteq Known(workmap)
    BY <1>1, PathOf DEF AtImport
  <2> QED BY <2>1 DEF D
<1>11. \A x \in DOMAIN colors' : colors'[x] = "black"
  BY <1>1, <1>8, <1>9 DEF Shape
<1>12. Shape'
  <2>1. colors' \in [DOMAIN colors' -> {"grey", "black"}]
    BY <1>8, <1>11
  <2>2. DOMAIN errmap' = {q \in DOMAIN workmap' \cap DOMAIN colors' : colors'[q] = "black"} \ DOMAIN exrsets'
    <3>1. DOMAIN errmap = {q \in DOMAIN workmap \cap DOMAIN colors : colors[q] = "black"} \ DOMAIN exrsets
      BY <1>1 DEF Shape
    <3>2. \A x \in DOMAIN colors : colors[x] # "black" => x \in D
      BY <1>1, <1>9 DEF Shape
    <3> QED BY <1>2, <1>4, <1>5, <1>7, <1>8, <1>11, <3>1, <3>2
  <2>3. DOMAIN colors' \subseteq Known(workmap') /\ DOMAIN exrsets' \subseteq Sound(workmap') \cap DOMAIN colors'
    BY <1>1, <1>2, <1>7, <1>8, <1>10 DEF Shape
  <2> QED BY <1>5, <1>7, <2>1, <2>2, <2>3 DEF Shape
<1>13. BlackInv'
  <2> SUFFICES ASSUME NEW q \in DOMAIN colors'
               PROVE  IF q \in DOMAIN exrsets' THEN \A r \in inrsets'[q] : Counted(q, r)'
                      ELSE q \notin Sound(workmap) \/ (in.backprop /\ ~(Reached(workmap, q) \subseteq Sound(workmap)))
    BY <1>2 DEF BlackInv
  <2>1. CASE q \in D
    BY <1>7, <2>1 DEF D
  <2>2. CASE q \notin D
    <3>1. q \in DOMAIN colors /\ colors[q] = "black" /\ (q \in DOMAIN exrsets' <=> q \in DOMAIN exrsets)
      BY <1>7, <1>8, <1>11, <2>2
    <3>2. CASE q \in DOMAIN exrsets
      <4>1. \A r \in inrsets[q] : Counted(q, r)
        BY <1>1, <3>1, <3>2 DEF BlackInv
      <4>2. inrsets'[q] = inrsets[q] /\ exrsets'[q] = exrsets[q]
        BY <1>7, <3>1, <3>2
      <4> QED BY <1>2, <3>1, <3>2, <4>1, <4>2 DEF Counted
    <3>3. CASE q \notin DOMAIN exrsets
      BY <1>1, <3>1, <3>3 DEF BlackInv
    <3> QED BY <3>2, <3>3
  <2> QED BY <2>1, <2>2
<1>14. FoundInv'
  BY <1>1, <1>2, <1>7 DEF FoundInv
<1>15. ErrInv'
  <2> SUFFICES ASSUME NEW q \in DOMAIN errmap'
               PROVE  errmap'[q].cause \in Seq(Known(workmap)) /\ Chain(workmap, <<q>> \o errmap'[q].cause)
    BY <1>2 DEF ErrInv
  <2>1. CASE q \in hit
    BY <1>5, <1>6, <2>1
  <2>2. CASE q \notin hit
    BY <1>1, <1>5, <2>2 DEF ErrInv
  <2> QED BY <2>1, <2>2
<1>16. StackInv(stack)'
  <2>1. stack' \in Seq([pkg : Sound(workmap'), todo : SUBSET Known(workmap')]) /\ DOMAIN stack' = {}
    BY <1>2
  <2>2. \A x \in DOMAIN colors' : colors'[x] # "grey"
    BY <1>11
  <2> QED BY <2>1, <2>2 DEF StackInv
<1>17. CountedInv(stack, {})'
  BY <1>2 DEF CountedInv
<1> QED BY <1>12, <1>13, <1>14, <1>15, <1>16, <1>17 DEF Others

(* The path to a package, and the chain of imports it is. *)
LEMMA PathChain ==
  ASSUME Shape, NEW p, NEW calls, AtImport(p, calls),
         NEW c \in Seq(Known(workmap)), Chain(workmap, <<p>> \o c)
  PROVE  /\ Path(calls) \in Seq(Known(workmap))
         /\ Len(Path(calls)) = Len(calls)
         /\ \A k \in DOMAIN calls : Path(calls)[k] = calls[k].pkg
         /\ Append(Path(calls), p) \o c \in Seq(Known(workmap))
         /\ Chain(workmap, Append(Path(calls), p) \o c)
<1> DEFINE a == Path(calls)
<1>1. DOMAIN calls = 1..Len(calls) /\ Len(calls) \in Nat
  BY PathOf
<1>2. \A k \in DOMAIN calls : calls[k].pkg \in Known(workmap)
  BY PathOf
<1>3. a = [k \in 1..Len(calls) |-> calls[k].pkg]
  BY <1>1 DEF Path
<1>4. a \in Seq(Known(workmap)) /\ Len(a) = Len(calls) /\ \A k \in DOMAIN calls : a[k] = calls[k].pkg
  BY <1>1, <1>2, <1>3
<1> HIDE DEF a
<1>5. \A k \in 1..Len(a)-1 : a[k + 1] \in workmap[a[k]].in
  <2> TAKE k \in 1..Len(a)-1
  <2>1. k \in DOMAIN calls /\ k + 1 \in DOMAIN calls
    BY <1>1, <1>4
  <2>2. calls[k + 1].pkg \in workmap[calls[k].pkg].in
    BY <2>1 DEF AtImport, StackInv
  <2> QED BY <1>4, <2>1, <2>2
<1>6. Len(a) > 0 => p \in workmap[a[Len(a)]].in
  <2> SUFFICES ASSUME Len(a) > 0 PROVE p \in workmap[a[Len(a)]].in
    OBVIOUS
  <2>1. calls # <<>> /\ Len(calls) \in DOMAIN calls
    BY <1>1, <1>4
  <2>2. p \in workmap[calls[Len(calls)].pkg].in
    BY <2>1 DEF AtImport
  <2> QED BY <1>4, <2>1, <2>2
<1>7. p \in Known(workmap)
  BY DEF AtImport
<1>8. Append(a, p) \o c \in Seq(Known(workmap)) /\ Chain(workmap, Append(a, p) \o c)
  BY <1>4, <1>5, <1>6, <1>7, ChainJoin
<1> QED BY <1>4, <1>8 DEF a

(* What a broken package is reached from is not sound. *)
LEMMA BreakReaches ==
  ASSUME Shape, NEW p, NEW calls, AtImport(p, calls), ~(Reached(workmap, p) \subseteq Sound(workmap)),
         NEW x \in ToSet(Path(calls)) \cup {p}
  PROVE  ~(Reached(workmap, x) \subseteq Sound(workmap))
<1>1. CASE x = p
  BY <1>1
<1>2. CASE x \in ToSet(Path(calls))
  <2>1. x \in Known(workmap) /\ p \in Reached(workmap, x)
    BY <1>2, PathOf
  <2> QED BY <2>1, ReachedOn
<1> QED BY <1>1, <1>2

(* A broken package, with backprop, poisons the path to it. *)
LEMMA VisitBrokenPoisons ==
  ASSUME Others, NEW p, NEW calls, AtImport(p, calls), p \notin Sound(workmap),
         in.backprop, VisitBroken(p, calls), UNCHANGED <<in, workmap>>
  PROVE  Others' /\ StackInv(stack)' /\ CountedInv(stack, {})'
<1> DEFINE a    == Path(calls)
           path == Append(a, p)
           n    == Len(a)
<1>1. Shape
  BY DEF Others
<1>2. Poison(path, path, ErrorOf(p), ToSet(path))
  BY DEF VisitBroken
<1>3. Chain(workmap, <<p>> \o <<>>)
  <2>1. <<p>> \o <<>> = <<p>> /\ Chain(workmap, <<p>>)
    BY DEF Chain
  <2> QED BY <2>1
<1>4. p \in Known(workmap)
  BY DEF AtImport
<1>5. /\ a \in Seq(Known(workmap)) /\ n = Len(calls) /\ \A k \in DOMAIN calls : a[k] = calls[k].pkg
      /\ path \o <<>> \in Seq(Known(workmap)) /\ Chain(workmap, path \o <<>>)
  <2>1. <<>> \in Seq(Known(workmap))
    OBVIOUS
  <2> QED BY <1>1, <1>3, <2>1, PathChain
<1>6. path \in Seq(Known(workmap)) /\ path \o <<>> = path
  BY <1>4, <1>5
<1>7. Len(path) = n + 1 /\ (\A k \in 1..n : path[k] = a[k]) /\ path[n + 1] = p /\ n \in Nat /\ DOMAIN a = 1..n
  BY <1>4, <1>5
<1>8. Chain(workmap, path)
  BY <1>5, <1>6
<1>9. DOMAIN path = 1..Len(path) /\ Len(path) \in Nat
  BY <1>6
<1>10. ToSet(a) = {a[k] : k \in 1..n} /\ ToSet(path) = {path[k] : k \in 1..n+1}
  BY <1>7, <1>9 DEF ToSet
<1> HIDE DEF path, a, n
<1>11. ToSet(path) = ToSet(a) \cup {p}
  <2>1. \A k \in 1..n+1 : k \in 1..n \/ k = n + 1
    BY <1>7
  <2>2. 1..n \subseteq 1..n+1 /\ n + 1 \in 1..n+1
    BY <1>7
  <2> QED BY <1>7, <1>10, <2>1, <2>2
<1>12. \A k \in DOMAIN path : k < Len(path) => path[k] \in DOMAIN workmap
  <2> SUFFICES ASSUME NEW k \in DOMAIN path, k < Len(path) PROVE path[k] \in DOMAIN workmap
    OBVIOUS
  <2>1. k \in 1..n /\ path[k] \in ToSet(a)
    BY <1>7, <1>9, <1>10
  <2> QED BY <1>1, <2>1, PathOf DEF Sound, a
<1>13. \A x \in ToSet(path) : ~(Reached(workmap, x) \subseteq Sound(workmap))
  <2>1. ~(Reached(workmap, p) \subseteq Sound(workmap))
    BY <1>4, ReachedClosed
  <2> QED BY <1>1, <1>11, <2>1, BreakReaches DEF a
<1>14. \A k \in DOMAIN path : /\ SubSeq(path, k + 1, Len(path)) \in Seq(Known(workmap))
                              /\ Chain(workmap, <<path[k]>> \o SubSeq(path, k + 1, Len(path)))
  BY <1>6, <1>8, <1>9, ChainRest
<1>15. ToSet(Path(calls)) \subseteq ToSet(path) /\ ToSet(path) \subseteq ToSet(Path(calls)) \cup {p}
  BY <1>11 DEF a
<1> QED BY <1>2, <1>6, <1>9, <1>12, <1>13, <1>14, <1>15, PoisonKeeps

(* So does a package that was poisoned before. *)
LEMMA RevisitPoisons ==
  ASSUME Others, NEW p, NEW calls, AtImport(p, calls), p \in DOMAIN colors, colors[p] = "black",
         p \notin DOMAIN exrsets, in.backprop, Revisit(p, calls), UNCHANGED <<in, workmap>>
  PROVE  Others' /\ StackInv(stack)' /\ CountedInv(stack, {})'
<1> DEFINE a     == Path(calls)
           from  == IF p \in DOMAIN errmap THEN errmap[p] ELSE [cause |-> <<>>, err |-> "unknown"]
           cause == Append(a, p) \o from.cause
           n     == Len(a)
<1>1. Shape /\ BlackInv /\ ErrInv
  BY DEF Others
<1>2. Poison(a, cause, from.err, ToSet(a))
  BY DEF Revisit
<1>3. from.cause \in Seq(Known(workmap)) /\ Chain(workmap, <<p>> \o from.cause)
  <2>1. CASE p \in DOMAIN errmap
    BY <1>1, <2>1 DEF ErrInv
  <2>2. CASE p \notin DOMAIN errmap
    <3>1. from.cause = <<>>
      BY <2>2
    <3>2. p \notin DOMAIN workmap
      BY <1>1, <2>2 DEF Shape
    <3>3. p \notin Sound(workmap)
      BY <3>2 DEF Sound
    <3>4. <<p>> \o <<>> = <<p>> /\ Chain(workmap, <<p>>)
      BY <3>3 DEF Chain
    <3>5. <<>> \in Seq(Known(workmap))
      OBVIOUS
    <3> HIDE DEF from
    <3> QED BY <3>1, <3>4, <3>5
  <2> QED BY <2>1, <2>2
<1>4. p \in Known(workmap)
  BY DEF AtImport
<1> HIDE DEF from
<1>5. /\ a \in Seq(Known(workmap)) /\ n = Len(calls) /\ \A k \in DOMAIN calls : a[k] = calls[k].pkg
      /\ cause \in Seq(Known(workmap)) /\ Chain(workmap, cause)
  BY <1>1, <1>3, PathChain
<1>6. n \in Nat /\ DOMAIN a = 1..n /\ Len(cause) \in Nat /\ Len(cause) >= n /\ \A k \in 1..n : cause[k] = a[k]
  <2> HIDE DEF a
  <2>1. n \in Nat /\ DOMAIN a = 1..n
    BY <1>5
  <2>2. Append(a, p) \in Seq(Known(workmap)) /\ Len(Append(a, p)) = n + 1 /\ \A k \in 1..n : Append(a, p)[k] = a[k]
    BY <1>4, <1>5
  <2>3. PICK b \in Seq(Known(workmap)) : b = Append(a, p)
    BY <2>2
  <2>4. PICK c \in Seq(Known(workmap)) : c = from.cause
    BY <1>3
  <2>5. Len(b \o c) = Len(b) + Len(c) /\ Len(c) \in Nat /\ \A k \in 1..Len(b) : (b \o c)[k] = b[k]
    OBVIOUS
  <2>6. cause = b \o c /\ Len(b) = n + 1 /\ \A k \in 1..n : b[k] = a[k]
    BY <2>2, <2>3, <2>4
  <2> HIDE DEF cause, n
  <2> QED BY <2>1, <2>5, <2>6
<1> HIDE DEF a, cause
<1>7. \A k \in DOMAIN a : k < Len(a) => a[k] \in DOMAIN workmap
  <2> TAKE k \in DOMAIN a
  <2>1. a[k] \in ToSet(a)
    BY DEF ToSet
  <2> QED BY <1>1, <2>1, PathOf DEF Sound, a
<1>8. ~(Reached(workmap, p) \subseteq Sound(workmap))
  BY <1>1, <1>4, ReachedClosed DEF BlackInv
<1>9. \A x \in ToSet(a) : ~(Reached(workmap, x) \subseteq Sound(workmap))
  BY <1>1, <1>8, BreakReaches DEF a
<1>10. \A k \in DOMAIN a : /\ SubSeq(cause, k + 1, Len(cause)) \in Seq(Known(workmap))
                           /\ Chain(workmap, <<a[k]>> \o SubSeq(cause, k + 1, Len(cause)))
  <2> TAKE k \in DOMAIN a
  <2>1. k \in 1..Len(cause) /\ cause[k] = a[k]
    BY <1>6
  <2> QED BY <1>5, <2>1, ChainRest
<1>11. DOMAIN a = 1..Len(a) /\ Len(a) \in Nat
  BY <1>6
<1>12. ToSet(Path(calls)) \subseteq ToSet(a) /\ ToSet(a) \subseteq ToSet(Path(calls)) \cup {p}
  BY DEF a
<1> QED BY <1>2, <1>5, <1>7, <1>9, <1>10, <1>11, <1>12, PoisonKeeps

-----------------------------------------------------------------------------
(* dfe() returns, and the package is done. *)
LEMMA ReturnKeeps ==
  ASSUME Others, StackInv(stack), CountedInv(stack, {}), Return, UNCHANGED <<in, workmap>>
  PROVE  Others' /\ StackInv(stack)' /\ CountedInv(stack, {})'
<1> DEFINE n    == Len(stack)
           p    == stack[n].pkg
           Call == [pkg : Sound(workmap), todo : SUBSET Known(workmap)]
<1>1. Shape /\ BlackInv /\ FoundInv /\ ErrInv
  BY DEF Others
<1>2. stack \in Seq(Call) /\ stack # <<>>
  BY DEF StackInv, Return
<1> HIDE DEF Call
<1>3. /\ n \in Nat \ {0} /\ n \in DOMAIN stack /\ DOMAIN stack = 1..n /\ Last(stack) = stack[n]
      /\ Front(stack) \in Seq(Call) /\ Len(Front(stack)) = n - 1 /\ \A k \in 1..n-1 : Front(stack)[k] = stack[k]
  BY <1>2, FrontFacts, SeqFacts
<1>4. /\ stack[n].todo = {} /\ colors' = With(colors, {p}, "black") /\ stack' = Front(stack)
      /\ exrsets' = exrsets /\ inrsets' = inrsets /\ errmap' = errmap /\ in' = in /\ workmap' = workmap
  BY <1>3 DEF Return
<1>5. stack' \in Seq(Call) /\ DOMAIN stack' = 1..n-1 /\ \A k \in 1..n-1 : stack'[k] = stack[k]
  <2>1. DOMAIN Front(stack) = 1..Len(Front(stack))
    BY <1>3, SeqFacts
  <2> QED BY <1>3, <1>4, <2>1
<1>6. p \in DOMAIN exrsets /\ p \in DOMAIN colors /\ colors[p] = "grey"
  BY <1>1, <1>3 DEF StackInv, Shape
<1>7. \A k \in 1..n-1 : k \in DOMAIN stack /\ stack[k].pkg # p
  BY <1>3 DEF StackInv
<1> HIDE DEF n, p
<1>8. /\ DOMAIN colors' = DOMAIN colors /\ colors'[p] = "black"
      /\ colors' = [x \in DOMAIN colors' |-> colors'[x]]
      /\ \A x \in DOMAIN colors : x # p => colors'[x] = colors[x]
  BY <1>4, <1>6 DEF With
<1>9. Shape'
  <2>1. colors' \in [DOMAIN colors' -> {"grey", "black"}]
    BY <1>1, <1>8 DEF Shape
  <2>2. DOMAIN errmap' = {q \in DOMAIN workmap' \cap DOMAIN colors' : colors'[q] = "black"} \ DOMAIN exrsets'
    <3>1. DOMAIN errmap = {q \in DOMAIN workmap \cap DOMAIN colors : colors[q] = "black"} \ DOMAIN exrsets
      BY <1>1 DEF Shape
    <3> QED BY <1>4, <1>6, <1>8, <3>1
  <2> QED BY <1>1, <1>4, <1>8, <2>1, <2>2 DEF Shape
<1>10. \A r \in inrsets[p] : Counted(p, r)
  <2> TAKE r \in inrsets[p]
  <2>1. Counted(stack[n].pkg, r) \/ Pending(stack, n, r)
    BY <1>3 DEF CountedInv, p
  <2>2. ~Pending(stack, n, r)
    <3>1. \A j \in DOMAIN stack : n <= j => j = n
      BY <1>3
    <3> QED BY <1>4, <3>1 DEF Pending
  <2> QED BY <2>1, <2>2 DEF p
<1>11. BlackInv'
  <2> SUFFICES ASSUME NEW q \in DOMAIN colors', colors'[q] = "black"
               PROVE  IF q \in DOMAIN exrsets THEN \A r \in inrsets[q] : Counted(q, r)
                      ELSE q \notin Sound(workmap) \/ (in.backprop /\ ~(Reached(workmap, q) \subseteq Sound(workmap)))
    BY <1>4 DEF BlackInv, Counted
  <2>1. CASE q = p
    BY <1>6, <1>10, <2>1
  <2>2. CASE q # p
    BY <1>1, <1>8, <2>2 DEF BlackInv
  <2> QED BY <2>1, <2>2
<1>12. FoundInv' /\ ErrInv'
  BY <1>1, <1>4 DEF FoundInv, ErrInv
<1>13. StackInv(stack)'
  <2>1. stack' \in Seq([pkg : Sound(workmap'), todo : SUBSET Known(workmap')])
    BY <1>4, <1>5 DEF Call
  <2>2. \A k \in DOMAIN stack' : k \in DOMAIN stack /\ stack'[k] = stack[k] /\ stack[k].pkg # p
    BY <1>5, <1>7
  <2>3. \A i, j \in DOMAIN stack' : stack'[i].pkg = stack'[j].pkg => i = j
    BY <2>2 DEF StackInv
  <2>4. \A k \in DOMAIN stack' : stack'[k].pkg \in DOMAIN exrsets' /\ colors'[stack'[k].pkg] = "grey"
    <3> TAKE k \in DOMAIN stack'
    <3>1. stack[k].pkg \in DOMAIN exrsets /\ colors[stack[k].pkg] = "grey"
      BY <2>2 DEF StackInv
    <3>2. stack[k].pkg \in DOMAIN colors
      BY <1>1, <3>1 DEF Shape
    <3> QED BY <1>4, <1>8, <2>2, <3>1, <3>2
  <2>5. ASSUME NEW q \in DOMAIN colors', colors'[q] = "grey"
        PROVE  \E k \in DOMAIN stack' : stack'[k].pkg = q
    <3>1. q \in DOMAIN colors /\ colors[q] = "grey" /\ q # p
      BY <1>8, <2>5
    <3>2. PICK k \in 1..n : stack[k].pkg = q
      BY <1>3, <3>1 DEF StackInv
    <3>3. k \in 1..n-1
      BY <1>3, <3>1, <3>2 DEF p
    <3> QED BY <1>5, <3>2, <3>3
  <2>6. \A j, k \in DOMAIN stack' : k = j + 1 => stack'[k].pkg \in workmap'[stack'[j].pkg].in
    BY <1>4, <2>2 DEF StackInv
  <2>7. \A k \in DOMAIN stack' : stack'[k].todo \subseteq workmap'[stack'[k].pkg].in
    BY <1>4, <2>2 DEF StackInv
  <2>8. \A j, k \in DOMAIN stack' : j <= k =>
           /\ stack'[k].pkg \in Reached(workmap', stack'[j].pkg)
           /\ workmap'[stack'[k].pkg].in \subseteq inrsets'[stack'[j].pkg]
           /\ workmap'[stack'[k].pkg].ex \subseteq exrsets'[stack'[j].pkg]
    BY <1>4, <2>2 DEF StackInv
  <2> QED BY <2>1, <2>3, <2>4, <2>5, <2>6, <2>7, <2>8 DEF StackInv
<1>14. CountedInv(stack, {})'
  <2> SUFFICES ASSUME NEW k \in DOMAIN stack', NEW r \in inrsets[stack[k].pkg]
               PROVE  Counted(stack[k].pkg, r) \/ Pending(stack', k, r)
    BY <1>4, <1>5 DEF CountedInv, Pending, Counted
  <2>1. k \in DOMAIN stack /\ k \in 1..n-1
    BY <1>5, <1>7
  <2>2. Counted(stack[k].pkg, r) \/ Pending(stack, k, r)
    BY <2>1 DEF CountedInv
  <2>3. ASSUME Pending(stack, k, r) PROVE Pending(stack', k, r)
    <3>1. PICK j \in 1..n : k <= j /\ r \in stack[j].todo
      BY <1>3, <2>3 DEF Pending
    <3>2. j \in 1..n-1
      BY <1>3, <1>4, <3>1
    <3> QED BY <1>5, <3>1, <3>2 DEF Pending
  <2> QED BY <2>2, <2>3
<1> QED BY <1>9, <1>11, <1>12, <1>13, <1>14 DEF Others

(* Whatever dfe() does with a package that is next. *)
LEMMA VisitKeeps ==
  ASSUME Others, NEW p, NEW calls, AtImport(p, calls), p \notin DOMAIN colors,
         Visit(p, calls), UNCHANGED <<in, workmap>>
  PROVE  Others' /\ StackInv(stack)' /\ CountedInv(stack, {})'
<1>1. Broken(p) <=> p \notin Sound(workmap)
  BY DEF Broken, Sound
<1>2. CASE Broken(p) /\ in.backprop
  <2>1. VisitBroken(p, calls)
    BY <1>2 DEF Visit
  <2> QED BY <1>1, <1>2, <2>1, VisitBrokenPoisons
<1>3. CASE Broken(p) /\ ~in.backprop
  <2>1. VisitBroken(p, calls)
    BY <1>3 DEF Visit
  <2> QED BY <1>1, <1>3, <2>1, VisitBrokenKeeps
<1>4. CASE ~Broken(p)
  <2>1. VisitSound(p, calls)
    BY <1>4 DEF Visit
  <2> QED BY <1>1, <1>4, <2>1, VisitSoundKeeps
<1> QED BY <1>2, <1>3, <1>4

(* The next import is visited, visited again or skipped. *)
LEMMA ImportKeeps ==
  ASSUME Acyclic(workmap), Others, StackInv(stack), CountedInv(stack, {}), stack # <<>>,
         NEW p \in Last(stack).todo, Import(p), UNCHANGED <<in, workmap>>
  PROVE  Others' /\ StackInv(stack)' /\ CountedInv(stack, {})'
<1> DEFINE calls == Append(Front(stack), [Last(stack) EXCEPT !.todo = @ \ {p}])
<1>1. CASE Color(p) = "white" /\ Visit(p, calls)
  <2>1. p \notin DOMAIN colors
    BY <1>1 DEF Color, Others, Shape
  <2>2. AtImport(p, calls)
    BY ImportCalls
  <2> QED BY <1>1, <2>1, <2>2, VisitKeeps
<1>2. CASE Color(p) = "black" /\ Revisit(p, calls)
  <2>1. p \in DOMAIN colors /\ colors[p] = "black"
    BY <1>2 DEF Color
  <2>2. AtImport(p, calls)
    BY ImportCalls
  <2> HIDE DEF calls
  <2>3. CASE p \in DOMAIN exrsets
    BY <1>2, <2>1, <2>2, <2>3, RevisitKeeps
  <2>4. CASE p \notin DOMAIN exrsets /\ in.backprop
    BY <1>2, <2>1, <2>2, <2>4, RevisitPoisons
  <2>5. CASE p \notin DOMAIN exrsets /\ ~in.backprop
    <3>1. p \notin Sound(workmap)
      BY <2>1, <2>5 DEF Others, BlackInv
    <3>2. \A k \in DOMAIN calls : Counted(calls[k].pkg, p)
      BY <2>5, <3>1 DEF Counted
    <3>3. stack' = calls /\ UNCHANGED <<colors, exrsets, inrsets, errmap>>
      BY <1>2, <2>5 DEF Revisit
    <3> QED BY <2>2, <3>2, <3>3, SkipKeeps
  <2> QED BY <2>3, <2>4, <2>5
<1>3. CASE Color(p) = "grey" /\ stack' = calls /\ UNCHANGED <<colors, exrsets, inrsets, errmap>>
  <2>1. p \in DOMAIN colors /\ colors[p] = "grey"
    BY <1>3 DEF Color
  <2>2. AtImport(p, calls)
    BY ImportCalls
  <2> HIDE DEF calls
  <2>3. \A k \in DOMAIN calls : Counted(calls[k].pkg, p)
    BY <2>1, <2>2, GreyCounted DEF Others
  <2> QED BY <1>3, <2>2, <2>3, SkipKeeps
<1>4. Color(p) \in {"white", "black", "grey"}
  BY DEF Color, Others, Shape
<1>5. CASE Color(p) = "white"
  BY <1>1, <1>5 DEF Import
<1>6. CASE Color(p) = "black"
  BY <1>2, <1>6 DEF Import
<1>7. CASE Color(p) = "grey"
  BY <1>3, <1>7 DEF Import
<1> QED BY <1>4, <1>5, <1>6, <1>7

(* A walk starts from a package that is not done. *)
LEMMA StartKeeps ==
  ASSUME Others, StackInv(stack), CountedInv(stack, {}), NEW p \in DOMAIN workmap, Start(p),
         UNCHANGED <<in, workmap>>
  PROVE  Others' /\ StackInv(stack)' /\ CountedInv(stack, {})'
<1>1. stack = <<>> /\ Color(p) # "black" /\ Visit(p, <<>>)
  BY DEF Start
<1>2. p \notin DOMAIN colors
  <2> SUFFICES ASSUME p \in DOMAIN colors PROVE FALSE
    OBVIOUS
  <2>1. colors[p] = "grey"
    BY <1>1 DEF Color, Others, Shape
  <2>2. \E k \in DOMAIN stack : stack[k].pkg = p
    BY <2>1 DEF StackInv
  <2> QED BY <1>1, <2>2
<1>3. StackInv(<<>>) /\ CountedInv(<<>>, {p})
  BY <1>1 DEF CountedInv
<1>4. AtImport(p, <<>>)
  BY <1>3 DEF AtImport, Known
<1> QED BY <1>1, <1>2, <1>4, VisitKeeps

(* ToReachMap() starts with nothing found. *)
LEMMA InitReach ==
  ASSUME ReachInit
  PROVE  ReachInv
<1>1. PICK input \in Inputs : ToReachMap(input)
  BY DEF ReachInit
<1>2. InputInv
  BY <1>1 DEF ToReachMap, InputInv
<1>3. colors = <<>> /\ exrsets = <<>> /\ inrsets = <<>> /\ errmap = <<>> /\ stack = <<>>
  BY <1>1 DEF ToReachMap
<1>4. DOMAIN colors = {} /\ DOMAIN exrsets = {} /\ DOMAIN inrsets = {} /\ DOMAIN errmap = {} /\ DOMAIN stack = {}
  BY <1>3
<1>5. Shape
  <2>1. <<>> = [x \in {} |-> x]
    OBVIOUS
  <2> QED BY <1>3, <1>4, <2>1 DEF Shape
<1>6. StackInv(stack) /\ CountedInv(stack, {})
  BY <1>3, <1>4 DEF StackInv, CountedInv
<1> QED BY <1>2, <1>4, <1>5, <1>6 DEF ReachInv, BlackInv, FoundInv, ErrInv

(* Every step keeps the invariant. *)
LEMMA StepReach ==
  ASSUME AcyclicImports, ReachInv, [ReachNext]_reachVars
  PROVE  ReachInv'
<1>1. Acyclic(workmap)
  BY DEF AcyclicImports, ReachInv, InputInv
<1>2. Others /\ StackInv(stack) /\ CountedInv(stack, {}) /\ InputInv
  BY DEF ReachInv, Others
<1>3. CASE UNCHANGED reachVars
  <2>1. InputInv' /\ Shape'
    BY <1>2, <1>3 DEF reachVars, InputInv, Others, Shape
  <2>2. StackInv(stack)'
    BY <1>2, <1>3 DEF reachVars, StackInv
  <2>3. CountedInv(stack, {})'
    BY <1>2, <1>3 DEF reachVars, CountedInv, Counted, Pending
  <2>4. BlackInv' /\ FoundInv' /\ ErrInv'
    BY <1>2, <1>3 DEF reachVars, Others, BlackInv, FoundInv, ErrInv, Counted
  <2> QED BY <2>1, <2>2, <2>3, <2>4 DEF ReachInv
<1>4. CASE ReachNext
  <2>1. UNCHANGED <<in, workmap>>
    BY <1>4 DEF ReachNext
  <2>2. Others' /\ StackInv(stack)' /\ CountedInv(stack, {})'
    <3>1. CASE \E p \in DOMAIN workmap : Start(p)
      BY <1>2, <2>1, <3>1, StartKeeps
    <3>2. CASE stack # <<>> /\ \E p \in Last(stack).todo : Import(p)
      BY <1>1, <1>2, <2>1, <3>2, ImportKeeps
    <3>3. CASE Return
      BY <1>2, <2>1, <3>3, ReturnKeeps
    <3> QED BY <1>4, <3>1, <3>2, <3>3 DEF ReachNext
  <2>3. InputInv'
    BY <1>2, <2>1 DEF InputInv
  <2> QED BY <2>2, <2>3 DEF ReachInv, Others
<1> QED BY <1>3, <1>4

(* What ToReachMap() finds is what the packages reach, and a tree without  *)
(* its hidden packages reaches the same, for whatever order the maps of    *)
(* wmToReach() are ranged over.                                            *)
THEOREM ReachMapIsRight ==
  ASSUME AcyclicImports
  PROVE  ReachSpec => []ReachRight
<1>1. ReachInit => ReachInv
  BY InitReach
<1>2. ReachInv /\ [ReachNext]_reachVars => ReachInv'
  BY StepReach
<1>3. ReachInv => ReachRight
  BY DoneIsClosure, DoneTrims DEF ReachRight
<1> QED BY <1>1, <1>2, <1>3, PTL DEF ReachSpec

-----------------------------------------------------------------------------
(* The orders of versions. *)

(* Versions without their revisions, and bare revisions. *)
AllVersions == Unpaired \cup Bare

(* A version is compared by its type first. *)
LEMMA vLessByType ==
  ASSUME NEW x \in AllVersions, NEW y \in AllVersions, NEW down \in BOOLEAN
  PROVE  /\ x.k \in {"branch", "plain", "semver", "revision"}
         /\ TypeRank(x) \in 1..4 /\ TypeRank(y) \in 1..4
         /\ TypeRank(x) = TypeRank(y) <=> x.k = y.k
         /\ vLess(x, y, down) <=> \/ TypeRank(x) < TypeRank(y)
                                  \/ x.k = y.k /\ vLessSame(x, y, down)
<1>1. x.k \in {"branch", "plain", "semver", "revision"} /\ y.k \in {"branch", "plain", "semver", "revision"}
  BY DEF AllVersions, Unpaired, Branches, Tags, Semvers, Bare
<1>2. Unpair(x) = x /\ Unpair(y) = y
  BY <1>1 DEF Unpair
<1>3. /\ TypeRank(x) \in 1..4 /\ TypeRank(y) \in 1..4
      /\ TypeRank(x) = TypeRank(y) <=> x.k = y.k
  BY <1>1 DEF TypeRank
<1> QED BY <1>1, <1>2, <1>3 DEF vLess, compareVersionType

(* Versions of a type are told apart by their names and numbers. *)
LEMMA SameVersion ==
  /\ \A x, y \in Branches : x = y <=> x.name = y.name /\ x.isDefault = y.isDefault
  /\ \A x, y \in Tags : x = y <=> x.name = y.name
  /\ \A x, y \in Semvers : x = y <=> x.num = y.num /\ x.pre = y.pre
  /\ \A x, y \in Bare : x = y <=> x.r = y.r
<1>1. ASSUME NEW x \in Branches, NEW y \in Branches, x.name = y.name, x.isDefault = y.isDefault
      PROVE  x = y
  BY <1>1 DEF Branches
<1>2. ASSUME NEW x \in Tags, NEW y \in Tags, x.name = y.name
      PROVE  x = y
  BY <1>2 DEF Tags
<1>3. ASSUME NEW x \in Semvers, NEW y \in Semvers, x.num = y.num, x.pre = y.pre
      PROVE  x = y
  BY <1>3 DEF Semvers
<1>4. ASSUME NEW x \in Bare, NEW y \in Bare, x.r = y.r
      PROVE  x = y
  BY <1>4 DEF Bare
<1> QED BY <1>1, <1>2, <1>3, <1>4

(* What vLess() compares, for each type. *)
LEMMA vLessSameOf ==
  ASSUME NEW down \in BOOLEAN
  PROVE  /\ \A x, y \in Branches :
              vLessSame(x, y, down) <=> IF x.isDefault # y.isDefault THEN x.isDefault ELSE x.name < y.name
         /\ \A x, y \in Tags : vLessSame(x, y, down) <=> x.name < y.name
         /\ \A x, y \in Bare : vLessSame(x, y, down) <=> x.r < y.r
         /\ \A x, y \in Semvers :
              vLessSame(x, y, down) <=>
                IF (x.pre = 0) # (y.pre = 0) THEN x.pre = 0
                ELSE IF down THEN SemverLess(x, y) ELSE SemverLess(y, x)
<1>1. ASSUME NEW x \in Branches, NEW y \in Branches
      PROVE  vLessSame(x, y, down) <=> IF x.isDefault # y.isDefault THEN x.isDefault ELSE x.name < y.name
  BY <1>1 DEF Branches, vLessSame
<1>2. ASSUME NEW x \in Tags, NEW y \in Tags
      PROVE  vLessSame(x, y, down) <=> x.name < y.name
  BY <1>2 DEF Tags, vLessSame
<1>3. ASSUME NEW x \in Bare, NEW y \in Bare
      PROVE  vLessSame(x, y, down) <=> x.r < y.r
  BY <1>3 DEF Bare, vLessSame
<1>4. ASSUME NEW x \in Semvers, NEW y \in Semvers
      PROVE  vLessSame(x, y, down) <=>
                IF (x.pre = 0) # (y.pre = 0) THEN x.pre = 0
                ELSE IF down THEN SemverLess(x, y) ELSE SemverLess(y, x)
  BY <1>4 DEF Semvers, vLessSame
<1> QED BY <1>1, <1>2, <1>3, <1>4

(* The versions of one type are ordered. *)
LEMMA BranchOrder ==
  ASSUME NEW x \in Branches, NEW y \in Branches, NEW z \in Branches, NEW down \in BOOLEAN
  PROVE  /\ vLessSame(x, y, down) <=> (x # y /\ ~vLessSame(y, x, down))
         /\ vLessSame(x, y, down) /\ vLessSame(y, z, down) => vLessSame(x, z, down)
<1>1. x.name \in Nat /\ y.name \in Nat /\ z.name \in Nat
  BY DEF Branches
<1>2. x.isDefault \in BOOLEAN /\ y.isDefault \in BOOLEAN /\ z.isDefault \in BOOLEAN
  BY DEF Branches
<1>3. vLessSame(x, y, down) <=> (x # y /\ ~vLessSame(y, x, down))
  BY <1>1, <1>2, vLessSameOf, SameVersion
<1>4. vLessSame(x, y, down) /\ vLessSame(y, z, down) => vLessSame(x, z, down)
  BY <1>1, <1>2, vLessSameOf
<1> QED BY <1>3, <1>4

(* Plain versions are ordered by their names. *)
LEMMA TagOrder ==
  ASSUME NEW x \in Tags, NEW y \in Tags, NEW z \in Tags, NEW down \in BOOLEAN
  PROVE  /\ vLessSame(x, y, down) <=> (x # y /\ ~vLessSame(y, x, down))
         /\ vLessSame(x, y, down) /\ vLessSame(y, z, down) => vLessSame(x, z, down)
<1>1. x.name \in Nat /\ y.name \in Nat /\ z.name \in Nat
  BY DEF Tags
<1>2. vLessSame(x, y, down) <=> (x # y /\ ~vLessSame(y, x, down))
  BY <1>1, vLessSameOf, SameVersion
<1>3. vLessSame(x, y, down) /\ vLessSame(y, z, down) => vLessSame(x, z, down)
  BY <1>1, vLessSameOf
<1> QED BY <1>2, <1>3

(* Bare revisions are ordered by their names. *)
LEMMA RevisionOrder ==
  ASSUME NEW x \in Bare, NEW y \in Bare, NEW z \in Bare, NEW down \in BOOLEAN
  PROVE  /\ vLessSame(x, y, down) <=> (x # y /\ ~vLessSame(y, x, down))
         /\ vLessSame(x, y, down) /\ vLessSame(y, z, down) => vLessSame(x, z, down)
<1>1. x.r \in Nat /\ y.r \in Nat /\ z.r \in Nat
  BY DEF Bare
<1>2. vLessSame(x, y, down) <=> (x # y /\ ~vLessSame(y, x, down))
  BY <1>1, vLessSameOf, SameVersion
<1>3. vLessSame(x, y, down) /\ vLessSame(y, z, down) => vLessSame(x, z, down)
  BY <1>1, vLessSameOf
<1> QED BY <1>2, <1>3

(* Semantic versions have releases first, then prereleases. *)
LEMMA SemverOrder ==
  ASSUME NEW x \in Semvers, NEW y \in Semvers, NEW z \in Semvers, NEW down \in BOOLEAN
  PROVE  /\ vLessSame(x, y, down) <=> (x # y /\ ~vLessSame(y, x, down))
         /\ vLessSame(x, y, down) /\ vLessSame(y, z, down) => vLessSame(x, z, down)
<1>1. /\ x.num \in Nat /\ y.num \in Nat /\ z.num \in Nat
      /\ x.pre \in Nat /\ y.pre \in Nat /\ z.pre \in Nat
  BY DEF Semvers
<1>2. vLessSame(x, y, down) <=> (x # y /\ ~vLessSame(y, x, down))
  BY <1>1, vLessSameOf, SameVersion DEF SemverLess
<1>3. vLessSame(x, y, down) /\ vLessSame(y, z, down) => vLessSame(x, z, down)
  BY <1>1, vLessSameOf DEF SemverLess
<1> QED BY <1>2, <1>3

(* The two orders agree, but for the order among releases and among        *)
(* prereleases, which is reversed.                                         *)
LEMMA UpAndDown ==
  /\ \A x, y \in Branches : vLessSame(x, y, FALSE) <=> vLessSame(x, y, TRUE)
  /\ \A x, y \in Tags : vLessSame(x, y, FALSE) <=> vLessSame(x, y, TRUE)
  /\ \A x, y \in Bare : vLessSame(x, y, FALSE) <=> vLessSame(x, y, TRUE)
  /\ \A x, y \in Semvers :
       /\ (x.pre = 0 <=> y.pre = 0) => (vLessSame(x, y, FALSE) <=> vLessSame(y, x, TRUE))
       /\ ~(x.pre = 0 <=> y.pre = 0) => (vLessSame(x, y, FALSE) <=> vLessSame(x, y, TRUE))
       /\ x.pre = 0 /\ y.pre # 0 => vLessSame(x, y, FALSE)
<1>1. ASSUME NEW x \in Branches, NEW y \in Branches
      PROVE  vLessSame(x, y, FALSE) <=> vLessSame(x, y, TRUE)
  BY vLessSameOf
<1>2. ASSUME NEW x \in Tags, NEW y \in Tags
      PROVE  vLessSame(x, y, FALSE) <=> vLessSame(x, y, TRUE)
  BY vLessSameOf
<1>3. ASSUME NEW x \in Bare, NEW y \in Bare
      PROVE  vLessSame(x, y, FALSE) <=> vLessSame(x, y, TRUE)
  BY vLessSameOf
<1>4. ASSUME NEW x \in Semvers, NEW y \in Semvers
      PROVE  /\ (x.pre = 0 <=> y.pre = 0) => (vLessSame(x, y, FALSE) <=> vLessSame(y, x, TRUE))
             /\ ~(x.pre = 0 <=> y.pre = 0) => (vLessSame(x, y, FALSE) <=> vLessSame(x, y, TRUE))
             /\ x.pre = 0 /\ y.pre # 0 => vLessSame(x, y, FALSE)
  <2>1. vLessSame(x, y, FALSE) <=> IF (x.pre = 0) # (y.pre = 0) THEN x.pre = 0 ELSE SemverLess(y, x)
    BY vLessSameOf
  <2>2. vLessSame(x, y, TRUE) <=> IF (x.pre = 0) # (y.pre = 0) THEN x.pre = 0 ELSE SemverLess(x, y)
    BY vLessSameOf
  <2>3. vLessSame(y, x, TRUE) <=> IF (y.pre = 0) # (x.pre = 0) THEN y.pre = 0 ELSE SemverLess(y, x)
    BY vLessSameOf
  <2> QED BY <2>1, <2>2, <2>3
<1> QED BY <1>1, <1>2, <1>3, <1>4

(* A version has the type its record says. *)
LEMMA OfType ==
  \A x \in AllVersions : /\ x.k = "branch" => x \in Branches
                         /\ x.k = "plain" => x \in Tags
                         /\ x.k = "semver" => x \in Semvers
                         /\ x.k = "revision" => x \in Bare
<1>1. \A x : /\ x \in Branches => x.k = "branch"
             /\ x \in Tags => x.k = "plain"
             /\ x \in Semvers => x.k = "semver"
             /\ x \in Bare => x.k = "revision"
  BY DEF Branches, Tags, Semvers, Bare
<1> QED BY <1>1 DEF AllVersions, Unpaired

(* Whatever versions a source lists, SortForUpgrade() and                  *)
(* SortForDowngrade() order them strictly and totally, so that the order   *)
(* in which the solver tries them does not depend on the list's; they      *)
(* differ in the order among releases and among prereleases only, and      *)
(* releases come first.                                                    *)
THEOREM VersionOrders ==
  ASSUME NEW versions \in SUBSET AllVersions
  PROVE  OrdersTotal(versions)
<1>1. ASSUME NEW down \in BOOLEAN, NEW x \in versions, NEW y \in versions
      PROVE  vLess(x, y, down) <=> (x # y /\ ~vLess(y, x, down))
  <2>0. x \in AllVersions /\ y \in AllVersions
    OBVIOUS
  <2>1. x.k = y.k => (vLessSame(x, y, down) <=> (x # y /\ ~vLessSame(y, x, down)))
    <3> SUFFICES ASSUME x.k = y.k
                 PROVE  vLessSame(x, y, down) <=> (x # y /\ ~vLessSame(y, x, down))
      OBVIOUS
    <3>1. CASE x.k = "branch"
      <4>1. x \in Branches /\ y \in Branches
        BY <2>0, <3>1, OfType
      <4> QED BY <4>1, BranchOrder
    <3>2. CASE x.k = "plain"
      <4>1. x \in Tags /\ y \in Tags
        BY <2>0, <3>2, OfType
      <4> QED BY <4>1, TagOrder
    <3>3. CASE x.k = "semver"
      <4>1. x \in Semvers /\ y \in Semvers
        BY <2>0, <3>3, OfType
      <4> QED BY <4>1, SemverOrder
    <3>4. CASE x.k = "revision"
      <4>1. x \in Bare /\ y \in Bare
        BY <2>0, <3>4, OfType
      <4> QED BY <4>1, RevisionOrder
    <3> QED BY <2>0, <3>1, <3>2, <3>3, <3>4, vLessByType
  <2> QED BY <2>0, <2>1, vLessByType
<1>2. ASSUME NEW down \in BOOLEAN, NEW x \in versions, NEW y \in versions, NEW z \in versions,
             vLess(x, y, down), vLess(y, z, down)
      PROVE  vLess(x, z, down)
  <2>0. x \in AllVersions /\ y \in AllVersions /\ z \in AllVersions
    OBVIOUS
  <2>1. x.k = y.k /\ y.k = z.k /\ vLessSame(x, y, down) /\ vLessSame(y, z, down) => vLessSame(x, z, down)
    <3> SUFFICES ASSUME x.k = y.k, y.k = z.k, vLessSame(x, y, down), vLessSame(y, z, down)
                 PROVE  vLessSame(x, z, down)
      OBVIOUS
    <3>1. CASE x.k = "branch"
      <4>1. x \in Branches /\ y \in Branches /\ z \in Branches
        BY <2>0, <3>1, OfType
      <4> QED BY <4>1, BranchOrder
    <3>2. CASE x.k = "plain"
      <4>1. x \in Tags /\ y \in Tags /\ z \in Tags
        BY <2>0, <3>2, OfType
      <4> QED BY <4>1, TagOrder
    <3>3. CASE x.k = "semver"
      <4>1. x \in Semvers /\ y \in Semvers /\ z \in Semvers
        BY <2>0, <3>3, OfType
      <4> QED BY <4>1, SemverOrder
    <3>4. CASE x.k = "revision"
      <4>1. x \in Bare /\ y \in Bare /\ z \in Bare
        BY <2>0, <3>4, OfType
      <4> QED BY <4>1, RevisionOrder
    <3> QED BY <2>0, <3>1, <3>2, <3>3, <3>4, vLessByType
  <2> QED BY <1>2, <2>0, <2>1, vLessByType
<1>3. ASSUME NEW x \in versions, NEW y \in versions
      PROVE  LET Release(v) == v.k = "semver" /\ v.pre = 0
                 reversed   == x.k = "semver" /\ y.k = "semver" /\ (Release(x) <=> Release(y))
             IN /\ vLess(x, y, FALSE) <=> vLess(IF reversed THEN y ELSE x, IF reversed THEN x ELSE y, TRUE)
                /\ Release(x) /\ ~Release(y) => vLess(x, y, FALSE)
  <2> DEFINE Release(v) == v.k = "semver" /\ v.pre = 0
             reversed   == x.k = "semver" /\ y.k = "semver" /\ (Release(x) <=> Release(y))
  <2>1. CASE reversed
    <3>1. vLessSame(x, y, FALSE) <=> vLessSame(y, x, TRUE)
      BY <2>1, OfType, UpAndDown
    <3> QED BY <2>1, <3>1, vLessByType
  <2>2. CASE ~reversed
    <3>1. x.k = y.k => (vLessSame(x, y, FALSE) <=> vLessSame(x, y, TRUE))
      BY <2>2, vLessByType, OfType, UpAndDown
    <3>2. vLess(x, y, FALSE) <=> vLess(x, y, TRUE)
      BY <3>1, vLessByType
    <3>3. Release(x) /\ ~Release(y) => vLess(x, y, FALSE)
      <4> SUFFICES ASSUME Release(x), ~Release(y) PROVE vLess(x, y, FALSE)
        OBVIOUS
      <4>1. CASE y.k = "semver"
        BY <4>1, OfType, UpAndDown, vLessByType
      <4>2. CASE y.k # "semver"
        <5>1. y.k \in {"branch", "plain", "revision"}
          BY <4>2, vLessByType
        <5>2. TypeRank(x) = 1 /\ TypeRank(y) > 1
          BY <5>1 DEF TypeRank
        <5> QED BY <5>2, vLessByType
      <4> QED BY <4>1, <4>2
    <3> QED BY <2>2, <3>2, <3>3
  <2> QED BY <2>1, <2>2
<1> QED BY <1>1, <1>2, <1>3 DEF OrdersTotal

-----------------------------------------------------------------------------
(* The version unifier. *)

(* What a source can list and what can be asked of it, as versions. *)
Vers == Unpaired \cup Bare \cup Paired

(* The kinds of versions. *)
LEMMA Kinds ==
  /\ \A v \in Unpaired : v.k \in {"branch", "plain", "semver"} /\ IsUnpaired(v) /\ IsVersion(v) /\ Unpair(v) = v
  /\ \A v \in Bare : v.k = "revision" /\ ~IsUnpaired(v) /\ IsVersion(v) /\ Unpair(v) = v /\ v.r \in Nat
  /\ \A v \in Paired : v.k = "pair" /\ ~IsUnpaired(v) /\ IsVersion(v) /\ Unpair(v) = v.v /\ v.v \in Unpaired /\ v.r \in Nat
  /\ \A c \in Ranges : c.k = "range" /\ ~IsUnpaired(c) /\ ~IsVersion(c) /\ c.sem \in SUBSET Semvers
  /\ any.k = "any" /\ none.k = "none" /\ ~IsVersion(any) /\ ~IsVersion(none)
  /\ \A r \in Nat : Revision(r) \in Bare /\ Revision(r).r = r
<1>1. \A v \in Unpaired : v.k \in {"branch", "plain", "semver"}
  BY DEF Unpaired, Branches, Tags, Semvers
<1>2. \A v \in Bare : v.k = "revision" /\ v.r \in Nat
  BY DEF Bare
<1>3. \A v \in Paired : v.k = "pair" /\ v.v \in Unpaired /\ v.r \in Nat
  BY DEF Paired
<1>4. \A c \in Ranges : c.k = "range" /\ c.sem \in SUBSET Semvers
  BY DEF Ranges
<1>5. any.k = "any" /\ none.k = "none"
  BY DEF any, none
<1>6. \A r \in Nat : Revision(r) \in Bare /\ Revision(r).r = r
  BY DEF Revision, Bare
<1> QED BY <1>1, <1>2, <1>3, <1>4, <1>5, <1>6 DEF IsUnpaired, IsVersion, Unpair

(* No version or constraint is of two types. *)
LEMMA DistinctKinds ==
  /\ \A v \in Unpaired : v \notin Bare /\ v \notin Paired /\ v \notin Ranges /\ v # any /\ v # none
  /\ \A v \in Bare : v \notin Unpaired /\ v \notin Paired /\ v \notin Ranges /\ v # any /\ v # none
  /\ \A v \in Paired : v \notin Unpaired /\ v \notin Bare /\ v \notin Ranges /\ v # any /\ v # none
  /\ \A v \in Ranges : v \notin Unpaired /\ v \notin Bare /\ v \notin Paired /\ v # any /\ v # none
  /\ any # none
BY Kinds

(* Names are the same or not, in either order. *)
LEMMA NamesSame ==
  ASSUME NEW v \in Unpaired, NEW w \in Unpaired
  PROVE  /\ SameName(v, v) /\ SameName(v, w) \in BOOLEAN
         /\ SameName(v, w) <=> SameName(w, v)
         /\ \A x \in Unpaired : SameName(v, w) => (SameName(v, x) <=> SameName(w, x))
         /\ \A x \in Bare : ~SameName(v, x)
         /\ \A S \in SUBSET Semvers : SameName(v, w) => (v \in S <=> w \in S)
<1>1. SameName(v, v) /\ SameName(v, w) \in BOOLEAN /\ (SameName(v, w) <=> SameName(w, v))
  BY Kinds DEF SameName
<1>2. ASSUME NEW x \in Unpaired, SameName(v, w)
      PROVE  SameName(v, x) <=> SameName(w, x)
  BY <1>2, Kinds DEF SameName
<1>3. \A x \in Bare : ~SameName(v, x)
  BY Kinds DEF SameName
<1>4. ASSUME NEW S \in SUBSET Semvers, SameName(v, w)
      PROVE  v \in S <=> w \in S
  <2>1. \A x \in Unpaired : x \in Semvers <=> x.k = "semver"
    BY DEF Unpaired, Branches, Tags, Semvers
  <2>2. v \in Semvers /\ w \in Semvers => v = w
    BY <1>4 DEF SameName, Semvers
  <2>3. v \in Semvers <=> w \in Semvers
    BY <2>1, <1>4 DEF SameName
  <2> QED BY <2>2, <2>3
<1> QED BY <1>1, <1>2, <1>3, <1>4

(* Matches() for each two types. *)
LEMMA MatchesOf ==
  /\ \A c \in Bare, v \in Unpaired : ~Matches1(c, v)
  /\ \A c \in Bare, v \in Bare \cup Paired : Matches1(c, v) <=> c.r = v.r
  /\ \A c \in Unpaired, v \in Unpaired : Matches1(c, v) <=> SameName(c, v)
  /\ \A c \in Unpaired, v \in Bare : ~Matches1(c, v)
  /\ \A c \in Unpaired, v \in Paired : Matches1(c, v) <=> SameName(c, v.v)
  /\ \A c \in Paired, v \in Unpaired : Matches1(c, v) <=> SameName(c.v, v)
  /\ \A c \in Paired, v \in Bare \cup Paired : Matches1(c, v) <=> c.r = v.r
  /\ \A c \in Ranges, v \in Vers : Matches1(c, v) <=> Admits(c, v)
<1>1. ASSUME NEW c \in Bare, NEW v \in Vers
      PROVE  Matches1(c, v) <=> v.k \in {"revision", "pair"} /\ c.r = v.r
  BY Kinds DEF Matches1
<1>2. ASSUME NEW c \in Unpaired, NEW v \in Vers
      PROVE  Matches1(c, v) <=> SameName(c, Unpair(v))
  BY Kinds DEF Matches1
<1>3. ASSUME NEW c \in Paired, NEW v \in Vers
      PROVE  Matches1(c, v) <=> IF IsUnpaired(v) THEN SameName(c.v, v) ELSE c.r = v.r
  BY Kinds DEF Matches1
<1>4. ASSUME NEW c \in Ranges, NEW v \in Vers
      PROVE  Matches1(c, v) <=> Admits(c, v)
  BY Kinds DEF Matches1
<1> QED BY <1>1, <1>2, <1>3, <1>4, Kinds, NamesSame DEF Vers

(* A range admits semantic versions, with or without a revision. *)
LEMMA AdmitsOf ==
  /\ \A c \in Ranges, v \in Unpaired : Admits(c, v) <=> v \in c.sem
  /\ \A c \in Ranges, v \in Bare : ~Admits(c, v)
  /\ \A c \in Ranges, v \in Paired : Admits(c, v) <=> v.v \in c.sem
<1>1. \A v \in Semvers : v.k = "semver"
  BY DEF Semvers
<1> QED BY <1>1, Kinds DEF Admits

-----------------------------------------------------------------------------
(* The revisions that constraints stand for at a source. *)

(* A list of a source, without two versions of one name. *)
Listing(vl) == vl \in Seq(Paired) /\ OneName(vl)

(* What is at each place of a list. *)
LEMMA ListingOf ==
  ASSUME NEW vl, Listing(vl)
  PROVE  /\ DOMAIN vl \subseteq Nat /\ 0 \notin DOMAIN vl
         /\ \A i \in DOMAIN vl : vl[i] \in Paired /\ vl[i] \in Vers /\ vl[i].v \in Unpaired /\ vl[i].r \in Nat
         /\ \A i, j \in DOMAIN vl : SameName(vl[i].v, vl[j].v) => i = j
         /\ ToSet(vl) = {vl[i] : i \in DOMAIN vl}
<1>1. DOMAIN vl \subseteq Nat /\ 0 \notin DOMAIN vl /\ \A i \in DOMAIN vl : vl[i] \in Paired
  BY DEF Listing
<1> QED BY <1>1, Kinds DEF Listing, OneName, ToSet, Vers

(* A version is listed at one place, or at none. *)
LEMMA PlacesOf ==
  ASSUME NEW vl, Listing(vl), NEW x \in Unpaired
  PROVE  /\ Places(vl, x) = {i \in DOMAIN vl : SameName(vl[i].v, x)}
         /\ Revisions(vl, x) = {vl[i].r : i \in Places(vl, x)}
         /\ \A i \in Places(vl, x) : Places(vl, x) = {i} /\ Revisions(vl, x) = {vl[i].r} /\ Min(Places(vl, x)) = i
<1>1. Places(vl, x) = {i \in DOMAIN vl : SameName(vl[i].v, x)}
  BY ListingOf, MatchesOf DEF Places
<1>2. Revisions(vl, x) = {p.r : p \in {q \in ToSet(vl) : SameName(q.v, x)}}
  BY Kinds DEF Revisions
<1>3. Revisions(vl, x) = {vl[i].r : i \in Places(vl, x)}
  BY <1>1, <1>2, ListingOf
<1>4. ASSUME NEW i \in Places(vl, x)
      PROVE  Places(vl, x) = {i}
  <2>1. ASSUME NEW j \in Places(vl, x)
        PROVE  j = i
    <3>1. i \in DOMAIN vl /\ j \in DOMAIN vl /\ SameName(vl[i].v, x) /\ SameName(vl[j].v, x)
      BY <1>1
    <3>2. vl[i].v \in Unpaired /\ vl[j].v \in Unpaired
      BY <3>1, ListingOf
    <3>3. SameName(vl[i].v, vl[j].v)
      BY <3>1, <3>2, NamesSame
    <3> QED BY <3>1, <3>3, ListingOf
  <2> QED BY <2>1
<1>5. ASSUME NEW i \in Places(vl, x)
      PROVE  Revisions(vl, x) = {vl[i].r} /\ Min(Places(vl, x)) = i
  <2>1. Places(vl, x) = {i} /\ i \in Nat
    BY <1>1, <1>4, ListingOf
  <2>2. Min({i}) = i
    BY <2>1, Least
  <2> QED BY <1>3, <2>1, <2>2
<1> QED BY <1>1, <1>3, <1>4, <1>5

(* The revisions each type of constraint stands for. *)
LEMMA RevisionsOf ==
  ASSUME NEW vl, Listing(vl)
  PROVE  /\ \A x \in Bare \cup Paired : Revisions(vl, x) = {x.r}
         /\ \A x \in Unpaired, i \in DOMAIN vl : SameName(x, vl[i].v) => Revisions(vl, x) = {vl[i].r}
         /\ \A x \in Unpaired : Revisions(vl, x) = {} \/ \E i \in DOMAIN vl : SameName(x, vl[i].v) /\ Revisions(vl, x) = {vl[i].r}
         /\ \A c \in Ranges : \A r : r \in Revisions(vl, c) <=> \E i \in DOMAIN vl : r = vl[i].r /\ vl[i].v \in c.sem
<1>1. \A x \in Bare \cup Paired : Revisions(vl, x) = {x.r}
  BY Kinds DEF Revisions
<1>2. ASSUME NEW x \in Unpaired, NEW i \in DOMAIN vl, SameName(x, vl[i].v)
      PROVE  Revisions(vl, x) = {vl[i].r}
  <2>1. vl[i].v \in Unpaired
    BY ListingOf
  <2>2. i \in Places(vl, x)
    BY <1>2, <2>1, PlacesOf, NamesSame
  <2> QED BY <2>2, PlacesOf
<1>3. ASSUME NEW x \in Unpaired, Revisions(vl, x) # {}
      PROVE  \E i \in DOMAIN vl : SameName(x, vl[i].v) /\ Revisions(vl, x) = {vl[i].r}
  <2>1. PICK i \in Places(vl, x) : TRUE
    BY <1>3, PlacesOf
  <2>2. i \in DOMAIN vl /\ SameName(vl[i].v, x) /\ Revisions(vl, x) = {vl[i].r}
    BY <2>1, PlacesOf
  <2>3. vl[i].v \in Unpaired
    BY <2>2, ListingOf
  <2> QED BY <2>2, <2>3, NamesSame
<1>4. ASSUME NEW c \in Ranges, NEW r
      PROVE  r \in Revisions(vl, c) <=> \E i \in DOMAIN vl : r = vl[i].r /\ vl[i].v \in c.sem
  <2>1. Revisions(vl, c) = {p.r : p \in {q \in ToSet(vl) : Admits(c, q)}}
    BY Kinds DEF Revisions
  <2>2. \A i \in DOMAIN vl : Admits(c, vl[i]) <=> vl[i].v \in c.sem
    BY ListingOf, AdmitsOf
  <2> QED BY <2>1, <2>2, ListingOf
<1> QED BY <1>1, <1>2, <1>3, <1>4

-----------------------------------------------------------------------------
(* pairRevision(): a revision, and the versions listed with it. *)
LEMMA pairRevisionOf ==
  ASSUME NEW vl, Listing(vl), NEW r \in Nat, NEW vs, vs = pairRevision(vl, r)
  PROVE  /\ DOMAIN vs = {0} \cup {i \in DOMAIN vl : vl[i].r = r} /\ DOMAIN vs \subseteq Nat
         /\ vs[0] = Revision(r) /\ \A i \in DOMAIN vs : i # 0 => i \in DOMAIN vl /\ vs[i] = vl[i]
         /\ \A i \in DOMAIN vs : vs[i] \in Bare \cup Paired /\ vs[i].r = r
<1>1. Places(vl, Revision(r)) = {i \in DOMAIN vl : vl[i].r = r}
  BY ListingOf, MatchesOf, Kinds DEF Places
<1>2. vs = [i \in {0} \cup {i \in DOMAIN vl : vl[i].r = r} |-> IF i = 0 THEN Revision(r) ELSE vl[i]]
  BY <1>1 DEF pairRevision
<1>3. 0 \notin DOMAIN vl /\ DOMAIN vl \subseteq Nat
  BY ListingOf
<1>4. /\ DOMAIN vs = {0} \cup {i \in DOMAIN vl : vl[i].r = r} /\ DOMAIN vs \subseteq Nat
      /\ vs[0] = Revision(r) /\ \A i \in DOMAIN vs : i # 0 => i \in DOMAIN vl /\ vs[i] = vl[i]
  BY <1>2, <1>3
<1>5. ASSUME NEW i \in DOMAIN vs PROVE vs[i] \in Bare \cup Paired /\ vs[i].r = r
  <2>1. CASE i = 0
    BY <1>4, <2>1, Kinds
  <2>2. CASE i # 0
    BY <1>4, <2>2, ListingOf
  <2> QED BY <2>1, <2>2
<1> QED BY <1>4, <1>5

(* The revision itself comes first. *)
LEMMA pairRevisionFirst ==
  ASSUME NEW vl, NEW r
  PROVE  0 \in DOMAIN pairRevision(vl, r) /\ pairRevision(vl, r)[0] = Revision(r)
BY DEF pairRevision

(* A union has the versions of one revision, or one that is not listed. *)
HomeUnion(vl, x, u) ==
  \E r \in Nat : Revisions(vl, x) = {r} /\ u = Union(pairRevision(vl, r))

AloneUnion(vl, x, u) ==
  /\ x \in Unpaired /\ Revisions(vl, x) = {} /\ u = Union(<<x>>)
  /\ \A i \in DOMAIN vl : ~SameName(x, vl[i].v) /\ ~SameName(vl[i].v, x)

(* Every union is of one of these two forms. *)
LEMMA createTypeUnionOf ==
  ASSUME NEW vl, Listing(vl), NEW x \in Vers
  PROVE  HomeUnion(vl, x, createTypeUnion(vl, x)) \/ AloneUnion(vl, x, createTypeUnion(vl, x))
<1>1. CASE x \in Bare \cup Paired
  <2>1. createTypeUnion(vl, x) = Union(pairRevision(vl, x.r))
    BY <1>1, Kinds DEF createTypeUnion
  <2>2. x.r \in Nat
    BY <1>1, Kinds
  <2> QED BY <1>1, <2>1, <2>2, RevisionsOf DEF HomeUnion
<1>2. CASE x \in Unpaired /\ Places(vl, x) = {}
  <2>1. createTypeUnion(vl, x) = Union(<<x>>)
    BY <1>2, Kinds DEF createTypeUnion
  <2>2. Revisions(vl, x) = {}
    BY <1>2, PlacesOf
  <2>3. \A i \in DOMAIN vl : ~SameName(vl[i].v, x)
    BY <1>2, PlacesOf
  <2>4. \A i \in DOMAIN vl : ~SameName(x, vl[i].v)
    BY <1>2, <2>3, NamesSame, ListingOf
  <2> QED BY <1>2, <2>1, <2>2, <2>3, <2>4 DEF AloneUnion
<1>3. CASE x \in Unpaired /\ Places(vl, x) # {}
  <2>1. PICK i \in Places(vl, x) : TRUE
    BY <1>3
  <2>2. createTypeUnion(vl, x) = Union(pairRevision(vl, pairVersion(vl, x).r))
    BY <1>3, Kinds DEF createTypeUnion
  <2>3. Min(Places(vl, x)) = i /\ Revisions(vl, x) = {vl[i].r} /\ i \in DOMAIN vl
    BY <1>3, PlacesOf
  <2>4. pairVersion(vl, x) = vl[i]
    BY <2>3 DEF pairVersion
  <2>5. vl[i].r \in Nat
    BY <2>3, ListingOf
  <2> QED BY <2>2, <2>3, <2>4, <2>5 DEF HomeUnion
<1> QED BY <1>1, <1>2, <1>3 DEF Vers

(* What is in a union. *)
LEMMA HomeMembers ==
  ASSUME NEW vl, Listing(vl), NEW r \in Nat, NEW u, u = Union(pairRevision(vl, r))
  PROVE  /\ u.k = "union" /\ Revision(r) \in ToSet(u.vs)
         /\ \A m \in ToSet(u.vs) : /\ m \in Bare \cup Paired /\ m \in Vers /\ m.r = r
                                   /\ m = Revision(r) \/ \E i \in DOMAIN vl : m = vl[i]
         /\ \A i \in DOMAIN vl : vl[i].r = r => vl[i] \in ToSet(u.vs)
<1>1. u.k = "union" /\ u.vs = pairRevision(vl, r)
  BY DEF Union
<1> DEFINE vs == pairRevision(vl, r)
<1>2. /\ DOMAIN vs = {0} \cup {i \in DOMAIN vl : vl[i].r = r}
      /\ vs[0] = Revision(r) /\ \A i \in DOMAIN vs : i # 0 => i \in DOMAIN vl /\ vs[i] = vl[i]
      /\ \A i \in DOMAIN vs : vs[i] \in Bare \cup Paired /\ vs[i].r = r
  BY pairRevisionOf
<1>3. ToSet(u.vs) = {vs[i] : i \in DOMAIN vs}
  BY <1>1 DEF ToSet
<1> HIDE DEF vs
<1>4. \A i \in DOMAIN vl : vl[i].r = r => i \in DOMAIN vs /\ vs[i] = vl[i]
  BY <1>2, ListingOf
<1>5. ASSUME NEW m \in ToSet(u.vs)
      PROVE  /\ m \in Bare \cup Paired /\ m \in Vers /\ m.r = r
             /\ m = Revision(r) \/ \E i \in DOMAIN vl : m = vl[i]
  BY <1>2, <1>3 DEF Vers
<1> QED BY <1>1, <1>2, <1>3, <1>4, <1>5

(* A union of one version has that version. *)
LEMMA AloneMembers ==
  ASSUME NEW x
  PROVE  Union(<<x>>).k = "union" /\ ToSet(Union(<<x>>).vs) = {x}
BY DEF Union, ToSet

(* A version that is not listed matches none of those that are. *)
LEMMA AloneMatches ==
  ASSUME NEW vl, Listing(vl), NEW x, NEW u, AloneUnion(vl, x, u), NEW m \in Bare \cup Paired,
         m \in Bare \/ \E i \in DOMAIN vl : m = vl[i]
  PROVE  ~Matches1(m, x) /\ ~Matches1(x, m)
<1>1. x \in Unpaired
  BY DEF AloneUnion
<1>2. CASE m \in Bare
  BY <1>1, <1>2, MatchesOf
<1>3. ASSUME NEW i \in DOMAIN vl, m = vl[i] PROVE ~Matches1(m, x) /\ ~Matches1(x, m)
  BY <1>1, <1>3, MatchesOf, ListingOf DEF AloneUnion
<1> QED BY <1>2, <1>3

(* Unions of versions match when they have a revision in common, or are    *)
(* two versions that match and are not listed.                             *)
LEMMA UnionsMatch ==
  ASSUME NEW vl, Listing(vl), NEW x \in Vers, NEW y \in Vers,
         NEW u, u = createTypeUnion(vl, x), NEW w, w = createTypeUnion(vl, y)
  PROVE  /\ u.k = "union" /\ w.k = "union"
         /\ (\E v1 \in ToSet(u.vs), v2 \in ToSet(w.vs) : Matches1(v1, v2)) <=>
              \/ Revisions(vl, x) \cap Revisions(vl, y) # {}
              \/ Revisions(vl, x) = {} /\ Revisions(vl, y) = {} /\ Matches1(x, y)
<1> DEFINE Meet == \E v1 \in ToSet(u.vs), v2 \in ToSet(w.vs) : Matches1(v1, v2)
<1>1. HomeUnion(vl, x, u) \/ AloneUnion(vl, x, u)
  BY createTypeUnionOf
<1>2. HomeUnion(vl, y, w) \/ AloneUnion(vl, y, w)
  BY createTypeUnionOf
<1>3. CASE AloneUnion(vl, x, u) /\ AloneUnion(vl, y, w)
  <2>1. u.k = "union" /\ w.k = "union" /\ ToSet(u.vs) = {x} /\ ToSet(w.vs) = {y}
    BY <1>3, AloneMembers DEF AloneUnion
  <2> QED BY <1>3, <2>1 DEF AloneUnion
<1>4. CASE AloneUnion(vl, x, u) /\ HomeUnion(vl, y, w)
  <2>1. PICK r \in Nat : Revisions(vl, y) = {r} /\ w = Union(pairRevision(vl, r))
    BY <1>4 DEF HomeUnion
  <2>2. u.k = "union" /\ ToSet(u.vs) = {x} /\ Revisions(vl, x) = {}
    BY <1>4, AloneMembers DEF AloneUnion
  <2>3. w.k = "union" /\ \A m \in ToSet(w.vs) : ~Matches1(x, m)
    BY <1>4, <2>1, HomeMembers, AloneMatches, Kinds
  <2> QED BY <2>1, <2>2, <2>3
<1>5. CASE HomeUnion(vl, x, u) /\ AloneUnion(vl, y, w)
  <2>1. PICK r \in Nat : Revisions(vl, x) = {r} /\ u = Union(pairRevision(vl, r))
    BY <1>5 DEF HomeUnion
  <2>2. w.k = "union" /\ ToSet(w.vs) = {y} /\ Revisions(vl, y) = {}
    BY <1>5, AloneMembers DEF AloneUnion
  <2>3. u.k = "union" /\ \A m \in ToSet(u.vs) : ~Matches1(m, y)
    BY <1>5, <2>1, HomeMembers, AloneMatches, Kinds
  <2> QED BY <2>1, <2>2, <2>3
<1>6. CASE HomeUnion(vl, x, u) /\ HomeUnion(vl, y, w)
  <2>1. PICK r \in Nat : Revisions(vl, x) = {r} /\ u = Union(pairRevision(vl, r))
    BY <1>6 DEF HomeUnion
  <2>2. PICK s \in Nat : Revisions(vl, y) = {s} /\ w = Union(pairRevision(vl, s))
    BY <1>6 DEF HomeUnion
  <2>3. u.k = "union" /\ w.k = "union" /\ Revision(r) \in ToSet(u.vs) /\ Revision(s) \in ToSet(w.vs)
    BY <2>1, <2>2, HomeMembers
  <2>4. \A v1 \in ToSet(u.vs) : v1 \in Bare \cup Paired /\ v1.r = r
    BY <2>1, HomeMembers
  <2>5. \A v2 \in ToSet(w.vs) : v2 \in Bare \cup Paired /\ v2.r = s
    BY <2>2, HomeMembers
  <2>6. \A v1 \in ToSet(u.vs), v2 \in ToSet(w.vs) : Matches1(v1, v2) <=> r = s
    BY <2>4, <2>5, MatchesOf
  <2> QED BY <2>1, <2>2, <2>3, <2>6
<1> QED BY <1>1, <1>2, <1>3, <1>4, <1>5, <1>6

(* Members of a union that a range admits. *)
LEMMA UnionAdmitted ==
  ASSUME NEW vl, Listing(vl), NEW c \in Ranges, NEW y \in Vers, NEW w, w = createTypeUnion(vl, y)
  PROVE  /\ w.k = "union"
         /\ (\E m \in ToSet(w.vs) : Admits(c, m)) <=>
              \/ Revisions(vl, c) \cap Revisions(vl, y) # {}
              \/ Revisions(vl, y) = {} /\ Admits(c, y)
<1>1. CASE AloneUnion(vl, y, w)
  <2>1. w.k = "union" /\ ToSet(w.vs) = {y} /\ Revisions(vl, y) = {}
    BY <1>1, AloneMembers DEF AloneUnion
  <2> QED BY <2>1
<1>2. CASE HomeUnion(vl, y, w)
  <2>1. PICK r \in Nat : Revisions(vl, y) = {r} /\ w = Union(pairRevision(vl, r))
    BY <1>2 DEF HomeUnion
  <2>2. w.k = "union"
    BY <2>1, HomeMembers
  <2>3. ASSUME NEW m \in ToSet(w.vs), Admits(c, m) PROVE r \in Revisions(vl, c)
    <3>1. m \in Bare \cup Paired /\ m.r = r /\ (m = Revision(r) \/ \E i \in DOMAIN vl : m = vl[i])
      BY <2>1, HomeMembers
    <3>2. m \notin Bare
      BY <2>3, AdmitsOf
    <3>3. PICK i \in DOMAIN vl : m = vl[i]
      BY <3>1, <3>2, Kinds
    <3>4. vl[i].v \in c.sem /\ vl[i].r = r
      BY <3>1, <3>2, <3>3, <2>3, AdmitsOf
    <3> QED BY <3>4, RevisionsOf
  <2>4. ASSUME r \in Revisions(vl, c) PROVE \E m \in ToSet(w.vs) : Admits(c, m)
    <3>1. PICK i \in DOMAIN vl : r = vl[i].r /\ vl[i].v \in c.sem
      BY <2>4, RevisionsOf
    <3>2. vl[i] \in ToSet(w.vs) /\ vl[i] \in Paired
      BY <2>1, <3>1, HomeMembers, ListingOf
    <3> QED BY <3>1, <3>2, AdmitsOf
  <2> QED BY <2>1, <2>2, <2>3, <2>4
<1> QED BY <1>1, <1>2, createTypeUnionOf

-----------------------------------------------------------------------------
(* matches(): by name, or by a revision in common. *)
LEMMA matchesOf ==
  ASSUME NEW vl, Listing(vl), NEW v \in Vers
  PROVE  /\ \A c \in Ranges \cup Vers :
              matches(vl, c, v) <=> Matches1(c, v) \/ Revisions(vl, c) \cap Revisions(vl, v) # {}
         /\ matches(vl, any, v) /\ ~matches(vl, none, v)
<1>1. v.k \notin {"any", "none", "union", "range"}
  BY Kinds DEF Vers
<1>2. ASSUME NEW c \in Ranges \cup Vers
      PROVE  Matches(c, v) <=> Matches1(c, v)
  <2>1. c.k \notin {"any", "none", "union"}
    BY Kinds DEF Vers
  <2> QED BY <1>1, <2>1 DEF Matches
<1> DEFINE w == createTypeUnion(vl, v)
<1>3. ASSUME NEW c \in Vers
      PROVE  matches(vl, c, v) <=> Matches1(c, v) \/ Revisions(vl, c) \cap Revisions(vl, v) # {}
  <2> DEFINE u == createTypeUnion(vl, c)
  <2>1. u.k = "union" /\ w.k = "union"
    BY UnionsMatch
  <2>2. Matches(u, w) <=> \E v1 \in ToSet(u.vs), v2 \in ToSet(w.vs) : Matches1(v1, v2)
    BY <2>1 DEF Matches
  <2>3. Matches(u, w) <=> \/ Revisions(vl, c) \cap Revisions(vl, v) # {}
                          \/ Revisions(vl, c) = {} /\ Revisions(vl, v) = {} /\ Matches1(c, v)
    BY <2>2, UnionsMatch
  <2> QED BY <1>2, <2>3 DEF matches
<1>4. ASSUME NEW c \in Ranges
      PROVE  matches(vl, c, v) <=> Matches1(c, v) \/ Revisions(vl, c) \cap Revisions(vl, v) # {}
  <2>1. createTypeUnion(vl, c) = c /\ c.k = "range"
    BY Kinds DEF createTypeUnion
  <2>2. w.k = "union"
    BY UnionAdmitted
  <2>3. Matches(c, w) <=> \E m \in ToSet(w.vs) : Matches1(c, m)
    BY <2>1, <2>2 DEF Matches
  <2>4. \A m \in ToSet(w.vs) : m \in Vers
    <3>1. CASE AloneUnion(vl, v, w)
      BY <3>1, AloneMembers DEF AloneUnion
    <3>2. CASE HomeUnion(vl, v, w)
      BY <3>2, HomeMembers DEF HomeUnion
    <3> QED BY <3>1, <3>2, createTypeUnionOf
  <2>5. Matches(c, w) <=> \E m \in ToSet(w.vs) : Admits(c, m)
    BY <2>3, <2>4, MatchesOf
  <2>6. Matches1(c, v) <=> Admits(c, v)
    BY MatchesOf
  <2> HIDE DEF w
  <2>7. Matches(c, w) <=> \/ Revisions(vl, c) \cap Revisions(vl, v) # {}
                          \/ Revisions(vl, v) = {} /\ Admits(c, v)
    BY <2>5, UnionAdmitted DEF w
  <2> QED BY <1>2, <2>1, <2>6, <2>7 DEF matches, w
<1>5. matches(vl, any, v)
  BY Kinds DEF matches, Matches
<1>6. ~matches(vl, none, v)
  <2>1. createTypeUnion(vl, none) = none
    BY Kinds DEF createTypeUnion
  <2> QED BY <2>1, Kinds DEF matches, Matches
<1> QED BY <1>3, <1>4, <1>5, <1>6

(* A revision, or a listed version, stands for all at its revision. *)
LEMMA matchesHome ==
  ASSUME NEW vl, Listing(vl), NEW v \in Vers
  PROVE  /\ \A x \in Bare : matches(vl, x, v) <=> Revisions(vl, v) = {x.r}
         /\ \A i \in DOMAIN vl : matches(vl, vl[i], v) <=> Revisions(vl, v) = {vl[i].r}
<1>1. Revisions(vl, v) = {} \/ \E r \in Nat : Revisions(vl, v) = {r}
  BY createTypeUnionOf DEF HomeUnion, AloneUnion
<1>2. ASSUME NEW x \in Bare PROVE matches(vl, x, v) <=> Revisions(vl, v) = {x.r}
  <2>1. matches(vl, x, v) <=> Matches1(x, v) \/ {x.r} \cap Revisions(vl, v) # {}
    BY matchesOf, RevisionsOf DEF Vers
  <2>2. Matches1(x, v) => Revisions(vl, v) = {x.r}
    BY MatchesOf, RevisionsOf DEF Vers
  <2> QED BY <1>1, <2>1, <2>2
<1>3. ASSUME NEW i \in DOMAIN vl PROVE matches(vl, vl[i], v) <=> Revisions(vl, v) = {vl[i].r}
  <2>0. vl[i] \in Paired /\ vl[i] \in Vers /\ vl[i].v \in Unpaired
    BY ListingOf
  <2>1. matches(vl, vl[i], v) <=> Matches1(vl[i], v) \/ {vl[i].r} \cap Revisions(vl, v) # {}
    BY <2>0, matchesOf, RevisionsOf
  <2>2. Matches1(vl[i], v) => Revisions(vl, v) = {vl[i].r}
    <3>1. CASE v \in Unpaired
      <4>1. Matches1(vl[i], v) => SameName(v, vl[i].v)
        BY <3>1, <2>0, MatchesOf, NamesSame
      <4> QED BY <3>1, <4>1, RevisionsOf
    <3>2. CASE v \in Bare \cup Paired
      BY <3>2, <2>0, MatchesOf, RevisionsOf
    <3> QED BY <3>1, <3>2 DEF Vers
  <2> QED BY <1>1, <2>1, <2>2
<1> QED BY <1>2, <1>3

(* A listed version matches by its revision. *)
LEMMA matchesListed ==
  ASSUME NEW vl, Listing(vl), NEW i \in DOMAIN vl
  PROVE  /\ \A x \in Unpaired \cup Bare : matches(vl, x, vl[i]) <=> Revisions(vl, x) = {vl[i].r}
         /\ \A c \in Ranges : matches(vl, c, vl[i]) <=> vl[i].r \in Revisions(vl, c)
<1>0. vl[i] \in Paired /\ vl[i] \in Vers /\ vl[i].v \in Unpaired /\ Revisions(vl, vl[i]) = {vl[i].r}
  BY ListingOf, RevisionsOf
<1>1. ASSUME NEW x \in Unpaired PROVE matches(vl, x, vl[i]) <=> Revisions(vl, x) = {vl[i].r}
  <2>1. matches(vl, x, vl[i]) <=> Matches1(x, vl[i]) \/ Revisions(vl, x) \cap {vl[i].r} # {}
    BY <1>0, matchesOf DEF Vers
  <2>2. Matches1(x, vl[i]) => Revisions(vl, x) = {vl[i].r}
    BY <1>0, MatchesOf, RevisionsOf
  <2>3. Revisions(vl, x) = {} \/ \E r : Revisions(vl, x) = {r}
    BY RevisionsOf
  <2> QED BY <2>1, <2>2, <2>3
<1>2. ASSUME NEW x \in Bare PROVE matches(vl, x, vl[i]) <=> Revisions(vl, x) = {vl[i].r}
  <2>1. matches(vl, x, vl[i]) <=> vl[i].r = x.r
    BY <1>0, matchesHome
  <2> QED BY <2>1, RevisionsOf
<1>3. ASSUME NEW c \in Ranges PROVE matches(vl, c, vl[i]) <=> vl[i].r \in Revisions(vl, c)
  <2>1. matches(vl, c, vl[i]) <=> Matches1(c, vl[i]) \/ Revisions(vl, c) \cap {vl[i].r} # {}
    BY <1>0, matchesOf
  <2>2. Matches1(c, vl[i]) => vl[i].r \in Revisions(vl, c)
    BY <1>0, MatchesOf, AdmitsOf, RevisionsOf
  <2> QED BY <2>1, <2>2
<1> QED BY <1>1, <1>2, <1>3

(* Constraints that match each other match the same versions. *)
LEMMA matchesSame ==
  ASSUME NEW vl, Listing(vl), NEW x \in Unpaired \cup Bare, NEW y \in Unpaired \cup Bare, Matches1(x, y),
         NEW v \in Vers
  PROVE  /\ Matches1(y, x) /\ Revisions(vl, x) = Revisions(vl, y)
         /\ matches(vl, x, v) <=> matches(vl, y, v)
<1>1. CASE x \in Bare
  <2>1. y \in Bare /\ x.r = y.r
    BY <1>1, MatchesOf
  <2>2. x = y
    BY <1>1, <2>1 DEF Bare
  <2> QED BY <2>2
<1>2. CASE x \in Unpaired
  <2>1. y \in Unpaired /\ SameName(x, y) /\ SameName(y, x)
    BY <1>2, MatchesOf, NamesSame
  <2>2. Matches1(y, x)
    BY <1>2, <2>1, MatchesOf
  <2>3. \A n \in Unpaired : SameName(x, n) <=> SameName(y, n)
    BY <1>2, <2>1, NamesSame
  <2>4. Matches1(x, v) <=> Matches1(y, v)
    BY <1>2, <2>1, <2>3, MatchesOf, Kinds DEF Vers
  <2>5. Revisions(vl, x) = Revisions(vl, y)
    <3>1. \A i \in DOMAIN vl : SameName(x, vl[i].v) <=> SameName(y, vl[i].v)
      BY <2>3, ListingOf
    <3>2. CASE Revisions(vl, x) = {}
      BY <1>2, <2>1, <3>1, <3>2, RevisionsOf
    <3>3. CASE Revisions(vl, x) # {}
      BY <1>2, <2>1, <3>1, <3>3, RevisionsOf
    <3> QED BY <3>2, <3>3
  <2>6. x \in Vers /\ y \in Vers
    BY <1>2, <2>1 DEF Vers
  <2> QED BY <2>2, <2>4, <2>5, <2>6, matchesOf
<1> QED BY <1>1, <1>2

-----------------------------------------------------------------------------
(* Intersect() for each two types. *)
LEMMA Intersect1Of ==
  /\ \A x \in Unpaired \cup Bare, y \in Vers : Intersect1(x, y) = IF Matches1(x, y) THEN x ELSE none
  /\ \A x \in Paired, y \in Unpaired : Intersect1(x, y) = IF Matches1(x, y) THEN x ELSE none
  /\ \A x \in Paired, y \in Bare \cup Paired : Intersect1(x, y) = IF x.r = y.r THEN Revision(x.r) ELSE none
  /\ \A c \in Ranges, v \in Vers : /\ Intersect1(c, v) = IF Admits(c, v) THEN v ELSE none
                                   /\ Intersect1(v, c) = IF Admits(c, v) THEN v ELSE none
  /\ \A c, d \in Ranges :
       Intersect1(c, d) = IF c.sem \cap d.sem = {} THEN none ELSE Range_(c.sem \cap d.sem)
<1>1. ASSUME NEW x \in Unpaired \cup Bare, NEW y \in Vers
      PROVE  Intersect1(x, y) = IF Matches1(x, y) THEN x ELSE none
  <2>1. x.k \notin {"any", "none", "range", "pair"} /\ y.k \notin {"any", "none", "range"}
    BY Kinds DEF Vers
  <2> QED BY <2>1 DEF Intersect1
<1>2. ASSUME NEW x \in Paired, NEW y \in Unpaired
      PROVE  Intersect1(x, y) = IF Matches1(x, y) THEN x ELSE none
  <2>1. x.k = "pair" /\ y.k \notin {"any", "none", "range", "pair", "revision"}
    BY Kinds
  <2> QED BY <2>1 DEF Intersect1
<1>3. ASSUME NEW x \in Paired, NEW y \in Bare \cup Paired
      PROVE  Intersect1(x, y) = IF x.r = y.r THEN Revision(x.r) ELSE none
  <2>1. x.k = "pair" /\ y.k \in {"pair", "revision"}
    BY Kinds
  <2> QED BY <2>1 DEF Intersect1
<1>4. ASSUME NEW c \in Ranges, NEW v \in Vers
      PROVE  /\ Intersect1(c, v) = IF Admits(c, v) THEN v ELSE none
             /\ Intersect1(v, c) = IF Admits(c, v) THEN v ELSE none
  <2>1. c.k = "range" /\ v.k \notin {"any", "none", "range"} /\ IsVersion(v) /\ ~IsVersion(c)
    BY Kinds DEF Vers
  <2> QED BY <2>1 DEF Intersect1
<1>5. ASSUME NEW c \in Ranges, NEW d \in Ranges
      PROVE  Intersect1(c, d) = IF c.sem \cap d.sem = {} THEN none ELSE Range_(c.sem \cap d.sem)
  <2>1. c.k = "range" /\ d.k = "range" /\ ~IsVersion(d) /\ ~IsVersion(c)
    BY Kinds
  <2> QED BY <2>1 DEF Intersect1
<1> QED BY <1>1, <1>2, <1>3, <1>4, <1>5

(* The first result that is not none. *)
LEMMA FirstOfOf ==
  ASSUME NEW results, DOMAIN results \subseteq Nat
  PROVE  /\ (\A i \in DOMAIN results : results[i] = none) => FirstOf(results) = none
         /\ (\E i \in DOMAIN results : results[i] # none) =>
              \E i \in DOMAIN results : results[i] # none /\ FirstOf(results) = results[i]
         /\ 0 \in DOMAIN results /\ results[0] # none => FirstOf(results) = results[0]
<1> DEFINE hits == {i \in DOMAIN results : results[i] # none}
<1>1. FirstOf(results) = IF hits = {} THEN none ELSE results[Min(hits)]
  BY DEF FirstOf
<1>2. hits # {} => Min(hits) \in hits /\ \A i \in hits : Min(hits) <= i
  BY Least
<1>3. 0 \in hits => Min(hits) = 0
  <2>1. hits \subseteq Nat
    OBVIOUS
  <2> QED BY <1>2, <2>1
<1> QED BY <1>1, <1>2, <1>3

(* The intersection of two unions. *)
LEMMA UnionsMeet ==
  ASSUME NEW vl, Listing(vl), NEW x \in Unpaired \cup Bare, NEW y \in Unpaired \cup Bare, ~Matches1(x, y),
         NEW u, u = createTypeUnion(vl, x), NEW w, w = createTypeUnion(vl, y)
  PROVE  /\ Revisions(vl, x) \cap Revisions(vl, y) = {} => Intersect(u, w) = none
         /\ \A r \in Nat : Revisions(vl, x) = {r} /\ Revisions(vl, y) = {r} => Intersect(u, w) = Revision(r)
<1> DEFINE Row(i)  == [j \in DOMAIN w.vs |-> Intersect1(u.vs[i], w.vs[j])]
           results == [i \in DOMAIN u.vs |-> FirstOf(Row(i))]
<1>0. x \in Vers /\ y \in Vers
  BY DEF Vers
<1>1. u.k = "union" /\ w.k = "union"
  BY <1>0, UnionsMatch
<1>2. Intersect(u, w) = FirstOf(results)
  BY <1>1 DEF Intersect
<1>3. DOMAIN u.vs \subseteq Nat /\ DOMAIN w.vs \subseteq Nat
  <2>1. ASSUME NEW z \in Vers, NEW q, q = createTypeUnion(vl, z) PROVE DOMAIN q.vs \subseteq Nat
    <3>1. CASE AloneUnion(vl, z, q)
      <4>1. q.vs = <<z>>
        BY <3>1 DEF AloneUnion, Union
      <4>2. DOMAIN <<z>> = {1}
        OBVIOUS
      <4> QED BY <4>1, <4>2
    <3>2. CASE HomeUnion(vl, z, q)
      <4>1. PICK r \in Nat : q = Union(pairRevision(vl, r))
        BY <3>2 DEF HomeUnion
      <4>2. q.vs = pairRevision(vl, r)
        BY <4>1 DEF Union
      <4>3. DOMAIN pairRevision(vl, r) \subseteq Nat
        BY pairRevisionOf
      <4> QED BY <4>2, <4>3
    <3> QED BY <2>1, <3>1, <3>2, createTypeUnionOf
  <2> QED BY <1>0, <2>1
<1>4. ASSUME Revisions(vl, x) \cap Revisions(vl, y) = {} PROVE FirstOf(results) = none
  <2>1. \A v1 \in ToSet(u.vs), v2 \in ToSet(w.vs) : ~Matches1(v1, v2)
    BY <1>0, <1>4, UnionsMatch
  <2>2. \A i \in DOMAIN u.vs, j \in DOMAIN w.vs : ~Matches1(u.vs[i], w.vs[j])
    BY <2>1 DEF ToSet
  <2>3. ASSUME NEW z \in Unpaired \cup Bare, NEW q, q = createTypeUnion(vl, z)
        PROVE  \A m \in ToSet(q.vs) : m \in Vers
    <3>1. z \in Vers
      BY DEF Vers
    <3>2. CASE AloneUnion(vl, z, q)
      BY <3>1, <3>2, AloneMembers DEF AloneUnion
    <3>3. CASE HomeUnion(vl, z, q)
      BY <3>3, HomeMembers DEF HomeUnion
    <3> QED BY <2>3, <3>1, <3>2, <3>3, createTypeUnionOf
  <2>4. \A i \in DOMAIN u.vs, j \in DOMAIN w.vs : u.vs[i] \in Vers /\ w.vs[j] \in Vers
    BY <2>3 DEF ToSet
  <2>5. ASSUME NEW i \in DOMAIN u.vs, NEW j \in DOMAIN w.vs PROVE Intersect1(u.vs[i], w.vs[j]) = none
    BY <2>2, <2>4, Intersect1Of, MatchesOf DEF Vers
  <2>6. ASSUME NEW i \in DOMAIN u.vs PROVE FirstOf(Row(i)) = none
    <3>1. DOMAIN Row(i) \subseteq Nat /\ \A j \in DOMAIN Row(i) : Row(i)[j] = none
      BY <1>3, <2>5
    <3> HIDE DEF Row
    <3> QED BY <3>1, FirstOfOf
  <2>7. DOMAIN results \subseteq Nat /\ \A i \in DOMAIN results : results[i] = none
    BY <1>3, <2>6
  <2> HIDE DEF results
  <2> QED BY <2>7, FirstOfOf
<1>5. ASSUME NEW r \in Nat, Revisions(vl, x) = {r}, Revisions(vl, y) = {r} PROVE FirstOf(results) = Revision(r)
  <2>1. u.vs = pairRevision(vl, r) /\ w.vs = pairRevision(vl, r)
    <3>1. ASSUME NEW z \in Vers, Revisions(vl, z) = {r} PROVE createTypeUnion(vl, z) = Union(pairRevision(vl, r))
      BY <3>1, createTypeUnionOf DEF HomeUnion, AloneUnion
    <3> QED BY <1>0, <1>5, <3>1 DEF Union
  <2>2. 0 \in DOMAIN u.vs /\ u.vs[0] = Revision(r) /\ 0 \in DOMAIN w.vs /\ w.vs[0] = Revision(r)
    BY <2>1, pairRevisionFirst
  <2>3. Revision(r) \in Bare /\ Revision(r) \in Vers /\ Revision(r) # none
    BY Kinds, DistinctKinds DEF Vers
  <2>4. Matches1(Revision(r), Revision(r))
    BY <2>3, MatchesOf
  <2>5. Intersect1(Revision(r), Revision(r)) = Revision(r)
    BY <2>3, <2>4, Intersect1Of
  <2>6. FirstOf(Row(0)) = Revision(r)
    <3>1. DOMAIN Row(0) \subseteq Nat /\ 0 \in DOMAIN Row(0) /\ Row(0)[0] = Revision(r)
      BY <1>3, <2>2, <2>5
    <3> HIDE DEF Row
    <3> QED BY <2>3, <3>1, FirstOfOf
  <2>7. DOMAIN results \subseteq Nat /\ 0 \in DOMAIN results /\ results[0] = Revision(r)
    BY <1>3, <2>2, <2>6
  <2> HIDE DEF results
  <2> QED BY <2>3, <2>7, FirstOfOf
<1> QED BY <1>2, <1>4, <1>5

(* Two versions without ranges have something in common when they match or *)
(* stand for one revision.                                                 *)
LEMMA VersionsMeet ==
  ASSUME NEW vl, Listing(vl), NEW x \in Unpaired \cup Bare, NEW y \in Unpaired \cup Bare
  PROVE  /\ Matches1(x, y) => intersect(vl, x, y) = x
         /\ ~Matches1(x, y) /\ Revisions(vl, x) \cap Revisions(vl, y) = {} => intersect(vl, x, y) = none
         /\ \A r \in Nat : ~Matches1(x, y) /\ Revisions(vl, x) = {r} /\ Revisions(vl, y) = {r} =>
              intersect(vl, x, y) = Revision(r)
         /\ matchesAny(vl, x, y) <=> Matches1(x, y) \/ Revisions(vl, x) \cap Revisions(vl, y) # {}
<1>0. x \in Vers /\ y \in Vers /\ x # none
  BY DistinctKinds DEF Vers
<1>1. /\ x.k \notin {"any", "none", "union", "range", "pair"} /\ IsVersion(x) /\ (x.k = "revision" \/ IsUnpaired(x))
      /\ y.k \notin {"any", "none", "union", "range", "pair"} /\ IsVersion(y)
  BY Kinds
<1> DEFINE u == createTypeUnion(vl, x)
           w == createTypeUnion(vl, y)
<1>2. Intersect(x, y) = IF Matches1(x, y) THEN x ELSE none
  <2>1. Intersect(x, y) = Intersect1(x, y)
    BY <1>1 DEF Intersect
  <2> QED BY <1>0, <2>1, Intersect1Of
<1>3. MatchesAny(x, y) <=> Matches1(x, y)
  <2>1. MatchesAny(x, y) <=> MatchesAny1(x, y)
    BY <1>1 DEF MatchesAny
  <2>2. MatchesAny1(x, y) <=> Matches1(x, y)
    BY <1>1 DEF MatchesAny1
  <2> QED BY <2>1, <2>2
<1>4. intersect(vl, x, y) = IF Matches1(x, y) THEN x ELSE Intersect(u, w)
  BY <1>0, <1>2 DEF intersect
<1>5. MatchesAny(u, w) <=> \/ Revisions(vl, x) \cap Revisions(vl, y) # {}
                           \/ Revisions(vl, x) = {} /\ Revisions(vl, y) = {} /\ Matches1(x, y)
  <2>1. u.k = "union" /\ w.k = "union"
    BY <1>0, UnionsMatch
  <2>2. MatchesAny(u, w) <=> \E v1 \in ToSet(u.vs), v2 \in ToSet(w.vs) : MatchesAny1(v1, v2)
    BY <2>1 DEF MatchesAny
  <2>3. ASSUME NEW z \in Vers, NEW q, q = createTypeUnion(vl, z)
        PROVE  \A m \in ToSet(q.vs) : m \in Vers /\ (m \in Paired => \E i \in DOMAIN vl : m = vl[i]) /\ (m \in Unpaired => Revisions(vl, z) = {} /\ m = z)
    <3>1. CASE AloneUnion(vl, z, q)
      BY <2>3, <3>1, AloneMembers, RevisionsOf, DistinctKinds DEF AloneUnion
    <3>2. CASE HomeUnion(vl, z, q)
      BY <3>2, HomeMembers, DistinctKinds, Kinds DEF HomeUnion
    <3> QED BY <2>3, <3>1, <3>2, createTypeUnionOf
  <2>4. ASSUME NEW v1 \in ToSet(u.vs), NEW v2 \in ToSet(w.vs)
        PROVE  MatchesAny1(v1, v2) <=> Matches1(v1, v2)
    <3>1. v1 \in Vers /\ v2 \in Vers
      BY <1>0, <2>3
    <3>2. CASE v1 \notin Paired
      <4>1. /\ v1.k \notin {"any", "none", "range", "pair"} /\ (v1.k = "revision" \/ IsUnpaired(v1))
            /\ v2.k \notin {"any", "none", "range"} /\ IsVersion(v2)
        BY <3>1, <3>2, Kinds DEF Vers
      <4> QED BY <4>1 DEF MatchesAny1
    <3>3. CASE v1 \in Paired
      <4>1. v1.k = "pair" /\ v2.k \notin {"any", "none"}
        BY <3>1, <3>3, Kinds DEF Vers
      <4>2. MatchesAny1(v1, v2) <=> Matches1(v2, v1)
        BY <4>1 DEF MatchesAny1, IsUnpaired
      <4>3. Matches1(v2, v1) <=> Matches1(v1, v2)
        <5>1. CASE v2 \in Unpaired
          <6>1. v1.v \in Unpaired
            BY <3>3, Kinds
          <6> QED BY <3>3, <5>1, <6>1, MatchesOf, NamesSame
        <5>2. CASE v2 \in Bare \cup Paired
          BY <3>3, <5>2, MatchesOf
        <5> QED BY <3>1, <5>1, <5>2 DEF Vers
      <4> QED BY <4>2, <4>3
    <3> QED BY <3>2, <3>3
  <2>5. MatchesAny(u, w) <=> \E v1 \in ToSet(u.vs), v2 \in ToSet(w.vs) : Matches1(v1, v2)
    BY <2>2, <2>4
  <2> QED BY <1>0, <2>5, UnionsMatch
<1>6. matchesAny(vl, x, y) <=> Matches1(x, y) \/ Revisions(vl, x) \cap Revisions(vl, y) # {}
  BY <1>3, <1>5 DEF matchesAny
<1>7. ASSUME ~Matches1(x, y)
      PROVE  /\ Revisions(vl, x) \cap Revisions(vl, y) = {} => intersect(vl, x, y) = none
             /\ \A r \in Nat : Revisions(vl, x) = {r} /\ Revisions(vl, y) = {r} => intersect(vl, x, y) = Revision(r)
  BY <1>4, <1>7, UnionsMeet
<1> QED BY <1>4, <1>6, <1>7

-----------------------------------------------------------------------------
(* A range and a version have something in common when the range admits it *)
(* or another one listed at its revision.                                  *)
LEMMA RangeUnion ==
  ASSUME NEW vl, Listing(vl), NEW c \in Ranges, NEW v \in Vers, NEW w, w = createTypeUnion(vl, v),
         NEW results, DOMAIN results = DOMAIN w.vs,
         \A i \in DOMAIN w.vs : results[i] = IF Admits(c, w.vs[i]) THEN w.vs[i] ELSE none
  PROVE  /\ Revisions(vl, c) \cap Revisions(vl, v) # {} =>
              \E i \in DOMAIN vl : /\ FirstOf(results) = vl[i]
                                   /\ vl[i].v \in c.sem /\ Revisions(vl, v) = {vl[i].r}
         /\ ~Admits(c, v) /\ Revisions(vl, c) \cap Revisions(vl, v) = {} => FirstOf(results) = none
<1>1. CASE AloneUnion(vl, v, w)
  <2>1. w.vs = <<v>> /\ Revisions(vl, v) = {}
    BY <1>1 DEF AloneUnion, Union
  <2>2. DOMAIN w.vs = {1} /\ w.vs[1] = v
    <3>1. DOMAIN <<v>> = {1} /\ <<v>>[1] = v
      OBVIOUS
    <3> QED BY <2>1, <3>1
  <2>3. DOMAIN results \subseteq Nat
    BY <2>2
  <2> QED BY <2>1, <2>2, <2>3, FirstOfOf
<1>2. CASE HomeUnion(vl, v, w)
  <2>1. PICK r \in Nat : Revisions(vl, v) = {r} /\ w = Union(pairRevision(vl, r))
    BY <1>2 DEF HomeUnion
  <2>2. w.vs = pairRevision(vl, r)
    BY <2>1 DEF Union
  <2>3. /\ DOMAIN w.vs = {0} \cup {i \in DOMAIN vl : vl[i].r = r} /\ DOMAIN w.vs \subseteq Nat
        /\ w.vs[0] = Revision(r) /\ \A i \in DOMAIN w.vs : i # 0 => i \in DOMAIN vl /\ w.vs[i] = vl[i]
    BY <2>2, pairRevisionOf
  <2>4. \A i \in DOMAIN vl : vl[i] \in Paired /\ vl[i] # none /\ (Admits(c, vl[i]) <=> vl[i].v \in c.sem) /\ i # 0
    BY ListingOf, AdmitsOf, DistinctKinds
  <2>5. results[0] = none
    <3>1. Revision(r) \in Bare
      BY Kinds
    <3> QED BY <2>3, <3>1, AdmitsOf
  <2>6. \A i \in DOMAIN results : results[i] # none => i \in DOMAIN vl /\ results[i] = vl[i] /\ vl[i].v \in c.sem /\ vl[i].r = r
    BY <2>3, <2>4, <2>5
  <2>7. \A i \in DOMAIN vl : vl[i].r = r /\ vl[i].v \in c.sem => i \in DOMAIN results /\ results[i] # none
    BY <2>3, <2>4
  <2>8. r \in Revisions(vl, c) <=> \E i \in DOMAIN vl : r = vl[i].r /\ vl[i].v \in c.sem
    BY RevisionsOf
  <2>9. (\E i \in DOMAIN results : results[i] # none) <=> r \in Revisions(vl, c)
    BY <2>6, <2>7, <2>8
  <2>10. DOMAIN results \subseteq Nat
    BY <2>3
  <2>11. CASE r \in Revisions(vl, c)
    <3>1. PICK i \in DOMAIN results : results[i] # none /\ FirstOf(results) = results[i]
      BY <2>9, <2>10, <2>11, FirstOfOf
    <3> QED BY <2>1, <2>6, <2>11, <3>1
  <2>12. CASE r \notin Revisions(vl, c)
    <3>1. FirstOf(results) = none
      BY <2>9, <2>10, <2>12, FirstOfOf
    <3> QED BY <2>1, <2>12, <3>1
  <2> QED BY <2>11, <2>12
<1> QED BY <1>1, <1>2, createTypeUnionOf

(* What a range and a version have in common: the version, or one listed  *)
(* at its revision that the range admits.                                 *)
RangeResult(vl, c, v, rc) ==
  /\ Admits(c, v) => rc = v
  /\ ~Admits(c, v) /\ Revisions(vl, c) \cap Revisions(vl, v) # {} =>
       \E i \in DOMAIN vl : rc = vl[i] /\ vl[i].v \in c.sem /\ Revisions(vl, v) = {vl[i].r}
  /\ ~Admits(c, v) /\ Revisions(vl, c) \cap Revisions(vl, v) = {} => rc = none

(* intersect() and matchesAny() of a range and a version, in either order. *)
LEMMA RangeMeets ==
  ASSUME NEW vl, Listing(vl), NEW c \in Ranges, NEW v \in Unpaired \cup Bare
  PROVE  /\ RangeResult(vl, c, v, intersect(vl, c, v)) /\ RangeResult(vl, c, v, intersect(vl, v, c))
         /\ matchesAny(vl, c, v) <=> Admits(c, v) \/ Revisions(vl, c) \cap Revisions(vl, v) # {}
         /\ matchesAny(vl, v, c) <=> Admits(c, v) \/ Revisions(vl, c) \cap Revisions(vl, v) # {}
<1>0. v \in Vers /\ v # none
  BY DistinctKinds DEF Vers
<1>1. /\ c.k = "range" /\ ~IsVersion(c) /\ createTypeUnion(vl, c) = c /\ ~IsUnpaired(c)
      /\ v.k \notin {"any", "none", "union", "range", "pair"} /\ IsVersion(v) /\ (v.k = "revision" \/ IsUnpaired(v))
  BY Kinds DEF createTypeUnion
<1> DEFINE w == createTypeUnion(vl, v)
           first == [i \in DOMAIN w.vs |-> Intersect1(c, w.vs[i])]
           other == [i \in DOMAIN w.vs |-> Intersect1(w.vs[i], c)]
<1>2. w.k = "union" /\ IsVersion(w)
  BY <1>0, UnionAdmitted DEF IsVersion
<1>3. \A m \in ToSet(w.vs) : m \in Vers /\ (m \in Unpaired => m = v)
  <2>1. CASE AloneUnion(vl, v, w)
    BY <1>0, <2>1, AloneMembers DEF AloneUnion
  <2>2. CASE HomeUnion(vl, v, w)
    BY <2>2, HomeMembers, DistinctKinds DEF HomeUnion
  <2> QED BY <1>0, <2>1, <2>2, createTypeUnionOf
<1>4. /\ Intersect(c, v) = IF Admits(c, v) THEN v ELSE none
      /\ Intersect(v, c) = IF Admits(c, v) THEN v ELSE none
  <2>1. Intersect(c, v) = Intersect1(c, v) /\ Intersect(v, c) = Intersect1(v, c)
    BY <1>1 DEF Intersect
  <2> QED BY <1>0, <2>1, Intersect1Of
<1>5. Intersect(c, w) = FirstOf(first) /\ Intersect(w, c) = FirstOf(other)
  BY <1>1, <1>2 DEF Intersect
<1>6. \A i \in DOMAIN w.vs : /\ first[i] = IF Admits(c, w.vs[i]) THEN w.vs[i] ELSE none
                             /\ other[i] = IF Admits(c, w.vs[i]) THEN w.vs[i] ELSE none
  <2>1. \A i \in DOMAIN w.vs : w.vs[i] \in Vers
    BY <1>3 DEF ToSet
  <2> QED BY <2>1, Intersect1Of
<1>7. /\ intersect(vl, c, v) = IF Admits(c, v) THEN v ELSE FirstOf(first)
      /\ intersect(vl, v, c) = IF Admits(c, v) THEN v ELSE FirstOf(other)
  BY <1>0, <1>1, <1>4, <1>5 DEF intersect
<1>8. ASSUME NEW results, DOMAIN results = DOMAIN w.vs,
             \A i \in DOMAIN w.vs : results[i] = IF Admits(c, w.vs[i]) THEN w.vs[i] ELSE none
      PROVE  /\ RangeResult(vl, c, v, IF Admits(c, v) THEN v ELSE FirstOf(results))
             /\ Revisions(vl, c) \cap Revisions(vl, v) # {} => FirstOf(results) # none
             /\ ~Admits(c, v) /\ Revisions(vl, c) \cap Revisions(vl, v) = {} => FirstOf(results) = none
  <2>1. RangeResult(vl, c, v, IF Admits(c, v) THEN v ELSE FirstOf(results))
    BY <1>0, <1>8, RangeUnion DEF RangeResult
  <2>2. \A i \in DOMAIN vl : vl[i] # none
    BY ListingOf, DistinctKinds
  <2>3. Revisions(vl, c) \cap Revisions(vl, v) # {} => \E i \in DOMAIN vl : FirstOf(results) = vl[i]
    BY <1>0, <1>8, RangeUnion
  <2>4. ~Admits(c, v) /\ Revisions(vl, c) \cap Revisions(vl, v) = {} => FirstOf(results) = none
    BY <1>0, <1>8, RangeUnion
  <2> QED BY <2>1, <2>2, <2>3, <2>4
<1>9. DOMAIN first = DOMAIN w.vs /\ DOMAIN other = DOMAIN w.vs
  OBVIOUS
<1>10. RangeResult(vl, c, v, intersect(vl, c, v)) /\ RangeResult(vl, c, v, intersect(vl, v, c))
  <2> HIDE DEF first, other, w
  <2>1. RangeResult(vl, c, v, IF Admits(c, v) THEN v ELSE FirstOf(first))
    BY <1>6, <1>8, <1>9
  <2>2. RangeResult(vl, c, v, IF Admits(c, v) THEN v ELSE FirstOf(other))
    BY <1>6, <1>8, <1>9
  <2> QED BY <1>7, <2>1, <2>2
<1>11. matchesAny(vl, c, v) <=> Admits(c, v) \/ Revisions(vl, c) \cap Revisions(vl, v) # {}
  <2>1. MatchesAny(c, v) <=> Intersect1(c, v) # none
    <3>1. MatchesAny(c, v) <=> MatchesAny1(c, v)
      BY <1>1 DEF MatchesAny
    <3>2. MatchesAny1(c, v) <=> Intersect1(c, v) # none
      BY <1>1 DEF MatchesAny1, IsUnpaired, IsVersion
    <3> QED BY <3>1, <3>2
  <2>2. Intersect1(c, v) # none <=> Admits(c, v)
    BY <1>0, Intersect1Of
  <2>3. MatchesAny(c, w) <=> FirstOf(first) # none
    BY <1>1, <1>2, <1>5 DEF MatchesAny
  <2>4. matchesAny(vl, c, v) <=> Admits(c, v) \/ FirstOf(first) # none
    BY <1>1, <2>1, <2>2, <2>3 DEF matchesAny
  <2>5. Revisions(vl, c) \cap Revisions(vl, v) # {} => FirstOf(first) # none
    <3> HIDE DEF first, w
    <3> QED BY <1>6, <1>8, <1>9
  <2>6. ~Admits(c, v) /\ Revisions(vl, c) \cap Revisions(vl, v) = {} => FirstOf(first) = none
    <3> HIDE DEF first, w
    <3> QED BY <1>6, <1>8, <1>9
  <2> QED BY <2>4, <2>5, <2>6
<1>12. matchesAny(vl, v, c) <=> Admits(c, v) \/ Revisions(vl, c) \cap Revisions(vl, v) # {}
  <2>1. MatchesAny(v, c) <=> Admits(c, v)
    <3>1. MatchesAny(v, c) <=> MatchesAny1(v, c)
      BY <1>1 DEF MatchesAny
    <3>2. MatchesAny1(v, c) <=> Admits(c, v)
      BY <1>1 DEF MatchesAny1, IsUnpaired, IsVersion
    <3> QED BY <3>1, <3>2
  <2>2. MatchesAny(w, c) <=> \E m \in ToSet(w.vs) : MatchesAny1(m, c)
    BY <1>1, <1>2 DEF MatchesAny
  <2>3. ASSUME NEW m \in ToSet(w.vs) PROVE MatchesAny1(m, c) <=> Admits(c, m)
    <3>1. CASE m \in Paired
      <4>1. m.k = "pair" /\ ~IsUnpaired(m)
        BY <3>1, Kinds
      <4>2. MatchesAny1(m, c) <=> Matches1(c, m)
        BY <1>1, <4>1 DEF MatchesAny1, IsUnpaired, IsVersion
      <4> QED BY <1>3, <4>2, MatchesOf
    <3>2. CASE m \in Bare \cup Unpaired
      <4>1. m.k \notin {"any", "none", "union", "range", "pair"} /\ (m.k = "revision" \/ IsUnpaired(m))
        BY <3>2, Kinds
      <4> QED BY <1>1, <4>1 DEF MatchesAny1, IsUnpaired, IsVersion
    <3> QED BY <1>3, <3>1, <3>2 DEF Vers
  <2>4. MatchesAny(w, c) <=> \E m \in ToSet(w.vs) : Admits(c, m)
    BY <2>2, <2>3
  <2>5. MatchesAny(w, c) <=> \/ Revisions(vl, c) \cap Revisions(vl, v) # {}
                             \/ Revisions(vl, v) = {} /\ Admits(c, v)
    BY <1>0, <2>4, UnionAdmitted
  <2> QED BY <1>1, <2>1, <2>5 DEF matchesAny
<1> QED BY <1>10, <1>11, <1>12

(* Some version is in both ranges. *)
Overlap(c, d) == c.sem \cap d.sem # {}

(* Two ranges have something in common when some version is in both, as    *)
(* the unifier cannot list what a range admits.                            *)
LEMMA RangesMeet ==
  ASSUME NEW vl, Listing(vl), NEW c \in Ranges, NEW d \in Ranges
  PROVE  /\ ~Overlap(c, d) => intersect(vl, c, d) = none
         /\ Overlap(c, d) => intersect(vl, c, d) = Range_(c.sem \cap d.sem)
         /\ matchesAny(vl, c, d) <=> Overlap(c, d)
         /\ Range_(c.sem \cap d.sem) \in Ranges /\ Range_(c.sem \cap d.sem).sem = c.sem \cap d.sem
<1>1. /\ c.k = "range" /\ createTypeUnion(vl, c) = c /\ d.k = "range" /\ createTypeUnion(vl, d) = d
      /\ ~IsVersion(c) /\ ~IsVersion(d) /\ c.sem \in SUBSET Semvers
  BY Kinds DEF createTypeUnion
<1>2. Range_(c.sem \cap d.sem) \in Ranges /\ Range_(c.sem \cap d.sem).sem = c.sem \cap d.sem
  BY <1>1 DEF Range_, Ranges
<1>3. Range_(c.sem \cap d.sem) # none
  BY <1>2, DistinctKinds
<1>4. Intersect(c, d) = IF c.sem \cap d.sem = {} THEN none ELSE Range_(c.sem \cap d.sem)
  <2>1. Intersect(c, d) = Intersect1(c, d)
    BY <1>1 DEF Intersect
  <2> QED BY <2>1, Intersect1Of
<1>5. MatchesAny(c, d) <=> c.sem \cap d.sem # {}
  <2>1. MatchesAny(c, d) <=> MatchesAny1(c, d)
    BY <1>1 DEF MatchesAny
  <2>2. MatchesAny1(c, d) <=> Intersect1(c, d) # none
    BY <1>1 DEF MatchesAny1, IsUnpaired, IsVersion
  <2> QED BY <1>3, <2>1, <2>2, Intersect1Of
<1> QED BY <1>1, <1>2, <1>4, <1>5 DEF intersect, matchesAny, Overlap

(* What is in common with any is the other. *)
LEMMA AnyMeets ==
  ASSUME NEW vl, NEW c \in Askable
  PROVE  /\ intersect(vl, any, c) = c /\ intersect(vl, c, any) = c
         /\ matchesAny(vl, any, c) /\ matchesAny(vl, c, any)
<1>1. /\ c.k \notin {"none", "union", "pair"} /\ c # none
      /\ c.k = "any" => c = any
      /\ c.k \notin {"any", "range"} => c.k = "revision" \/ IsUnpaired(c)
  BY Kinds, DistinctKinds DEF Askable
<1>2. any.k = "any"
  BY Kinds
<1>3. Intersect(any, c) = c /\ Intersect(c, any) = c
  <2>1. Intersect(any, c) = Intersect1(any, c) /\ Intersect(c, any) = Intersect1(c, any)
    BY <1>1, <1>2 DEF Intersect
  <2>2. Intersect1(any, c) = c
    BY <1>1, <1>2 DEF Intersect1, IsVersion
  <2>3. Intersect1(c, any) = c
    BY <1>1, <1>2 DEF Intersect1, IsVersion
  <2> QED BY <2>1, <2>2, <2>3
<1>4. MatchesAny(any, c) /\ MatchesAny(c, any)
  <2>1. (MatchesAny(any, c) <=> MatchesAny1(any, c)) /\ (MatchesAny(c, any) <=> MatchesAny1(c, any))
    BY <1>1, <1>2 DEF MatchesAny
  <2>2. MatchesAny1(any, c)
    BY <1>2 DEF MatchesAny1, IsUnpaired, IsVersion
  <2>3. MatchesAny1(c, any)
    <3>1. CASE c.k = "any"
      BY <3>1 DEF MatchesAny1, IsUnpaired, IsVersion
    <3>2. CASE c.k = "range"
      <4>1. Intersect1(c, any) # none
        BY <1>1, <1>2, <3>2 DEF Intersect1, IsVersion
      <4> QED BY <3>2, <4>1 DEF MatchesAny1, IsUnpaired, IsVersion
    <3>3. CASE c.k = "revision" \/ IsUnpaired(c)
      BY <1>2, <3>3 DEF MatchesAny1, IsUnpaired, IsVersion
    <3> QED BY <1>1, <3>1, <3>2, <3>3
  <2> QED BY <2>1, <2>2, <2>3
<1> QED BY <1>1, <1>3, <1>4 DEF intersect, matchesAny

-----------------------------------------------------------------------------
(* What an intersection is to be. *)
Meets(vl, c1, c2, rc) ==
  /\ matchesAny(vl, c1, c2) <=> rc # none
  /\ \A v \in Vers : matches(vl, rc, v) => matches(vl, c1, v) /\ matches(vl, c2, v)
  /\ {c1.k, c2.k} # {"range"} =>
       \A i \in DOMAIN vl : matches(vl, c1, vl[i]) /\ matches(vl, c2, vl[i]) => matches(vl, rc, vl[i])

(* It is so with any, *)
LEMMA AnyMeetsRight ==
  ASSUME NEW vl, Listing(vl), NEW c \in Askable
  PROVE  /\ Meets(vl, any, c, intersect(vl, any, c)) /\ Meets(vl, c, any, intersect(vl, c, any))
         /\ intersect(vl, any, c) # none /\ intersect(vl, c, any) # none
<1>1. \A v \in Vers : matches(vl, any, v)
  BY matchesOf
<1>2. \A i \in DOMAIN vl : vl[i] \in Vers
  BY ListingOf
<1>3. c # none
  BY DistinctKinds DEF Askable
<1> QED BY <1>1, <1>2, <1>3, AnyMeets DEF Meets

(* for two versions, *)
LEMMA VersionsMeetRight ==
  ASSUME NEW vl, Listing(vl), NEW x \in Unpaired \cup Bare, NEW y \in Unpaired \cup Bare
  PROVE  /\ Meets(vl, x, y, intersect(vl, x, y))
         /\ intersect(vl, x, y) = none <=> intersect(vl, y, x) = none
<1>0. x \in Vers /\ y \in Vers /\ x # none /\ y # none
  BY DistinctKinds DEF Vers
<1>1. \A z \in Unpaired \cup Bare : Revisions(vl, z) = {} \/ \E r \in Nat : Revisions(vl, z) = {r}
  <2>1. \A z \in Unpaired \cup Bare : z \in Vers
    BY DEF Vers
  <2> QED BY <2>1, createTypeUnionOf DEF HomeUnion, AloneUnion
<1>2. Matches1(x, y) <=> Matches1(y, x)
  <2>1. PICK v \in Vers : TRUE
    BY <1>0
  <2> QED BY <2>1, matchesSame
<1>3. \A i \in DOMAIN vl : vl[i] \in Vers
  BY ListingOf
<1>4. CASE Matches1(x, y)
  <2>1. intersect(vl, x, y) = x /\ intersect(vl, y, x) = y /\ matchesAny(vl, x, y)
    BY <1>2, <1>4, VersionsMeet
  <2>2. \A v \in Vers : matches(vl, x, v) <=> matches(vl, y, v)
    BY <1>4, matchesSame
  <2> QED BY <1>0, <1>3, <2>1, <2>2 DEF Meets
<1>5. CASE ~Matches1(x, y) /\ Revisions(vl, x) \cap Revisions(vl, y) = {}
  <2>1. intersect(vl, x, y) = none /\ intersect(vl, y, x) = none /\ ~matchesAny(vl, x, y)
    BY <1>2, <1>5, VersionsMeet
  <2>2. \A v \in Vers : ~matches(vl, none, v)
    BY matchesOf
  <2>3. \A i \in DOMAIN vl : ~(matches(vl, x, vl[i]) /\ matches(vl, y, vl[i]))
    BY <1>5, matchesListed
  <2> QED BY <2>1, <2>2, <2>3 DEF Meets
<1>6. CASE ~Matches1(x, y) /\ Revisions(vl, x) \cap Revisions(vl, y) # {}
  <2>1. PICK r \in Nat : Revisions(vl, x) = {r} /\ Revisions(vl, y) = {r}
    BY <1>1, <1>6
  <2>2. intersect(vl, x, y) = Revision(r) /\ intersect(vl, y, x) = Revision(r) /\ matchesAny(vl, x, y)
    BY <1>2, <1>6, <2>1, VersionsMeet
  <2>3. Revision(r) \in Bare /\ Revision(r).r = r /\ Revision(r) # none
    BY Kinds, DistinctKinds
  <2>4. \A v \in Vers : matches(vl, Revision(r), v) <=> Revisions(vl, v) = {r}
    BY <2>3, matchesHome
  <2>5. \A v \in Vers : Revisions(vl, v) = {r} => matches(vl, x, v) /\ matches(vl, y, v)
    BY <1>0, <2>1, matchesOf
  <2>6. \A i \in DOMAIN vl : matches(vl, x, vl[i]) => Revisions(vl, vl[i]) = {r}
    <3>1. \A i \in DOMAIN vl : Revisions(vl, vl[i]) = {vl[i].r}
      BY RevisionsOf, ListingOf
    <3>2. \A i \in DOMAIN vl : matches(vl, x, vl[i]) => vl[i].r = r
      BY <2>1, matchesListed
    <3> QED BY <3>1, <3>2
  <2> QED BY <1>3, <2>2, <2>3, <2>4, <2>5, <2>6 DEF Meets
<1> QED BY <1>4, <1>5, <1>6

(* for what a range and a version have in common, *)
LEMMA RangeResultRight ==
  ASSUME NEW vl, Listing(vl), NEW c \in Ranges, NEW x \in Unpaired \cup Bare, NEW rc, RangeResult(vl, c, x, rc)
  PROVE  /\ rc # none <=> Admits(c, x) \/ Revisions(vl, c) \cap Revisions(vl, x) # {}
         /\ \A v \in Vers : matches(vl, rc, v) => matches(vl, c, v) /\ matches(vl, x, v)
         /\ \A i \in DOMAIN vl : matches(vl, c, vl[i]) /\ matches(vl, x, vl[i]) => matches(vl, rc, vl[i])
<1>0. x \in Vers /\ x # none
  BY DistinctKinds DEF Vers
<1>1. \A i \in DOMAIN vl : vl[i] \in Paired /\ vl[i] \in Vers /\ vl[i] # none /\ vl[i].v \in Unpaired
  BY ListingOf, DistinctKinds
<1>2. CASE Admits(c, x)
  <2>1. rc = x /\ x \in Unpaired /\ x \in c.sem
    BY <1>2, AdmitsOf DEF RangeResult
  <2>2. ASSUME NEW v \in Vers, matches(vl, x, v) PROVE matches(vl, c, v)
    <3>1. CASE Matches1(x, v)
      <4>1. v \in Unpaired => SameName(x, v) /\ v \in c.sem
        BY <2>1, <3>1, MatchesOf, NamesSame, Kinds
      <4>2. v \notin Bare
        BY <2>1, <3>1, MatchesOf
      <4>3. v \in Paired => v.v \in c.sem
        <5>1. v \in Paired => SameName(x, v.v) /\ v.v \in Unpaired
          BY <2>1, <3>1, MatchesOf, Kinds
        <5> QED BY <2>1, <5>1, NamesSame, Kinds
      <4>4. Admits(c, v)
        BY <4>1, <4>2, <4>3, AdmitsOf DEF Vers
      <4> QED BY <4>4, MatchesOf, matchesOf
    <3>2. CASE ~Matches1(x, v)
      <4>1. Revisions(vl, x) \cap Revisions(vl, v) # {}
        BY <1>0, <2>2, <3>2, matchesOf
      <4>2. PICK i \in DOMAIN vl : SameName(x, vl[i].v) /\ Revisions(vl, x) = {vl[i].r}
        BY <2>1, <4>1, RevisionsOf
      <4>3. vl[i].v \in c.sem
        BY <1>1, <2>1, <4>2, NamesSame, Kinds
      <4>4. vl[i].r \in Revisions(vl, c)
        BY <4>3, RevisionsOf
      <4> QED BY <4>1, <4>2, <4>4, matchesOf
    <3> QED BY <3>1, <3>2
  <2> QED BY <1>0, <1>2, <2>1, <2>2
<1>3. CASE ~Admits(c, x) /\ Revisions(vl, c) \cap Revisions(vl, x) = {}
  <2>1. rc = none
    BY <1>3 DEF RangeResult
  <2>2. \A v \in Vers : ~matches(vl, none, v)
    BY matchesOf
  <2>3. \A i \in DOMAIN vl : ~(matches(vl, c, vl[i]) /\ matches(vl, x, vl[i]))
    BY <1>3, matchesListed
  <2> QED BY <1>3, <2>1, <2>2, <2>3
<1>4. CASE ~Admits(c, x) /\ Revisions(vl, c) \cap Revisions(vl, x) # {}
  <2>1. PICK i \in DOMAIN vl : rc = vl[i] /\ vl[i].v \in c.sem /\ Revisions(vl, x) = {vl[i].r}
    BY <1>4 DEF RangeResult
  <2>2. vl[i].r \in Revisions(vl, c)
    BY <2>1, RevisionsOf
  <2>3. \A v \in Vers : matches(vl, rc, v) <=> Revisions(vl, v) = {vl[i].r}
    BY <2>1, matchesHome
  <2>4. \A v \in Vers : Revisions(vl, v) = {vl[i].r} => matches(vl, c, v) /\ matches(vl, x, v)
    BY <1>0, <2>1, <2>2, matchesOf
  <2>5. ASSUME NEW j \in DOMAIN vl, matches(vl, x, vl[j]) PROVE Revisions(vl, vl[j]) = {vl[i].r}
    <3>1. vl[j].r = vl[i].r
      BY <2>1, <2>5, matchesListed
    <3> QED BY <1>1, <3>1, RevisionsOf
  <2> QED BY <1>1, <1>4, <2>1, <2>3, <2>4, <2>5
<1> QED BY <1>2, <1>3, <1>4

(* for a range and a version, *)
LEMMA RangeMeetsRight ==
  ASSUME NEW vl, Listing(vl), NEW c \in Ranges, NEW x \in Unpaired \cup Bare
  PROVE  /\ Meets(vl, c, x, intersect(vl, c, x)) /\ Meets(vl, x, c, intersect(vl, x, c))
         /\ intersect(vl, c, x) = none <=> intersect(vl, x, c) = none
<1>1. /\ RangeResult(vl, c, x, intersect(vl, c, x)) /\ RangeResult(vl, c, x, intersect(vl, x, c))
      /\ matchesAny(vl, c, x) <=> Admits(c, x) \/ Revisions(vl, c) \cap Revisions(vl, x) # {}
      /\ matchesAny(vl, x, c) <=> Admits(c, x) \/ Revisions(vl, c) \cap Revisions(vl, x) # {}
  BY RangeMeets
<1>2. ASSUME NEW rc, RangeResult(vl, c, x, rc)
      PROVE  /\ rc # none <=> Admits(c, x) \/ Revisions(vl, c) \cap Revisions(vl, x) # {}
             /\ \A v \in Vers : matches(vl, rc, v) => matches(vl, c, v) /\ matches(vl, x, v)
             /\ \A i \in DOMAIN vl : matches(vl, c, vl[i]) /\ matches(vl, x, vl[i]) => matches(vl, rc, vl[i])
  BY <1>2, RangeResultRight
<1> QED BY <1>1, <1>2 DEF Meets

(* and for two ranges. *)
LEMMA RangesMeetRight ==
  ASSUME NEW vl, Listing(vl), NEW c \in Ranges, NEW d \in Ranges
  PROVE  /\ Meets(vl, c, d, intersect(vl, c, d))
         /\ intersect(vl, c, d) = none <=> intersect(vl, d, c) = none
<1>1. c.k = "range" /\ d.k = "range"
  BY Kinds
<1> DEFINE both == Range_(c.sem \cap d.sem)
<1>2. both \in Ranges /\ both.sem = c.sem \cap d.sem /\ both # none
  BY RangesMeet, DistinctKinds
<1>3. intersect(vl, c, d) = none <=> intersect(vl, d, c) = none
  <2>1. Range_(d.sem \cap c.sem) \in Ranges /\ d.sem \cap c.sem = c.sem \cap d.sem
    BY RangesMeet
  <2>2. Range_(d.sem \cap c.sem) # none
    BY <2>1, DistinctKinds
  <2>3. Overlap(d, c) => intersect(vl, d, c) = Range_(d.sem \cap c.sem)
    BY RangesMeet
  <2>4. ~Overlap(d, c) => intersect(vl, d, c) = none
    BY RangesMeet
  <2>5. Overlap(c, d) => intersect(vl, c, d) = both
    BY RangesMeet
  <2>6. ~Overlap(c, d) => intersect(vl, c, d) = none
    BY RangesMeet
  <2> HIDE DEF both
  <2> QED BY <1>2, <2>1, <2>2, <2>3, <2>4, <2>5, <2>6 DEF Overlap
<1>4. matchesAny(vl, c, d) <=> intersect(vl, c, d) # none
  <2>1. Overlap(c, d) => intersect(vl, c, d) = both
    BY RangesMeet
  <2>2. ~Overlap(c, d) => intersect(vl, c, d) = none
    BY RangesMeet
  <2>3. matchesAny(vl, c, d) <=> Overlap(c, d)
    BY RangesMeet
  <2> HIDE DEF both
  <2> QED BY <1>2, <2>1, <2>2, <2>3
<1>5. ASSUME NEW v \in Vers, matches(vl, intersect(vl, c, d), v) PROVE matches(vl, c, v) /\ matches(vl, d, v)
  <2>1. intersect(vl, c, d) = both
    <3>1. intersect(vl, c, d) # none
      BY <1>5, matchesOf
    <3>2. Overlap(c, d) => intersect(vl, c, d) = both
      BY RangesMeet
    <3>3. ~Overlap(c, d) => intersect(vl, c, d) = none
      BY RangesMeet
    <3> QED BY <3>1, <3>2, <3>3
  <2>2. Matches1(both, v) \/ Revisions(vl, both) \cap Revisions(vl, v) # {}
    BY <1>2, <1>5, <2>1, matchesOf
  <2>3. Matches1(both, v) => Matches1(c, v) /\ Matches1(d, v)
    BY <1>2, MatchesOf, AdmitsOf DEF Vers
  <2>4. Revisions(vl, both) \subseteq Revisions(vl, c) /\ Revisions(vl, both) \subseteq Revisions(vl, d)
    <3> HIDE DEF both
    <3> QED BY <1>2, RevisionsOf
  <2> QED BY <2>2, <2>3, <2>4, matchesOf
<1> QED BY <1>1, <1>3, <1>4, <1>5 DEF Meets

(* The unifier is right for any list of a source, any constraints of       *)
(* manifests and any versions.                                             *)
LEMMA UnifierIsRight ==
  ASSUME NEW vl, Listing(vl), NEW constraints, \A c \in constraints : c \in Askable,
         NEW versions, \A v \in versions : v \in Vers
  PROVE  UnifierAgrees(vl, constraints, versions)
<1> DEFINE Allows == [c \in constraints |-> {v \in versions : matches(vl, c, v)}]
<1>1. ASSUME NEW c \in constraints \ {any, none}, NEW v \in versions
      PROVE  v \in Allows[c] <=> \/ Matches1(c, v)
                                 \/ Revisions(vl, c) \cap Revisions(vl, v) # {}
  <2>1. c \in Ranges \cup Vers /\ v \in Vers
    BY DEF Askable, Vers
  <2> QED BY <2>1, matchesOf
<1>2. ASSUME NEW c1 \in constraints, NEW c2 \in constraints
      PROVE  /\ Meets(vl, c1, c2, intersect(vl, c1, c2))
             /\ intersect(vl, c1, c2) = none <=> intersect(vl, c2, c1) = none
  <2>1. c1 \in Askable /\ c2 \in Askable
    OBVIOUS
  <2> QED BY <2>1, AnyMeetsRight, VersionsMeetRight, RangeMeetsRight, RangesMeetRight DEF Askable
<1>3. ASSUME NEW c1 \in constraints, NEW c2 \in constraints, NEW rc, rc = intersect(vl, c1, c2)
      PROVE  LET both == Allows[c1] \cap Allows[c2]
                 meet == {v \in versions : matches(vl, rc, v)}
             IN /\ matchesAny(vl, c1, c2) <=> rc # none
                /\ rc = none <=> intersect(vl, c2, c1) = none
                /\ meet \subseteq both
                /\ {c1.k, c2.k} # {"range"} => both \cap ToSet(vl) \subseteq meet
  <2>1. Meets(vl, c1, c2, rc) /\ (rc = none <=> intersect(vl, c2, c1) = none)
    BY <1>2, <1>3
  <2>2. Allows[c1] = {v \in versions : matches(vl, c1, v)} /\ Allows[c2] = {v \in versions : matches(vl, c2, v)}
    OBVIOUS
  <2>3. ToSet(vl) = {vl[i] : i \in DOMAIN vl}
    BY ListingOf
  <2> HIDE DEF Allows
  <2> QED BY <2>1, <2>2, <2>3 DEF Meets
<1> QED BY <1>1, <1>3 DEF UnifierAgrees

-----------------------------------------------------------------------------
(* Pruning. *)

(* The paths of a tree. *)
LEMMA TreePaths ==
  ASSUME NEW fs, IsTree(fs)
  PROVE  /\ \A d \in fs.dirs : d \in Paths /\ d # <<>>
         /\ \A f \in fs.files : /\ f.dir \in Paths /\ f.dir \in fs.dirs \cup {<<>>}
                                /\ f.go \in BOOLEAN /\ f.test \in BOOLEAN /\ f.legal \in BOOLEAN
         /\ \A l \in fs.links : /\ l \in Paths /\ Len(l) \in Nat /\ Len(l) > 0 /\ Front(l) \in Paths
                                /\ Len(Front(l)) = Len(l) - 1 /\ Front(l) \in fs.dirs \cup {<<>>}
                                /\ Front(l) = SubSeq(l, 1, Len(l) - 1)
         /\ \A d \in fs.dirs, s \in Paths : IsPrefix(s, d) /\ s # <<>> => s \in fs.dirs
<1>1. \A d \in fs.dirs : d \in Paths /\ d # <<>>
  BY DEF IsTree, Paths
<1>2. <<>> \in Paths
  BY DEF Paths
<1>3. \A f \in fs.files : /\ f.dir \in fs.dirs \cup {<<>>}
                          /\ f.go \in BOOLEAN /\ f.test \in BOOLEAN /\ f.legal \in BOOLEAN
  BY DEF IsTree
<1>4. ASSUME NEW l \in fs.links
      PROVE  /\ l \in Paths /\ Len(l) \in Nat /\ Len(l) > 0 /\ Front(l) \in Paths
             /\ Len(Front(l)) = Len(l) - 1 /\ Front(l) \in fs.dirs \cup {<<>>}
             /\ Front(l) = SubSeq(l, 1, Len(l) - 1)
  <2>1. l \in Paths /\ l # <<>> /\ Front(l) \in fs.dirs \cup {<<>>}
    BY DEF IsTree, Paths
  <2>2. Len(l) \in Nat /\ Len(l) > 0
    BY <2>1 DEF Paths
  <2>3. Front(l) = SubSeq(l, 1, Len(l) - 1)
    BY DEF Front
  <2>4. Len(l) - 1 \in 0..Len(l)
    BY <2>2
  <2>5. SubSeq(l, 1, Len(l) - 1) \in Paths /\ Len(SubSeq(l, 1, Len(l) - 1)) = Len(l) - 1
    BY <2>1, <2>4, Beginnings
  <2> QED BY <2>1, <2>2, <2>3, <2>5
<1>5. ASSUME NEW d \in fs.dirs, NEW s \in Paths, IsPrefix(s, d), s # <<>>
      PROVE  s \in fs.dirs
  <2>0. d \in Paths /\ Len(s) <= Len(d)
    BY <1>1, <1>5, PrefixIs
  <2>1. Len(d) \in Nat /\ Len(s) \in Nat /\ Len(s) > 0
    BY <1>5, <2>0 DEF Paths
  <2>2. SubSeq(s, 1, Len(s)) = s
    BY DEF Paths
  <2>3. s = SubSeq(d, 1, Len(s))
    BY <1>5, <2>2 DEF IsPrefix
  <2>4. Len(s) \in 1..Len(d)
    BY <2>0, <2>1
  <2> QED BY <2>3, <2>4 DEF IsTree
<1> QED BY <1>1, <1>2, <1>3, <1>4, <1>5

(* What a phase leaves is again a tree: all that is left is in directories *)
(* that are left.                                                          *)
Whole(disk) ==
  /\ disk = [dirs |-> disk.dirs, files |-> disk.files, links |-> disk.links]
  /\ \A d \in disk.dirs : d \in Paths /\ d # <<>>
  /\ \A f \in disk.files : f.dir \in disk.dirs \cup {<<>>}
  /\ \A l \in disk.links : /\ l \in Paths /\ Len(l) \in Nat /\ Len(l) > 0
                           /\ Front(l) = SubSeq(l, 1, Len(l) - 1) /\ Front(l) \in disk.dirs \cup {<<>>}
  /\ \A d \in disk.dirs, s \in Paths : IsPrefix(s, d) /\ s # <<>> => s \in disk.dirs

(* So is the tree that was walked. *)
LEMMA TreeIsWhole ==
  ASSUME NEW fs, IsTree(fs)
  PROVE  Whole(fs)
<1>1. fs = [dirs |-> fs.dirs, files |-> fs.files, links |-> fs.links]
  BY DEF IsTree
<1> QED BY <1>1, TreePaths DEF Whole

(* A path with an element vendor is one at or below a vendor directory. *)
LEMMA NestedIsBelow ==
  ASSUME NEW fs, IsTree(fs), NEW d \in fs.dirs \cup {<<>>}
  PROVE  Nested(d) <=> \E dir \in {e \in fs.dirs : InVendor(e)} : IsPrefix(dir, d)
<1>0. d \in Paths /\ Len(d) \in Nat /\ DOMAIN d = 1..Len(d)
  <2>1. <<>> \in Seq(STRING)
    OBVIOUS
  <2>2. d \in Seq(STRING)
    BY <2>1, TreePaths DEF Paths
  <2> QED BY <2>2 DEF Paths
<1>1. ASSUME Nested(d)
      PROVE  \E dir \in {e \in fs.dirs : InVendor(e)} : IsPrefix(dir, d)
  <2>1. PICK i \in 1..Len(d) : d[i] = "vendor"
    BY <1>0, <1>1 DEF Nested, ToSet
  <2> DEFINE e == SubSeq(d, 1, i)
  <2>2. e \in Paths /\ Len(e) = i /\ e[i] = "vendor" /\ IsPrefix(e, d)
    BY <1>0, <2>1, Beginnings
  <2> HIDE DEF e
  <2>3. e # <<>> /\ d # <<>>
    BY <1>0, <2>1, <2>2
  <2>4. e \in fs.dirs
    BY <2>2, <2>3, TreePaths
  <2>5. InVendor(e)
    BY <2>2, <2>3 DEF InVendor, Last
  <2> QED BY <2>2, <2>4, <2>5
<1>2. ASSUME NEW e \in fs.dirs, InVendor(e), IsPrefix(e, d)
      PROVE  Nested(d)
  <2>1. e \in Paths /\ e # <<>> /\ e[Len(e)] = "vendor"
    BY <1>2, TreePaths DEF InVendor, Last
  <2>2. Len(e) \in Nat /\ Len(e) > 0
    BY <2>1 DEF Paths
  <2>3. Len(e) <= Len(d) /\ \A i \in 1..Len(e) : e[i] = d[i]
    BY <1>0, <1>2, <2>1, PrefixIs
  <2>4. Len(e) \in DOMAIN d /\ d[Len(e)] = "vendor"
    BY <1>0, <2>1, <2>2, <2>3
  <2> QED BY <2>4 DEF Nested, ToSet
<1> QED BY <1>1, <1>2

(* pruneVendorDirs() removes what is nested, and only that. *)
LEMMA pruneVendorDirsLeaves ==
  ASSUME NEW fs, IsTree(fs), NEW left, left = pruneVendorDirs(fs, fs)
  PROVE  /\ Whole(left)
         /\ left.files = {f \in fs.files : ~Nested(f.dir)}
<1> DEFINE vendors == {e \in fs.dirs : InVendor(e)}
           Under(path) == \E dir \in vendors : IsPrefix(dir, path)
<1>1. /\ left = [dirs |-> left.dirs, files |-> left.files, links |-> left.links]
      /\ left.dirs = {d \in fs.dirs : ~Under(d)}
      /\ left.files = {f \in fs.files : ~Under(f.dir)}
      /\ left.links = {l \in fs.links : ~Under(l) /\ ~InVendor(l)}
  BY DEF pruneVendorDirs, RemoveAll
<1>2. \A d \in fs.dirs \cup {<<>>} : Under(d) <=> Nested(d)
  BY NestedIsBelow
<1>3. \A e \in vendors : e \in Paths
  BY TreePaths
<1>4. ASSUME NEW s \in Paths, NEW t \in Paths, IsPrefix(s, t), Under(s)
      PROVE  Under(t)
  BY <1>3, <1>4, PrefixesOf
<1> HIDE DEF Under, vendors
<1>5. \A f \in fs.files : f.dir \in fs.dirs \cup {<<>>}
  BY TreePaths
<1>6. left.files = {f \in fs.files : ~Nested(f.dir)}
  BY <1>1, <1>2, <1>5
<1>7. \A d \in left.dirs : d \in Paths /\ d # <<>>
  BY <1>1, TreePaths
<1>8. \A f \in left.files : f.dir \in left.dirs \cup {<<>>}
  BY <1>1, <1>5
<1>9. ASSUME NEW l \in left.links
      PROVE  /\ l \in Paths /\ Len(l) \in Nat /\ Len(l) > 0
             /\ Front(l) = SubSeq(l, 1, Len(l) - 1) /\ Front(l) \in left.dirs \cup {<<>>}
  <2>1. /\ l \in Paths /\ Len(l) \in Nat /\ Len(l) > 0 /\ Front(l) \in Paths
        /\ Front(l) = SubSeq(l, 1, Len(l) - 1) /\ Front(l) \in fs.dirs \cup {<<>>}
    BY <1>1, TreePaths
  <2>2. Len(l) - 1 \in 0..Len(l)
    BY <2>1
  <2>3. IsPrefix(Front(l), l)
    BY <2>1, <2>2, Beginnings
  <2>4. ~Under(Front(l))
    BY <1>1, <1>4, <2>1, <2>3
  <2> QED BY <1>1, <2>1, <2>4
<1>10. ASSUME NEW d \in left.dirs, NEW s \in Paths, IsPrefix(s, d), s # <<>>
       PROVE  s \in left.dirs
  <2>1. s \in fs.dirs
    BY <1>1, <1>10, TreePaths
  <2>2. ~Under(s)
    BY <1>1, <1>4, <1>7, <1>10
  <2> QED BY <1>1, <2>1, <2>2
<1> QED BY <1>1, <1>6, <1>7, <1>8, <1>9, <1>10 DEF Whole

(* Removing files leaves the directories they are in. *)
LEMMA RemoveFilesLeaves ==
  ASSUME NEW disk, Whole(disk), NEW files, NEW left, left = RemoveFiles(disk, files)
  PROVE  Whole(left) /\ left.files = disk.files \ files
<1>1. disk = [dirs |-> disk.dirs, files |-> disk.files, links |-> disk.links]
  BY DEF Whole
<1>2. /\ left = [dirs |-> left.dirs, files |-> left.files, links |-> left.links]
      /\ left.files = disk.files \ files /\ left.dirs = disk.dirs /\ left.links = disk.links
  BY <1>1 DEF RemoveFiles
<1> QED BY <1>2 DEF Whole

-----------------------------------------------------------------------------
(* There is a file or a link somewhere below a directory. *)
Holds(disk, d) ==
  \/ \E f \in disk.files : IsPrefix(d, f.dir)
  \/ \E l \in disk.links : IsPrefix(d, l) /\ Len(d) < Len(l)

(* A directory that holds something has something in it that does, or the  *)
(* thing itself.                                                           *)
LEMMA HoldsIn ==
  ASSUME NEW disk, Whole(disk), NEW d \in disk.dirs,
         NEW kept, kept = {e \in disk.dirs : Holds(disk, e)}
  PROVE  Holds(disk, d) <=> IsNonEmptyDir([disk EXCEPT !.dirs = kept], d)
<1>0. d \in Paths /\ Len(d) \in Nat /\ d # <<>>
  BY DEF Whole, Paths
<1>1. \A e \in disk.dirs : e \in Paths /\ Len(e) \in Nat
  BY DEF Whole, Paths
<1>2. <<>> \in Paths /\ Len(<<>>) = 0
  BY DEF Paths
<1>3. \A f \in disk.files : f.dir \in disk.dirs \cup {<<>>} /\ f.dir \in Paths /\ Len(f.dir) \in Nat
  BY <1>1, <1>2 DEF Whole
<1>4. IsNonEmptyDir([disk EXCEPT !.dirs = kept], d) <=>
        \/ \E e \in kept \cup disk.links : Len(e) = Len(d) + 1 /\ IsPrefix(d, e)
        \/ \E f \in disk.files : f.dir = d
  BY DEF IsNonEmptyDir, Whole
<1>5. Len(d) > 0
  BY <1>0 DEF Paths
<1>6. ASSUME NEW f \in disk.files, IsPrefix(d, f.dir), f.dir # d
      PROVE  \E e \in kept : Len(e) = Len(d) + 1 /\ IsPrefix(d, e)
  <2>1. Len(d) <= Len(f.dir) /\ \A i \in 1..Len(d) : d[i] = f.dir[i]
    BY <1>0, <1>3, <1>6, PrefixIs
  <2>2. Len(d) # Len(f.dir)
    <3>1. ASSUME NEW t \in Seq(STRING), Len(t) = Len(d), \A i \in 1..Len(d) : d[i] = t[i]
          PROVE  t = d
      BY <1>0, <3>1 DEF Paths
    <3> QED BY <1>3, <1>6, <2>1, <3>1 DEF Paths
  <2>3. Len(d) + 1 \in 0..Len(f.dir)
    BY <1>0, <1>3, <2>1, <2>2
  <2> DEFINE e == SubSeq(f.dir, 1, Len(d) + 1)
  <2>4. /\ e \in Paths /\ Len(e) = Len(d) + 1 /\ IsPrefix(e, f.dir)
        /\ IsPrefix(d, e)
    BY <1>0, <1>3, <1>6, <2>3, Beginnings
  <2> HIDE DEF e
  <2>5. f.dir \in disk.dirs /\ e # <<>>
    BY <1>0, <1>2, <1>3, <2>3, <2>4
  <2>6. e \in disk.dirs
    BY <2>4, <2>5 DEF Whole
  <2> QED BY <2>4, <2>6 DEF Holds
<1>7. ASSUME NEW l \in disk.links, IsPrefix(d, l), Len(d) < Len(l)
      PROVE  \E e \in kept \cup disk.links : Len(e) = Len(d) + 1 /\ IsPrefix(d, e)
  <2>1. /\ l \in Paths /\ Len(l) \in Nat /\ Len(l) > 0
        /\ Front(l) = SubSeq(l, 1, Len(l) - 1) /\ Front(l) \in disk.dirs \cup {<<>>}
    BY DEF Whole
  <2>2. CASE Len(l) = Len(d) + 1
    BY <1>7, <2>2
  <2>3. CASE Len(l) # Len(d) + 1
    <3>1. Len(d) + 1 \in 0..Len(l) /\ Len(l) - 1 \in 0..Len(l) /\ Len(d) + 1 < Len(l) /\ Len(d) + 1 <= Len(l) - 1
      BY <1>0, <1>7, <2>1, <2>3
    <3> DEFINE e == SubSeq(l, 1, Len(d) + 1)
               g == SubSeq(l, 1, Len(l) - 1)
    <3>2. e \in Paths /\ Len(e) = Len(d) + 1 /\ IsPrefix(e, l) /\ IsPrefix(d, e)
      BY <1>0, <1>7, <2>1, <3>1, Beginnings
    <3>3. g \in Paths /\ Len(g) = Len(l) - 1 /\ IsPrefix(e, g)
      <4>1. \A s \in Paths : IsPrefix(s, l) /\ Len(s) <= Len(l) - 1 => IsPrefix(s, g)
        BY <2>1, <3>1, Beginnings
      <4>2. g \in Paths /\ Len(g) = Len(l) - 1
        BY <2>1, <3>1, Beginnings
      <4> HIDE DEF e, g
      <4> QED BY <3>1, <3>2, <4>1, <4>2
    <3>4. g = Front(l)
      BY <2>1
    <3> HIDE DEF e, g
    <3>5. g \in disk.dirs /\ e # <<>>
      <4>1. Len(g) # 0 /\ Len(e) # 0
        BY <1>0, <2>1, <3>1, <3>2, <3>3
      <4>2. g # <<>> /\ e # <<>>
        BY <1>2, <4>1
      <4> QED BY <2>1, <3>4, <4>2
    <3>6. e \in disk.dirs
      BY <3>2, <3>3, <3>5 DEF Whole
    <3>7. Holds(disk, e)
      BY <3>1, <3>2 DEF Holds
    <3> QED BY <3>2, <3>6, <3>7
  <2> QED BY <2>2, <2>3
<1>8. ASSUME Holds(disk, d) PROVE IsNonEmptyDir([disk EXCEPT !.dirs = kept], d)
  BY <1>4, <1>6, <1>7, <1>8 DEF Holds
<1>9. ASSUME NEW e \in kept, IsPrefix(d, e) PROVE Holds(disk, d)
  <2>1. e \in Paths /\ Holds(disk, e) /\ Len(e) \in Nat
    BY <1>1
  <2>2. ASSUME NEW f \in disk.files, IsPrefix(e, f.dir) PROVE IsPrefix(d, f.dir)
    BY <1>0, <1>3, <1>9, <2>1, <2>2, PrefixesOf
  <2>3. ASSUME NEW l \in disk.links, IsPrefix(e, l), Len(e) < Len(l) PROVE IsPrefix(d, l) /\ Len(d) < Len(l)
    <3>1. l \in Paths /\ Len(l) \in Nat
      BY DEF Whole
    <3>2. Len(d) <= Len(e)
      BY <1>0, <1>9, <2>1, PrefixIs
    <3>3. Len(d) < Len(l)
      BY <1>0, <2>1, <2>3, <3>1, <3>2
    <3>4. IsPrefix(d, l)
      BY <1>0, <1>9, <2>1, <2>3, <3>1, PrefixesOf
    <3> QED BY <3>3, <3>4
  <2> QED BY <2>1, <2>2, <2>3 DEF Holds
<1>10. ASSUME NEW l \in disk.links, Len(l) = Len(d) + 1, IsPrefix(d, l) PROVE Holds(disk, d)
  <2>1. Len(d) < Len(l)
    BY <1>0, <1>10
  <2> QED BY <1>10, <2>1 DEF Holds
<1>11. ASSUME NEW f \in disk.files, f.dir = d PROVE Holds(disk, d)
  <2>1. IsPrefix(d, d)
    BY <1>0, PrefixIs
  <2> QED BY <1>11, <2>1 DEF Holds
<1> QED BY <1>4, <1>8, <1>9, <1>10, <1>11

(* deleteEmptyDirs() leaves every file in a directory, and no directory    *)
(* empty.                                                                  *)
LEMMA deleteEmptyDirsLeaves ==
  ASSUME NEW fs, NEW disk, Whole(disk), NEW left, left = deleteEmptyDirs(fs, disk)
  PROVE  /\ left.files = disk.files
         /\ \A f \in left.files : f.dir = <<>> \/ f.dir \in left.dirs
         /\ \A d \in left.dirs : IsNonEmptyDir(left, d)
<1> DEFINE Fixed(kept) == \A d \in disk.dirs : d \in kept <=> IsNonEmptyDir([disk EXCEPT !.dirs = kept], d)
           chosen == CHOOSE kept \in SUBSET disk.dirs : Fixed(kept)
<1>1. \E kept \in SUBSET disk.dirs : Fixed(kept)
  <2> DEFINE kept == {e \in disk.dirs : Holds(disk, e)}
  <2>1. Fixed(kept)
    BY HoldsIn
  <2> HIDE DEF Fixed
  <2> QED BY <2>1
<1>2. chosen \in SUBSET disk.dirs /\ Fixed(chosen)
  <2> HIDE DEF Fixed
  <2> QED BY <1>1
<1>3. left = [disk EXCEPT !.dirs = chosen]
  BY DEF deleteEmptyDirs
<1> HIDE DEF chosen
<1>4. disk = [dirs |-> disk.dirs, files |-> disk.files, links |-> disk.links]
  BY DEF Whole
<1>5. left.dirs = chosen /\ left.files = disk.files /\ left.links = disk.links
  BY <1>3, <1>4
<1>6. \A d \in left.dirs : IsNonEmptyDir(left, d)
  BY <1>2, <1>3, <1>5
<1>7. ASSUME NEW f \in left.files, f.dir # <<>> PROVE f.dir \in left.dirs
  <2>1. f \in disk.files /\ f.dir \in disk.dirs
    BY <1>5, <1>7 DEF Whole
  <2>2. IsNonEmptyDir(left, f.dir)
    BY <1>5, <2>1 DEF IsNonEmptyDir
  <2> QED BY <1>2, <1>3, <1>5, <2>1, <2>2
<1> QED BY <1>5, <1>6, <1>7

(* Pruning leaves what is needed and nothing else, for any tree, any       *)
(* imported packages and any options.                                      *)
LEMMA PruneIsRight ==
  ASSUME NEW fs, IsTree(fs), NEW imported, NEW options
  PROVE  PruneLeavesNeeded(fs, imported, options)
<1> DEFINE d1 == IF "NestedVendor" \in options THEN pruneVendorDirs(fs, fs) ELSE fs
           d2 == IF "UnusedPackages" \in options THEN pruneUnusedPackages(fs, d1, imported) ELSE d1
           d3 == IF "NonGoFiles" \in options THEN pruneNonGoFiles(fs, d2) ELSE d2
           d4 == IF "GoTests" \in options THEN pruneGoTestFiles(fs, d3) ELSE d3
           left == PruneProject(fs, imported, options)
<1>1. Whole(d1) /\ d1.files = {f \in fs.files : "NestedVendor" \in options => ~Nested(f.dir)}
  BY TreeIsWhole, pruneVendorDirsLeaves
<1>2. Whole(d2) /\ d2.files = {f \in d1.files : "UnusedPackages" \in options => f.dir \in imported \/ f.legal}
  <2> HIDE DEF d1
  <2>1. /\ collectUnusedPackagesFiles(fs, calculateUnusedPackages(fs, imported))
             = {f \in fs.files : ~f.legal /\ f.dir \notin imported}
    BY TreePaths DEF collectUnusedPackagesFiles, calculateUnusedPackages
  <2>2. d1.files \subseteq fs.files /\ \A f \in fs.files : f.legal \in BOOLEAN
    BY <1>1, TreePaths
  <2>3. ASSUME NEW u, u = pruneUnusedPackages(fs, d1, imported)
        PROVE  Whole(u) /\ u.files = d1.files \ {f \in fs.files : ~f.legal /\ f.dir \notin imported}
    BY <1>1, <2>1, <2>3, RemoveFilesLeaves DEF pruneUnusedPackages
  <2> QED BY <1>1, <2>2, <2>3
<1>3. Whole(d3) /\ d3.files = {f \in d2.files : "NonGoFiles" \in options => f.go \/ f.legal}
  <2> HIDE DEF d1, d2
  <2>1. d2.files \subseteq fs.files /\ \A f \in fs.files : f.legal \in BOOLEAN /\ f.go \in BOOLEAN
    BY <1>1, <1>2, TreePaths
  <2>2. ASSUME NEW u, u = pruneNonGoFiles(fs, d2)
        PROVE  Whole(u) /\ u.files = d2.files \ {f \in fs.files : ~f.go /\ ~f.legal}
    BY <1>2, <2>2, RemoveFilesLeaves DEF pruneNonGoFiles
  <2> QED BY <1>2, <2>1, <2>2
<1>4. Whole(d4) /\ d4.files = {f \in d3.files : "GoTests" \in options => ~f.test}
  <2> HIDE DEF d1, d2, d3
  <2>1. d3.files \subseteq fs.files /\ \A f \in fs.files : f.test \in BOOLEAN
    BY <1>1, <1>2, <1>3, TreePaths
  <2>2. ASSUME NEW u, u = pruneGoTestFiles(fs, d3)
        PROVE  Whole(u) /\ u.files = d3.files \ {f \in fs.files : f.test}
    BY <1>3, <2>2, RemoveFilesLeaves DEF pruneGoTestFiles
  <2> QED BY <1>3, <2>1, <2>2
<1>5. left = deleteEmptyDirs(fs, d4)
  BY DEF PruneProject
<1> HIDE DEF d1, d2, d3, d4, left
<1>6. /\ left.files = d4.files
      /\ \A f \in left.files : f.dir = <<>> \/ f.dir \in left.dirs
      /\ \A d \in left.dirs : IsNonEmptyDir(left, d)
  BY <1>4, <1>5, deleteEmptyDirsLeaves
<1>7. \A f : f \in left.files <=>
        /\ f \in fs.files
        /\ "NestedVendor" \in options => ~Nested(f.dir)
        /\ "UnusedPackages" \in options => f.dir \in imported \/ f.legal
        /\ "NonGoFiles" \in options => f.go \/ f.legal
        /\ "GoTests" \in options => ~f.test
  BY <1>1, <1>2, <1>3, <1>4, <1>6
<1> QED BY <1>6, <1>7 DEF PruneLeavesNeeded, Condemned, left

-----------------------------------------------------------------------------
(* Walking two sorted sequences at once. *)
Ascending(s) == s \in Seq(Nat) /\ \A i, j \in DOMAIN s : i < j => s[i] < s[j]

LEMMA AscendingOf ==
  ASSUME NEW s, Ascending(s)
  PROVE  /\ Len(s) \in Nat /\ DOMAIN s = 1..Len(s) /\ ToSet(s) = {s[i] : i \in 1..Len(s)}
         /\ \A i \in 1..Len(s) : s[i] \in Nat
         /\ \A i, j \in 1..Len(s) : i < j => s[i] < s[j]
         /\ \A i, j \in 1..Len(s) : s[i] < s[j] => i < j
         /\ \A i, j \in 1..Len(s) : s[i] = s[j] => i = j
<1>1. Len(s) \in Nat /\ DOMAIN s = 1..Len(s) /\ \A i \in 1..Len(s) : s[i] \in Nat
  BY DEF Ascending
<1>2. ToSet(s) = {s[i] : i \in 1..Len(s)}
  BY <1>1 DEF ToSet
<1>3. \A i, j \in 1..Len(s) : i < j => s[i] < s[j]
  BY <1>1 DEF Ascending
<1>4. ASSUME NEW i \in 1..Len(s), NEW j \in 1..Len(s)
      PROVE  (s[i] < s[j] => i < j) /\ (s[i] = s[j] => i = j)
  <2>1. (i < j => s[i] < s[j]) /\ (j < i => s[j] < s[i]) /\ s[i] \in Nat /\ s[j] \in Nat /\ i \in Nat /\ j \in Nat
    BY <1>1, <1>3
  <2> QED BY <2>1
<1> QED BY <1>1, <1>2, <1>3, <1>4

(* What the walk has found after n elements of the first sequence. *)
WalkInv(s1, s2, n, a) ==
  /\ a = [next |-> a.next, added |-> a.added, removed |-> a.removed, matched |-> a.matched]
  /\ a.next \in 1..(Len(s2) + 1)
  /\ \A j \in 1..Len(s2) : j < a.next => \E k \in 1..n : s2[j] <= s1[k]
  /\ \A j \in 1..Len(s2) : j >= a.next => \A k \in 1..n : s2[j] > s1[k]
  /\ a.matched = {s1[k] : k \in 1..n} \cap ToSet(s2)
  /\ a.removed = {s1[k] : k \in 1..n} \ ToSet(s2)
  /\ a.added = {s2[j] : j \in {i \in 1..Len(s2) : i < a.next}} \ ToSet(s1)

(* A step goes past all that is not greater than x. *)
WentPast(s2, x, a, b) ==
  /\ b.next \in 1..(Len(s2) + 1)
  /\ \A j \in 1..Len(s2) : j < b.next <=> s2[j] <= x
  /\ \A y : y \in b.added <=> y \in a.added \/ \E j \in 1..Len(s2) : j >= a.next /\ s2[j] < x /\ y = s2[j]
  /\ b.removed = IF x \in ToSet(s2) THEN a.removed ELSE a.removed \cup {x}
  /\ b.matched = IF x \in ToSet(s2) THEN a.matched \cup {x} ELSE a.matched

LEMMA WalkStepNext ==
  ASSUME NEW s2, Ascending(s2), NEW x \in Nat, NEW a, a.next \in 1..(Len(s2) + 1),
         \A j \in 1..Len(s2) : j < a.next => s2[j] < x,
         NEW b, b = WalkStep(s2, a, x)
  PROVE  WentPast(s2, x, a, b)
<1> DEFINE L     == Len(s2)
           equal == {i \in a.next..Len(s2) : s2[i] = x}
           end   == IF equal = {} THEN Len(s2) ELSE Min(equal)
           new   == {i \in a.next..end : s2[i] < x}
           past  == {a.next} \cup {i + 1 : i \in new \cup (equal \cap {end})}
<1>1. /\ b.next = Max(past) /\ b.added = a.added \cup {s2[i] : i \in new}
      /\ b.removed = IF equal = {} THEN a.removed \cup {x} ELSE a.removed
      /\ b.matched = IF equal = {} THEN a.matched ELSE a.matched \cup {x}
  BY DEF WalkStep
<1>2. /\ L \in Nat /\ a.next \in Nat /\ a.next >= 1 /\ a.next <= L + 1 /\ ToSet(s2) = {s2[i] : i \in 1..L}
      /\ \A i \in 1..L : s2[i] \in Nat
  BY AscendingOf
<1>3. \A i \in a.next..L : i \in 1..L
  BY <1>2
<1>4. x \in ToSet(s2) <=> equal # {}
  <2>1. ASSUME x \in ToSet(s2) PROVE equal # {}
    <3>1. PICK i \in 1..L : s2[i] = x
      BY <1>2, <2>1
    <3>2. i \in a.next..L
      BY <1>2, <3>1
    <3> QED BY <3>1, <3>2
  <2>2. ASSUME NEW i \in equal PROVE x \in ToSet(s2)
    BY <1>2, <1>3
  <2> QED BY <2>1, <2>2
<1>5. ASSUME NEW e \in equal PROVE end = e /\ e \in 1..L /\ e \in a.next..L /\ s2[e] = x
  <2>1. e \in 1..L /\ s2[e] = x /\ e \in a.next..L
    BY <1>3
  <2>2. \A i \in equal : i = e
    <3>1. \A i \in equal : i \in 1..L /\ s2[i] = x
      BY <1>3
    <3> QED BY <2>1, <3>1, AscendingOf
  <2>3. equal = {e}
    BY <2>2
  <2>4. Min(equal) = e
    BY <2>1, <2>3, Least
  <2> QED BY <2>1, <2>3, <2>4
<1>6. new = {i \in 1..L : i >= a.next /\ s2[i] < x}
  <2>1. CASE equal = {}
    <3>1. end = L
      BY <2>1
    <3> HIDE DEF end
    <3>2. \A i : i \in a.next..L <=> i \in 1..L /\ i >= a.next
      BY <1>2
    <3> QED BY <3>1, <3>2
  <2>2. ASSUME NEW e \in equal PROVE new = {i \in 1..L : i >= a.next /\ s2[i] < x}
    <3>1. end = e /\ e \in 1..L /\ s2[e] = x
      BY <1>5
    <3> HIDE DEF end
    <3>2. \A i \in 1..L : s2[i] < x => i < e
      BY <3>1, AscendingOf
    <3>3. \A i : i \in a.next..e /\ s2[i] < x <=> i \in 1..L /\ i >= a.next /\ s2[i] < x
      BY <1>2, <3>1, <3>2
    <3> QED BY <3>1, <3>3
  <2> QED BY <2>1, <2>2
<1>7. equal \cap {end} = equal
  BY <1>5
<1> HIDE DEF end
<1> DEFINE seen == {i \in 1..L : i >= a.next /\ s2[i] <= x}
<1>8. new \cup (equal \cap {end}) = seen
  <2>1. \A i : i \in equal <=> i \in 1..L /\ i >= a.next /\ s2[i] = x
    BY <1>2
  <2> HIDE DEF equal, new
  <2>2. \A i \in 1..L : s2[i] <= x <=> s2[i] < x \/ s2[i] = x
    BY <1>2
  <2> QED BY <1>6, <1>7, <2>1, <2>2
<1>9. past = {a.next} \cup {i + 1 : i \in seen}
  BY <1>8
<1> HIDE DEF past, equal, new
<1>10. past \in SUBSET Nat /\ past # {} /\ \A y \in past : y <= L + 1
  <2>1. \A i \in seen : i + 1 \in Nat /\ i + 1 <= L + 1
    BY <1>2
  <2> HIDE DEF seen
  <2> QED BY <1>2, <1>9, <2>1
<1>11. Max(past) \in past /\ \A y \in past : Max(past) >= y
  <2>1. L + 1 \in Nat
    BY <1>2
  <2> QED BY <1>10, <2>1, Greatest
<1>12. b.next \in past /\ \A y \in past : b.next >= y
  BY <1>1, <1>11
<1>13. b.next \in 1..(L + 1)
  BY <1>2, <1>9, <1>12
<1>14. ASSUME NEW j \in 1..L, s2[j] <= x PROVE j < b.next
  <2>1. CASE j < a.next
    BY <1>2, <1>9, <1>12, <1>13, <2>1
  <2>2. CASE j >= a.next
    <3>1. j + 1 \in past
      BY <1>9, <1>14, <2>2
    <3>2. b.next >= j + 1
      BY <1>12, <3>1
    <3> QED BY <1>13, <3>2
  <2> QED BY <1>2, <2>1, <2>2
<1>15. ASSUME NEW j \in 1..L, j < b.next PROVE s2[j] <= x
  <2>1. CASE j < a.next
    BY <1>2, <2>1
  <2>2. CASE ~(j < a.next)
    <3>1. b.next # a.next
      BY <1>15, <2>2
    <3>2. PICK i \in seen : b.next = i + 1
      BY <1>9, <1>12, <3>1
    <3>3. j = i \/ j < i
      BY <1>15, <3>2
    <3>4. s2[j] <= s2[i]
      BY <1>2, <3>2, <3>3, AscendingOf
    <3> QED BY <1>2, <3>2, <3>4
  <2> QED BY <2>1, <2>2
<1>16. \A y : y \in b.added <=> y \in a.added \/ \E j \in 1..L : j >= a.next /\ s2[j] < x /\ y = s2[j]
  BY <1>1, <1>6
<1> QED BY <1>1, <1>4, <1>13, <1>14, <1>15, <1>16 DEF WentPast

(* The first n elements of a sequence in order are those before the next. *)
LEMMA WalkKeeps ==
  ASSUME NEW s1, Ascending(s1), NEW s2, Ascending(s2), NEW n \in Nat, NEW m, m = n + 1, m \in 1..Len(s1),
         NEW a, WalkInv(s1, s2, n, a), NEW b, b = WalkStep(s2, a, s1[m])
  PROVE  WalkInv(s1, s2, m, b)
<1> DEFINE x == s1[m]
           L == Len(s2)
<1>1. /\ L \in Nat /\ ToSet(s2) = {s2[i] : i \in 1..L} /\ \A i \in 1..L : s2[i] \in Nat
      /\ Len(s1) \in Nat /\ ToSet(s1) = {s1[i] : i \in 1..Len(s1)} /\ \A i \in 1..Len(s1) : s1[i] \in Nat
  BY AscendingOf
<1>2. /\ x \in Nat /\ 1..m = 1..n \cup {m} /\ \A k \in 1..n : k \in 1..Len(s1) /\ s1[k] \in Nat /\ s1[k] < x
  BY <1>1, AscendingOf
<1>3. a.next \in 1..(L + 1) /\ a.next \in Nat
  BY <1>1 DEF WalkInv
<1>4. ASSUME NEW j \in 1..L, j < a.next PROVE s2[j] < x
  <2>1. PICK k \in 1..n : s2[j] <= s1[k]
    BY <1>4 DEF WalkInv
  <2>2. s2[j] \in Nat /\ s1[k] \in Nat /\ x \in Nat /\ s1[k] < x
    BY <1>1, <1>2
  <2> HIDE DEF x
  <2> QED BY <2>1, <2>2
<1>0. b = [next |-> b.next, added |-> b.added, removed |-> b.removed, matched |-> b.matched]
  BY DEF WalkStep
<1>5. /\ b.next \in 1..(L + 1)
      /\ \A j \in 1..L : j < b.next <=> s2[j] <= x
      /\ \A y : y \in b.added <=> y \in a.added \/ \E j \in 1..L : j >= a.next /\ s2[j] < x /\ y = s2[j]
      /\ b.removed = IF x \in ToSet(s2) THEN a.removed ELSE a.removed \cup {x}
      /\ b.matched = IF x \in ToSet(s2) THEN a.matched \cup {x} ELSE a.matched
  <2>1. b = WalkStep(s2, a, x) /\ x \in Nat /\ \A j \in 1..Len(s2) : j < a.next => s2[j] < x
    BY <1>2, <1>4
  <2>2. ASSUME NEW z, z = x PROVE WentPast(s2, z, a, b)
    <3>1. z \in Nat /\ b = WalkStep(s2, a, z) /\ \A j \in 1..Len(s2) : j < a.next => s2[j] < z
      BY <2>1, <2>2
    <3> QED BY <1>3, <3>1, WalkStepNext
  <2> HIDE DEF x
  <2> QED BY <2>2 DEF WentPast
<1>6. {s1[k] : k \in 1..m} = {s1[k] : k \in 1..n} \cup {x}
  BY <1>2
<1>7. b.matched = {s1[k] : k \in 1..m} \cap ToSet(s2)
  <2>1. a.matched = {s1[k] : k \in 1..n} \cap ToSet(s2)
    BY DEF WalkInv
  <2> HIDE DEF x
  <2> QED BY <1>5, <1>6, <2>1
<1>8. b.removed = {s1[k] : k \in 1..m} \ ToSet(s2)
  <2>1. a.removed = {s1[k] : k \in 1..n} \ ToSet(s2)
    BY DEF WalkInv
  <2> HIDE DEF x
  <2> QED BY <1>5, <1>6, <2>1
<1>9. ASSUME NEW j \in 1..L PROVE s2[j] \in ToSet(s1) /\ j >= a.next => s2[j] >= x
  <2>1. ASSUME NEW k \in 1..Len(s1), s2[j] = s1[k], j >= a.next PROVE s2[j] >= x
    <3>1. k \notin 1..n
      <4>1. k \in 1..n => s2[j] > s1[k]
        BY <2>1 DEF WalkInv
      <4> QED BY <1>1, <2>1, <4>1
    <3>2. k = m \/ m < k
      BY <1>1, <3>1
    <3> QED BY <1>1, <2>1, <3>2, AscendingOf
  <2> QED BY <1>1, <2>1
<1>10. x \in ToSet(s1)
  BY <1>1
<1>11. b.added = {s2[j] : j \in {i \in 1..L : i < b.next}} \ ToSet(s1)
  <2>1. a.added = {s2[j] : j \in {i \in 1..L : i < a.next}} \ ToSet(s1)
    BY DEF WalkInv
  <2>2. ASSUME NEW j \in 1..L, j >= a.next, s2[j] < x PROVE j < b.next /\ s2[j] \notin ToSet(s1)
    <3>1. s2[j] \in Nat /\ x \in Nat
      BY <1>1, <1>2
    <3>2. (j < b.next <=> s2[j] <= x) /\ (s2[j] \in ToSet(s1) => s2[j] >= x)
      BY <1>5, <1>9, <2>2
    <3> HIDE DEF x, L
    <3> QED BY <2>2, <3>1, <3>2
  <2>3. ASSUME NEW j \in 1..L, j < a.next PROVE j < b.next
    BY <1>1, <1>2, <1>4, <1>5, <2>3
  <2>4. ASSUME NEW j \in 1..L, j < b.next, s2[j] \notin ToSet(s1) PROVE j < a.next \/ (j >= a.next /\ s2[j] < x)
    <3>1. s2[j] <= x /\ s2[j] # x
      BY <1>5, <1>10, <2>4
    <3> QED BY <1>1, <1>2, <1>3, <3>1
  <2> HIDE DEF x, L
  <2> QED BY <1>5, <2>1, <2>2, <2>3, <2>4
<1>12. ASSUME NEW j \in 1..L, j < b.next PROVE \E k \in 1..m : s2[j] <= s1[k]
  BY <1>2, <1>5, <1>12
<1>13. ASSUME NEW j \in 1..L, j >= b.next, NEW k \in 1..m PROVE s2[j] > s1[k]
  <2>1. ~(j < b.next)
    BY <1>1, <1>5, <1>13
  <2>2. s2[j] > x
    <3>1. ~(s2[j] <= x) /\ s2[j] \in Nat /\ x \in Nat
      BY <1>1, <1>2, <1>5, <2>1
    <3> HIDE DEF x
    <3> QED BY <3>1
  <2>3. s1[k] <= x
    BY <1>2
  <2> QED BY <1>1, <1>2, <2>2, <2>3
<1> QED BY <1>0, <1>5, <1>7, <1>8, <1>11, <1>12, <1>13 DEF WalkInv

(* The states of the loop. *)
IsWalk(s1, s2, acc) ==
  acc = [n \in 0..Len(s1) |-> IF n = 0 THEN WalkStart ELSE WalkStep(s2, acc[n - 1], s1[n])]

LEMMA WalkExists ==
  ASSUME NEW s1 \in Seq(Nat), NEW s2
  PROVE  \E acc : IsWalk(s1, s2, acc)
<1> DEFINE Upto(m, acc) ==
             acc = [n \in 0..m |-> IF n = 0 THEN WalkStart ELSE WalkStep(s2, acc[n - 1], s1[n])]
           S == {m \in Nat : \E acc : Upto(m, acc)}
<1>1. 0 \in S
  <2> DEFINE acc == [n \in 0..0 |-> WalkStart]
  <2>1. Upto(0, acc)
    <3>1. \A n \in 0..0 : n = 0
      OBVIOUS
    <3> QED BY <3>1
  <2> QED BY <2>1
<1>2. ASSUME NEW m \in S PROVE m + 1 \in S
  <2>1. PICK old : Upto(m, old)
    BY <1>2
  <2>2. m \in Nat
    BY <1>2
  <2> DEFINE acc == [n \in 0..(m + 1) |-> IF n = m + 1 THEN WalkStep(s2, old[m], s1[m + 1]) ELSE old[n]]
  <2>3. \A n \in 0..m : acc[n] = old[n]
    BY <2>2
  <2>4. ASSUME NEW n \in 0..(m + 1)
        PROVE  acc[n] = IF n = 0 THEN WalkStart ELSE WalkStep(s2, acc[n - 1], s1[n])
    <3>1. CASE n = m + 1
      <4>1. n # 0 /\ n - 1 = m /\ m \in 0..m /\ acc[n] = WalkStep(s2, old[m], s1[n])
        BY <2>2, <3>1
      <4>2. acc[n - 1] = old[m]
        BY <2>3, <4>1
      <4> HIDE DEF acc
      <4> QED BY <4>1, <4>2
    <3>2. CASE n # m + 1
      <4>1. n \in 0..m
        BY <2>2, <3>2
      <4>2. old[n] = IF n = 0 THEN WalkStart ELSE WalkStep(s2, old[n - 1], s1[n])
        BY <2>1, <4>1
      <4>3. n # 0 => n - 1 \in 0..m
        BY <2>2, <4>1
      <4> HIDE DEF acc
      <4> QED BY <2>3, <4>1, <4>2, <4>3
    <3> QED BY <3>1, <3>2
  <2>5. acc = [n \in 0..(m + 1) |-> acc[n]]
    OBVIOUS
  <2> HIDE DEF acc
  <2>6. Upto(m + 1, acc)
    BY <2>4, <2>5
  <2> QED BY <2>2, <2>6
<1> HIDE DEF S, Upto
<1>3. S = Nat
  BY <1>1, <1>2, Induction DEF S
<1>4. Len(s1) \in Nat
  OBVIOUS
<1>5. \E acc : Upto(Len(s1), acc)
  BY <1>3, <1>4 DEF S
<1> QED BY <1>5 DEF Upto, IsWalk

(* The walk finds what is in one sequence only, and what is in both. *)
LEMMA WalkOf ==
  ASSUME NEW s1, Ascending(s1), NEW s2, Ascending(s2)
  PROVE  /\ Walk(s1, s2).added = ToSet(s2) \ ToSet(s1)
         /\ Walk(s1, s2).removed = ToSet(s1) \ ToSet(s2)
         /\ Walk(s1, s2).matched = ToSet(s1) \cap ToSet(s2)
<1> DEFINE acc == CHOOSE acc : IsWalk(s1, s2, acc)
           all == acc[Len(s1)]
<1>1. /\ Len(s1) \in Nat /\ ToSet(s1) = {s1[i] : i \in 1..Len(s1)} /\ \A i \in 1..Len(s1) : s1[i] \in Nat
      /\ Len(s2) \in Nat /\ ToSet(s2) = {s2[i] : i \in 1..Len(s2)} /\ \A i \in 1..Len(s2) : s2[i] \in Nat
  BY AscendingOf
<1>2. IsWalk(s1, s2, acc)
  BY WalkExists DEF Ascending
<1>3. Walk(s1, s2) = [all EXCEPT !.added = @ \cup {s2[i] : i \in all.next..Len(s2)}]
  BY DEF Walk, IsWalk
<1> HIDE DEF acc
<1>4. /\ acc[0] = WalkStart
      /\ \A n \in 1..Len(s1) : acc[n] = WalkStep(s2, acc[n - 1], s1[n])
  BY <1>1, <1>2 DEF IsWalk
<1> DEFINE S == {n \in Nat : n <= Len(s1) => WalkInv(s1, s2, n, acc[n])}
<1>5. 0 \in S
  <2>0. WalkStart = [next |-> WalkStart.next, added |-> WalkStart.added, removed |-> WalkStart.removed, matched |-> WalkStart.matched]
    BY DEF WalkStart
  <2>1. WalkStart.next = 1 /\ WalkStart.added = {} /\ WalkStart.removed = {} /\ WalkStart.matched = {}
    BY DEF WalkStart
  <2>2. 1..0 = {} /\ {i \in 1..Len(s2) : i < 1} = {}
    BY <1>1
  <2>3. WalkInv(s1, s2, 0, WalkStart)
    BY <1>1, <2>0, <2>1, <2>2 DEF WalkInv
  <2> QED BY <1>4, <2>3
<1>6. ASSUME NEW n \in S PROVE n + 1 \in S
  <2>1. n \in Nat /\ n + 1 \in Nat /\ (n <= Len(s1) => WalkInv(s1, s2, n, acc[n]))
    BY <1>6
  <2>2. ASSUME n + 1 <= Len(s1) PROVE WalkInv(s1, s2, n + 1, acc[n + 1])
    <3>1. n <= Len(s1) /\ n + 1 \in 1..Len(s1) /\ (n + 1) - 1 = n
      BY <1>1, <2>1, <2>2
    <3>2. acc[n + 1] = WalkStep(s2, acc[n], s1[n + 1])
      BY <1>4, <3>1
    <3> QED BY <2>1, <3>1, <3>2, WalkKeeps
  <2> QED BY <2>1, <2>2
<1> HIDE DEF S
<1>7. S = Nat
  BY <1>5, <1>6, Induction DEF S
<1>8. WalkInv(s1, s2, Len(s1), all)
  BY <1>1, <1>7 DEF S
<1>9. /\ all = [next |-> all.next, added |-> all.added, removed |-> all.removed, matched |-> all.matched]
      /\ all.next \in 1..(Len(s2) + 1) /\ all.next \in Nat
      /\ \A j \in 1..Len(s2) : j >= all.next => \A k \in 1..Len(s1) : s2[j] > s1[k]
      /\ all.added = {s2[j] : j \in {i \in 1..Len(s2) : i < all.next}} \ ToSet(s1)
      /\ all.removed = ToSet(s1) \ ToSet(s2) /\ all.matched = ToSet(s1) \cap ToSet(s2)
  BY <1>1, <1>8 DEF WalkInv
<1> HIDE DEF all
<1>10. /\ Walk(s1, s2).removed = all.removed /\ Walk(s1, s2).matched = all.matched
       /\ Walk(s1, s2).added = all.added \cup {s2[i] : i \in all.next..Len(s2)}
  <2>1. ASSUME NEW u, u = [all EXCEPT !.added = @ \cup {s2[i] : i \in all.next..Len(s2)}]
        PROVE  /\ u.removed = all.removed /\ u.matched = all.matched
               /\ u.added = all.added \cup {s2[i] : i \in all.next..Len(s2)}
    BY <1>9, <2>1
  <2> QED BY <1>3, <2>1
<1>11. all.added \cup {s2[i] : i \in all.next..Len(s2)} = ToSet(s2) \ ToSet(s1)
  <2>1. \A i : i \in all.next..Len(s2) <=> i \in 1..Len(s2) /\ ~(i < all.next)
    BY <1>1, <1>9
  <2>2. ASSUME NEW i \in 1..Len(s2), ~(i < all.next) PROVE s2[i] \notin ToSet(s1)
    <3>1. i >= all.next
      BY <1>9, <2>2
    <3>2. \A k \in 1..Len(s1) : s2[i] > s1[k]
      BY <1>9, <3>1
    <3>3. \A k \in 1..Len(s1) : s2[i] # s1[k]
      BY <1>1, <3>2
    <3> QED BY <1>1, <3>3
  <2> QED BY <1>1, <1>9, <2>1, <2>2
<1> QED BY <1>9, <1>10, <1>11

-----------------------------------------------------------------------------
(* The difference between two locks. *)

(* A sequence sorted by different keys: the keys ascend with its elements. *)
SortedAs(n, s, key, t) ==
  /\ DOMAIN t = 1..n /\ ToSet(t) = ToSet(s)
  /\ \E ks : Ascending(ks) /\ DOMAIN ks = 1..n /\ \A i \in 1..n : \E j \in 1..n : ks[i] = key[j] /\ t[i] = s[j]

LEMMA SortedAscends ==
  ASSUME NEW n \in Nat, NEW s, DOMAIN s = 1..n, NEW key \in [1..n -> Nat], IsInjective(key),
         NEW t, t = SortedBy(s, key)
  PROVE  SortedAs(n, s, key, t)
<1>0. InOrder(n, s, key, t)
  BY SortedByOf
<1>1. DOMAIN t = 1..n /\ ToSet(t) = ToSet(s)
  BY <1>0 DEF InOrder
<1>2. PICK p \in [1..n -> 1..n] : /\ \A i \in 1..n : t[i] = s[p[i]]
                                 /\ \A i, j \in 1..n : i < j => key[p[i]] < key[p[j]]
  BY <1>0 DEF InOrder
<1> DEFINE ks == [i \in 1..n |-> key[p[i]]]
<1>3. ks \in Seq(Nat) /\ DOMAIN ks = 1..n /\ \A i \in 1..n : ks[i] = key[p[i]] /\ p[i] \in 1..n
  <2>1. \A i \in 1..n : p[i] \in 1..n /\ key[p[i]] \in Nat
    BY <1>2
  <2>2. ks \in [1..n -> Nat]
    BY <2>1
  <2> HIDE DEF ks
  <2>3. ks \in Seq(Nat)
    BY <2>2
  <2> QED BY <2>1, <2>2, <2>3 DEF ks
<1> HIDE DEF ks
<1>4. Ascending(ks)
  BY <1>2, <1>3 DEF Ascending
<1>5. \A i \in 1..n : \E j \in 1..n : ks[i] = key[j] /\ t[i] = s[j]
  BY <1>2, <1>3
<1> QED BY <1>1, <1>3, <1>4, <1>5 DEF SortedAs

(* What IsLock() says of the projects of a lock. *)
LEMMA LockOf ==
  ASSUME NEW l, IsLock(l), NEW lps, lps = l.projects
  PROVE  /\ Len(lps) \in Nat /\ DOMAIN lps = 1..Len(lps) /\ ToSet(lps) = {lps[i] : i \in 1..Len(lps)}
         /\ IsInjective([i \in DOMAIN lps |-> lps[i].root])
         /\ \A i \in 1..Len(lps) : /\ lps[i].root \in Nat /\ lps[i].pkgs \in Seq(Nat) /\ IsInjective(lps[i].pkgs)
<1>1. /\ lps \in Seq(LockedProjects) /\ IsInjective([i \in DOMAIN lps |-> lps[i].root])
      /\ \A i \in DOMAIN lps : IsInjective(lps[i].pkgs)
  BY DEF IsLock
<1>2. Len(lps) \in Nat /\ DOMAIN lps = 1..Len(lps) /\ \A i \in 1..Len(lps) : lps[i] \in LockedProjects
  BY <1>1
<1>3. \A lp \in LockedProjects : lp.root \in Nat /\ lp.pkgs \in Seq(Nat)
  BY DEF LockedProjects
<1>4. ToSet(lps) = {lps[i] : i \in 1..Len(lps)}
  BY <1>2 DEF ToSet
<1> QED BY <1>1, <1>2, <1>3, <1>4

(* The projects of a lock in the order of their roots. *)
LEMMA SortedProjects ==
  ASSUME NEW l, IsLock(l), NEW p, p = sortedLockedProjects(l.projects),
         NEW roots, roots = [i \in DOMAIN p |-> p[i].root]
  PROVE  /\ ToSet(p) = ToSet(l.projects) /\ Ascending(roots)
         /\ \A r : r \in ToSet(roots) <=> \E lp \in ToSet(l.projects) : lp.root = r
<1>0. PICK lps : lps = l.projects
  OBVIOUS
<1>02. PICK n : n = Len(lps)
  OBVIOUS
<1>01. PICK key : key = [i \in DOMAIN lps |-> lps[i].root]
  OBVIOUS
<1>1. n \in Nat /\ DOMAIN lps = 1..n /\ IsInjective(key) /\ \A i \in 1..n : lps[i].root \in Nat
  BY <1>0, <1>02, <1>01, LockOf
<1>2. key \in [1..n -> Nat] /\ \A i \in 1..n : key[i] = lps[i].root
  BY <1>01, <1>1
<1>3. SortedAs(n, lps, key, p)
  <2>1. p = SortedBy(lps, key)
    BY <1>0, <1>01 DEF sortedLockedProjects
  <2> QED BY <1>1, <1>2, <2>1, SortedAscends
<1>4. PICK ks : Ascending(ks) /\ DOMAIN ks = 1..n /\ \A i \in 1..n : \E j \in 1..n : ks[i] = key[j] /\ p[i] = lps[j]
  BY <1>3 DEF SortedAs
<1>5. DOMAIN p = 1..n /\ ToSet(p) = ToSet(lps)
  BY <1>3 DEF SortedAs
<1>6. \A i \in 1..n : ks[i] = p[i].root
  BY <1>2, <1>4
<1>7. roots = ks
  <2>1. ks = [i \in 1..n |-> ks[i]]
    BY <1>4 DEF Ascending
  <2> QED BY <1>5, <1>6, <2>1
<1>9. ASSUME NEW r PROVE r \in ToSet(roots) <=> \E lp \in ToSet(p) : lp.root = r
  <2>1. ToSet(ks) = {ks[i] : i \in 1..n}
    BY <1>4 DEF ToSet
  <2>2. ToSet(p) = {p[i] : i \in 1..n}
    BY <1>5 DEF ToSet
  <2>3. r \in ToSet(ks) <=> \E lp \in ToSet(p) : lp.root = r
    BY <1>6, <2>1, <2>2
  <2> QED BY <1>7, <2>3
<1> QED BY <1>0, <1>4, <1>5, <1>7, <1>9

(* A lock has a project once. *)
LEMMA ProjectsOnce ==
  ASSUME NEW l, IsLock(l), NEW lp \in ToSet(l.projects)
  PROVE  /\ \A lq \in ToSet(l.projects) : lq.root = lp.root => lq = lp
         /\ lp.pkgs \in Seq(Nat) /\ IsInjective(lp.pkgs)
<1>0. PICK lps : lps = l.projects
  OBVIOUS
<1>02. PICK n : n = Len(lps)
  OBVIOUS
<1>01. PICK key : key = [i \in DOMAIN lps |-> lps[i].root]
  OBVIOUS
<1>10. IsInjective(key)
  BY <1>0, <1>01, LockOf
<1>1. n \in Nat /\ DOMAIN lps = 1..n /\ \A i \in 1..n : lps[i].pkgs \in Seq(Nat) /\ IsInjective(lps[i].pkgs)
  BY <1>0, <1>02, LockOf
<1>11. ToSet(lps) = {lps[i] : i \in 1..n}
  BY <1>1 DEF ToSet
<1>2. DOMAIN key = 1..n /\ \A i \in 1..n : key[i] = lps[i].root
  BY <1>01, <1>1
<1>3. \A i, j \in 1..n : lps[i].root = lps[j].root => i = j
  BY <1>10, <1>2 DEF IsInjective
<1> QED BY <1>0, <1>1, <1>11, <1>3

(* The packages that DiffProjects() adds and removes. *)
LEMMA PackagesDiff ==
  ASSUME NEW s1 \in Seq(Nat), IsInjective(s1), NEW s2 \in Seq(Nat), IsInjective(s2)
  PROVE  /\ Walk(SortedBy(s1, s1), SortedBy(s2, s2)).added = ToSet(s2) \ ToSet(s1)
         /\ Walk(SortedBy(s1, s1), SortedBy(s2, s2)).removed = ToSet(s1) \ ToSet(s2)
<1>1. ASSUME NEW s \in Seq(Nat), IsInjective(s), NEW t, t = SortedBy(s, s)
      PROVE  Ascending(t) /\ ToSet(t) = ToSet(s)
  <2>0. PICK n : n = Len(s)
    OBVIOUS
  <2>1. n \in Nat /\ DOMAIN s = 1..n /\ s \in [1..n -> Nat]
    BY <2>0
  <2>2. SortedAs(n, s, s, t)
    BY <1>1, <2>1, SortedAscends
  <2>3. PICK ks : Ascending(ks) /\ DOMAIN ks = 1..n /\ \A i \in 1..n : \E j \in 1..n : ks[i] = s[j] /\ t[i] = s[j]
    BY <2>2 DEF SortedAs
  <2>4. DOMAIN t = 1..n /\ ToSet(t) = ToSet(s) /\ \A i \in 1..n : t[i] = ks[i]
    BY <2>2, <2>3 DEF SortedAs
  <2>5. t = [i \in 1..n |-> t[i]]
    BY <1>1, <2>1 DEF SortedBy
  <2>6. ks = [i \in 1..n |-> ks[i]]
    BY <2>3 DEF Ascending
  <2>7. t = ks
    BY <2>4, <2>5, <2>6
  <2> QED BY <2>3, <2>4, <2>7
<1> QED BY <1>1, WalkOf

(* What DiffProjects() says of two locked versions of a project: applied   *)
(* to the first it gives the second, and it says something unless they     *)
(* are the same but for the branch.                                        *)
LEMMA ProjectDiff ==
  ASSUME NEW lp, lp.pkgs \in Seq(Nat), IsInjective(lp.pkgs),
         NEW lq, lq.pkgs \in Seq(Nat), IsInjective(lq.pkgs), lp.root = lq.root,
         NEW p, p = buildLockedProjectDiff(lp), NEW q, q = buildLockedProjectDiff(lq),
         NEW d, d = DiffProjects(lp, lq)
  PROVE  /\ d.name = lp.root /\ Patched(p, d) = q
         /\ ~Differs(d) <=> Unbranch(p) = Unbranch(q)
<1>1. PICK c1 : c1 = VersionComponentStrings(VersionOf(lp))
  OBVIOUS
<1>2. PICK c2 : c2 = VersionComponentStrings(VersionOf(lq))
  OBVIOUS
<1>3. c1 = [revision |-> c1.revision, branch |-> c1.branch, version |-> c1.version]
  <2>1. \A v : VersionComponentStrings(v) = [revision |-> VersionComponentStrings(v).revision,
                 branch |-> VersionComponentStrings(v).branch, version |-> VersionComponentStrings(v).version]
    BY DEF VersionComponentStrings
  <2> QED BY <1>1, <2>1
<1>4. c2 = [revision |-> c2.revision, branch |-> c2.branch, version |-> c2.version]
  <2>1. \A v : VersionComponentStrings(v) = [revision |-> VersionComponentStrings(v).revision,
                 branch |-> VersionComponentStrings(v).branch, version |-> VersionComponentStrings(v).version]
    BY DEF VersionComponentStrings
  <2> QED BY <1>2, <2>1
<1>5. /\ p = [name |-> lp.root, source |-> lp.source, pkgs |-> ToSet(lp.pkgs), parts |-> c1]
      /\ q = [name |-> lq.root, source |-> lq.source, pkgs |-> ToSet(lq.pkgs), parts |-> c2]
  BY <1>1, <1>2 DEF buildLockedProjectDiff
<1>6. /\ d.name = lp.root /\ d.source = StringDiff(lp.source, lq.source)
      /\ d.revision = StringDiff(c1.revision, c2.revision) /\ d.branch = StringDiff(c1.branch, c2.branch)
      /\ d.version = StringDiff(c1.version, c2.version)
      /\ d.added = ToSet(lq.pkgs) \ ToSet(lp.pkgs) /\ d.removed = ToSet(lp.pkgs) \ ToSet(lq.pkgs)
  <2>1. PICK w : w = Walk(SortedBy(lp.pkgs, lp.pkgs), SortedBy(lq.pkgs, lq.pkgs))
    OBVIOUS
  <2>2. w.added = ToSet(lq.pkgs) \ ToSet(lp.pkgs) /\ w.removed = ToSet(lp.pkgs) \ ToSet(lq.pkgs)
    BY <2>1, PackagesDiff
  <2>3. d = [name |-> lp.root, source |-> StringDiff(lp.source, lq.source),
             revision |-> StringDiff(c1.revision, c2.revision), branch |-> StringDiff(c1.branch, c2.branch),
             version |-> StringDiff(c1.version, c2.version), added |-> w.added, removed |-> w.removed]
    BY <1>1, <1>2, <2>1 DEF DiffProjects
  <2> QED BY <2>2, <2>3
<1>7. \A x, y : Current(x, StringDiff(x, y)) = y
  BY DEF Current, StringDiff
<1>8. \A x, y : StringDiff(x, y) = <<>> <=> x = y
  BY DEF StringDiff
<1>9. Patched(p, d) = q
  <2>1. /\ Current(lp.source, d.source) = lq.source /\ Current(c1.revision, d.revision) = c2.revision
        /\ Current(c1.branch, d.branch) = c2.branch /\ Current(c1.version, d.version) = c2.version
    BY <1>6, <1>7
  <2>2. (ToSet(lp.pkgs) \ d.removed) \cup d.added = ToSet(lq.pkgs)
    BY <1>6
  <2>3. Patched(p, d) = [name |-> lp.root, source |-> Current(lp.source, d.source),
          pkgs |-> (ToSet(lp.pkgs) \ d.removed) \cup d.added,
          parts |-> [revision |-> Current(c1.revision, d.revision), branch |-> Current(c1.branch, d.branch),
                     version |-> Current(c1.version, d.version)]]
    <3>1. p.name = lp.root /\ p.source = lp.source /\ p.pkgs = ToSet(lp.pkgs) /\ p.parts = c1
      BY <1>5
    <3> QED BY <3>1 DEF Patched
  <2> QED BY <1>4, <1>5, <2>1, <2>2, <2>3
<1>10. ~Differs(d) <=> /\ lp.source = lq.source /\ c1.version = c2.version /\ c1.revision = c2.revision
                       /\ ToSet(lp.pkgs) = ToSet(lq.pkgs)
  <2>1. (d.added = {} /\ d.removed = {}) <=> ToSet(lp.pkgs) = ToSet(lq.pkgs)
    BY <1>6
  <2> QED BY <1>6, <1>8, <2>1 DEF Differs
<1>11. Unbranch(p) = Unbranch(q) <=> /\ lp.source = lq.source /\ c1.version = c2.version /\ c1.revision = c2.revision
                                     /\ ToSet(lp.pkgs) = ToSet(lq.pkgs)
  <2>1. /\ Unbranch(p) = [name |-> lp.root, source |-> lp.source, pkgs |-> ToSet(lp.pkgs),
                          parts |-> [revision |-> c1.revision, branch |-> 0, version |-> c1.version]]
        /\ Unbranch(q) = [name |-> lq.root, source |-> lq.source, pkgs |-> ToSet(lq.pkgs),
                          parts |-> [revision |-> c2.revision, branch |-> 0, version |-> c2.version]]
    BY <1>3, <1>4, <1>5 DEF Unbranch
  <2> QED BY <2>1
<1> QED BY <1>6, <1>9, <1>10, <1>11

(* The difference between two locks, project by project. *)
LEMMA DiffLocksOf ==
  ASSUME NEW l1, IsLock(l1), NEW l2, IsLock(l2), NEW P1, P1 = ToSet(l1.projects), NEW P2, P2 = ToSet(l2.projects),
         NEW d, d = DiffLocks(l1, l2)
  PROVE  /\ d = [hash |-> d.hash, add |-> d.add, remove |-> d.remove, modify |-> d.modify]
         /\ d.hash = StringDiff(l1.digest, l2.digest)
         /\ \A x : x \in d.add <=> \E lq \in P2 : x = buildLockedProjectDiff(lq) /\ \A lp \in P1 : lp.root # lq.root
         /\ \A x : x \in d.remove <=> \E lp \in P1 : x = buildLockedProjectDiff(lp) /\ \A lq \in P2 : lp.root # lq.root
         /\ \A x : x \in d.modify <=> \E lp \in P1, lq \in P2 :
                                        lp.root = lq.root /\ x = DiffProjects(lp, lq) /\ Differs(x)
<1>1. PICK p1 : p1 = sortedLockedProjects(l1.projects)
  OBVIOUS
<1>2. PICK p2 : p2 = sortedLockedProjects(l2.projects)
  OBVIOUS
<1>3. PICK r1 : r1 = [i \in DOMAIN p1 |-> p1[i].root]
  OBVIOUS
<1>4. PICK r2 : r2 = [i \in DOMAIN p2 |-> p2[i].root]
  OBVIOUS
<1>5. /\ ToSet(p1) = P1 /\ Ascending(r1) /\ \A r : r \in ToSet(r1) <=> \E lp \in P1 : lp.root = r
      /\ ToSet(p2) = P2 /\ Ascending(r2) /\ \A r : r \in ToSet(r2) <=> \E lp \in P2 : lp.root = r
  BY <1>1, <1>2, <1>3, <1>4, SortedProjects
<1> DEFINE In(lps, root) == CHOOSE lp \in ToSet(lps) : lp.root = root
<1>6. PICK w : w = Walk(r1, r2)
  OBVIOUS
<1>7. w.added = ToSet(r2) \ ToSet(r1) /\ w.removed = ToSet(r1) \ ToSet(r2) /\ w.matched = ToSet(r1) \cap ToSet(r2)
  BY <1>5, <1>6, WalkOf
<1>8. d = [hash   |-> StringDiff(l1.digest, l2.digest),
           add    |-> {buildLockedProjectDiff(In(p2, root)) : root \in w.added},
           remove |-> {buildLockedProjectDiff(In(p1, root)) : root \in w.removed},
           modify |-> {x \in {DiffProjects(In(p1, root), In(p2, root)) : root \in w.matched} : Differs(x)}]
  BY <1>1, <1>2, <1>3, <1>4, <1>6 DEF DiffLocks
<1>9. ASSUME NEW lp \in P1 PROVE In(p1, lp.root) = lp
  BY <1>5, ProjectsOnce
<1>10. ASSUME NEW lp \in P2 PROVE In(p2, lp.root) = lp
  BY <1>5, ProjectsOnce
<1> HIDE DEF In
<1>11. /\ d = [hash |-> d.hash, add |-> d.add, remove |-> d.remove, modify |-> d.modify]
       /\ d.hash = StringDiff(l1.digest, l2.digest)
  BY <1>8
<1>12. ASSUME NEW x
       PROVE  x \in d.add <=> \E lq \in P2 : x = buildLockedProjectDiff(lq) /\ \A lp \in P1 : lp.root # lq.root
  <2>1. x \in d.add <=> \E root \in w.added : x = buildLockedProjectDiff(In(p2, root))
    BY <1>8
  <2> QED BY <1>5, <1>7, <1>10, <2>1
<1>13. ASSUME NEW x
       PROVE  x \in d.remove <=> \E lp \in P1 : x = buildLockedProjectDiff(lp) /\ \A lq \in P2 : lp.root # lq.root
  <2>1. x \in d.remove <=> \E root \in w.removed : x = buildLockedProjectDiff(In(p1, root))
    BY <1>8
  <2> QED BY <1>5, <1>7, <1>9, <2>1
<1>14. ASSUME NEW x
       PROVE  x \in d.modify <=> \E lp \in P1, lq \in P2 : lp.root = lq.root /\ x = DiffProjects(lp, lq) /\ Differs(x)
  <2>1. x \in d.modify <=> \E root \in w.matched : x = DiffProjects(In(p1, root), In(p2, root)) /\ Differs(x)
    BY <1>8
  <2> QED BY <1>5, <1>7, <1>9, <1>10, <2>1
<1> QED BY <1>11, <1>12, <1>13, <1>14

(* The difference explains the step from one lock to the other. *)
LEMMA DiffIsRight ==
  ASSUME NEW l1, IsLock(l1), NEW l2, IsLock(l2)
  PROVE  DiffExplains(l1, l2)
<1> DEFINE B(lp) == buildLockedProjectDiff(lp)
<1>1. PICK P1 : P1 = ToSet(l1.projects)
  OBVIOUS
<1>2. PICK P2 : P2 = ToSet(l2.projects)
  OBVIOUS
<1>3. PICK d : d = DiffLocks(l1, l2)
  OBVIOUS
<1>4. /\ \A lp, lq \in P1 : lp.root = lq.root => lp = lq
      /\ \A lp, lq \in P2 : lp.root = lq.root => lp = lq
  BY <1>1, <1>2, ProjectsOnce
<1>5. /\ d = [hash |-> d.hash, add |-> d.add, remove |-> d.remove, modify |-> d.modify]
      /\ d.hash = StringDiff(l1.digest, l2.digest)
  BY <1>1, <1>2, <1>3, DiffLocksOf
<1>6. /\ \A x : x \in d.add <=> \E lq \in P2 : x = B(lq) /\ \A lp \in P1 : lp.root # lq.root
      /\ \A x : x \in d.remove <=> \E lp \in P1 : x = B(lp) /\ \A lq \in P2 : lp.root # lq.root
      /\ \A x : x \in d.modify <=> \E lp \in P1, lq \in P2 : lp.root = lq.root /\ x = DiffProjects(lp, lq) /\ Differs(x)
  BY <1>1, <1>2, <1>3, DiffLocksOf
<1>7. ASSUME NEW lp \in P1, NEW lq \in P2, lp.root = lq.root
      PROVE  /\ DiffProjects(lp, lq).name = lp.root /\ Patched(B(lp), DiffProjects(lp, lq)) = B(lq)
             /\ ~Differs(DiffProjects(lp, lq)) <=> Unbranch(B(lp)) = Unbranch(B(lq))
  <2>1. lp.pkgs \in Seq(Nat) /\ IsInjective(lp.pkgs) /\ lq.pkgs \in Seq(Nat) /\ IsInjective(lq.pkgs)
    BY <1>1, <1>2, ProjectsOnce
  <2> QED BY <1>7, <2>1, ProjectDiff
<1>8. \A lp : B(lp).name = lp.root /\ Unbranch(B(lp)).name = lp.root
  BY DEF buildLockedProjectDiff, Unbranch
<1>9. Content(l1) = {B(lp) : lp \in P1} /\ Content(l2) = {B(lp) : lp \in P2}
  BY <1>1, <1>2 DEF Content
<1> HIDE DEF B
<1> DEFINE kept == Content(l1) \ d.remove
           Patch(p) == LET ds == {m \in d.modify : m.name = p.name}
                       IN IF ds = {} THEN p ELSE Patched(p, CHOOSE m \in ds : TRUE)
           result == {Patch(p) : p \in kept} \cup d.add
<1>10. \A x : x \in kept <=> \E lp \in P1 : x = B(lp) /\ \E lq \in P2 : lp.root = lq.root
  <2>1. ASSUME NEW lp \in P1 PROVE B(lp) \in d.remove <=> \A lq \in P2 : lp.root # lq.root
    <3>1. ASSUME B(lp) \in d.remove PROVE \A lq \in P2 : lp.root # lq.root
      <4>1. PICK lr \in P1 : B(lp) = B(lr) /\ \A lq \in P2 : lr.root # lq.root
        BY <1>6, <3>1
      <4>2. lr.root = lp.root
        BY <1>8, <4>1
      <4> QED BY <4>1, <4>2
    <3>2. ASSUME \A lq \in P2 : lp.root # lq.root PROVE B(lp) \in d.remove
      BY <1>6, <3>2
    <3> QED BY <3>1, <3>2
  <2> QED BY <1>9, <2>1
<1>11. ASSUME NEW lp \in P1, NEW lq \in P2, lp.root = lq.root
       PROVE  Patch(B(lp)) = IF Differs(DiffProjects(lp, lq)) THEN B(lq) ELSE B(lp)
  <2>1. PICK m : m = DiffProjects(lp, lq)
    OBVIOUS
  <2>2. PICK ds : ds = {x \in d.modify : x.name = B(lp).name}
    OBVIOUS
  <2>3. ASSUME NEW x \in d.modify, x.name = lp.root PROVE x = m
    <3>1. PICK lr \in P1, ls \in P2 : lr.root = ls.root /\ x = DiffProjects(lr, ls)
      BY <1>6
    <3>2. lr.root = lp.root
      BY <1>7, <2>3, <3>1
    <3>3. lr = lp /\ ls = lq
      BY <1>4, <1>11, <3>1, <3>2
    <3> QED BY <2>1, <3>1, <3>3
  <2>4. Differs(m) => ds = {m}
    <3>1. Differs(m) => m \in d.modify /\ m.name = lp.root
      BY <1>6, <1>7, <1>11, <2>1
    <3> QED BY <1>8, <2>2, <2>3, <3>1
  <2>5. ~Differs(m) => ds = {}
    <3>1. \A x \in d.modify : Differs(x)
      BY <1>6
    <3> QED BY <1>8, <2>2, <2>3, <3>1
  <2>6. Patch(B(lp)) = IF ds = {} THEN B(lp) ELSE Patched(B(lp), CHOOSE x \in ds : TRUE)
    BY <2>2
  <2>7. Patched(B(lp), m) = B(lq)
    BY <1>7, <1>11, <2>1
  <2> HIDE DEF Patch
  <2>8. Differs(m) => (CHOOSE x \in ds : TRUE) = m
    BY <2>4
  <2>9. CASE Differs(m)
    BY <2>1, <2>4, <2>6, <2>7, <2>8, <2>9
  <2>10. CASE ~Differs(m)
    BY <2>1, <2>5, <2>6, <2>10
  <2> QED BY <2>9, <2>10
<1> HIDE DEF Patch, kept
<1>12. \A x : x \in result <=>
         \/ \E lp \in P1, lq \in P2 : lp.root = lq.root /\ x = Patch(B(lp))
         \/ \E lq \in P2 : x = B(lq) /\ \A lp \in P1 : lp.root # lq.root
  BY <1>6, <1>10
<1> HIDE DEF result
<1>13. ASSUME NEW lp \in P1, NEW lq \in P2, lp.root = lq.root
       PROVE  Unbranch(Patch(B(lp))) = Unbranch(B(lq))
  BY <1>7, <1>11, <1>13
<1>14. Unbranched(result) = Unbranched(Content(l2))
  <2>1. ASSUME NEW x \in result PROVE \E lq \in P2 : Unbranch(x) = Unbranch(B(lq))
    BY <1>12, <1>13
  <2>2. ASSUME NEW lq \in P2 PROVE \E x \in result : Unbranch(x) = Unbranch(B(lq))
    <3>1. CASE \E lp \in P1 : lp.root = lq.root
      BY <1>12, <1>13, <3>1
    <3>2. CASE \A lp \in P1 : lp.root # lq.root
      BY <1>12, <3>2
    <3> QED BY <3>1, <3>2
  <2> QED BY <1>9, <2>1, <2>2 DEF Unbranched
<1>15. ASSUME NEW p \in Content(l1) \cap Content(l2) PROVE p \in result
  <2>1. PICK lp \in P1, lq \in P2 : p = B(lp) /\ p = B(lq)
    BY <1>9
  <2>2. lp.root = lq.root
    BY <1>8, <2>1
  <2>3. Patch(B(lp)) = p
    BY <1>11, <2>1, <2>2
  <2> QED BY <1>12, <2>2, <2>3
<1>16. ASSUME NEW m \in d.modify PROVE \E p \in Content(l2) : p.name = m.name /\ p \in result
  <2>1. PICK lp \in P1, lq \in P2 : lp.root = lq.root /\ m = DiffProjects(lp, lq) /\ Differs(m)
    BY <1>6
  <2>2. Patch(B(lp)) = B(lq) /\ m.name = lq.root
    BY <1>7, <1>11, <2>1
  <2>3. B(lq) \in Content(l2) /\ B(lq).name = m.name /\ B(lq) \in result
    BY <1>8, <1>9, <1>12, <2>1, <2>2
  <2> QED BY <2>3
<1>17. d = NoDiff <=> l1.digest = l2.digest /\ d.add = {} /\ d.remove = {} /\ d.modify = {}
  <2>1. d.hash = <<>> <=> l1.digest = l2.digest
    BY <1>5 DEF StringDiff
  <2>2. NoDiff.hash = <<>> /\ NoDiff.add = {} /\ NoDiff.remove = {} /\ NoDiff.modify = {}
    BY DEF NoDiff
  <2>3. d = NoDiff => d.hash = <<>> /\ d.add = {} /\ d.remove = {} /\ d.modify = {}
    BY <2>2
  <2>4. d.hash = <<>> /\ d.add = {} /\ d.remove = {} /\ d.modify = {} => d = NoDiff
    BY <1>5 DEF NoDiff
  <2> QED BY <2>1, <2>3, <2>4
<1>18. ASSUME d.add = {}, d.remove = {}, d.modify = {} PROVE Unbranched(Content(l1)) = Unbranched(Content(l2))
  <2>1. ASSUME NEW lp \in P1 PROVE \E lq \in P2 : lp.root = lq.root
    BY <1>6, <1>18
  <2>2. ASSUME NEW lq \in P2 PROVE \E lp \in P1 : lp.root = lq.root
    BY <1>6, <1>18
  <2>3. ASSUME NEW lp \in P1, NEW lq \in P2, lp.root = lq.root PROVE Unbranch(B(lp)) = Unbranch(B(lq))
    <3>1. ~Differs(DiffProjects(lp, lq))
      BY <1>6, <1>18, <2>3
    <3> QED BY <1>7, <2>3, <3>1
  <2> QED BY <1>9, <2>1, <2>2, <2>3 DEF Unbranched
<1>19. ASSUME Unbranched(Content(l1)) = Unbranched(Content(l2)) PROVE d.add = {} /\ d.remove = {} /\ d.modify = {}
  <2>1. ASSUME NEW lp \in P1 PROVE \E lq \in P2 : Unbranch(B(lp)) = Unbranch(B(lq))
    BY <1>9, <1>19 DEF Unbranched
  <2>2. ASSUME NEW lq \in P2 PROVE \E lp \in P1 : Unbranch(B(lp)) = Unbranch(B(lq))
    BY <1>9, <1>19 DEF Unbranched
  <2>3. d.add = {}
    <3>1. \A lq \in P2 : \E lp \in P1 : lp.root = lq.root
      BY <1>8, <2>2
    <3> QED BY <1>6, <3>1
  <2>4. d.remove = {}
    <3>1. \A lp \in P1 : \E lq \in P2 : lp.root = lq.root
      BY <1>8, <2>1
    <3> QED BY <1>6, <3>1
  <2>5. ASSUME NEW lp \in P1, NEW lq \in P2, lp.root = lq.root PROVE ~Differs(DiffProjects(lp, lq))
    <3>1. PICK lr \in P2 : Unbranch(B(lp)) = Unbranch(B(lr))
      BY <2>1
    <3>2. lr.root = lq.root
      BY <1>8, <2>5, <3>1
    <3>3. lr = lq
      BY <1>4, <3>2
    <3> QED BY <1>7, <2>5, <3>1, <3>3
  <2>6. d.modify = {}
    BY <1>6, <2>5
  <2> QED BY <2>3, <2>4, <2>6
<1>20. d = NoDiff <=> (l1.digest = l2.digest /\ Unbranched(Content(l1)) = Unbranched(Content(l2)))
  BY <1>17, <1>18, <1>19
<1> QED BY <1>3, <1>14, <1>15, <1>16, <1>20 DEF DiffExplains, result, kept, Patch

-----------------------------------------------------------------------------
(* The samples of Algorithms. *)

(* The sample is one of those there are, from first to last. *)
Sampled == sample \in Samples \cup {[task |-> "reach"]}

LEMMA SampleStays == ASpec => []Sampled
<1>1. AInit => Sampled
  BY DEF AInit, Sampled
<1>2. Sampled /\ [ANext]_<<reachVars, sample>> => Sampled'
  BY DEF ANext, Sampled
<1> QED BY <1>1, <1>2, PTL DEF ASpec

(* Whatever a source lists, whichever constraints manifests have and       *)
(* whichever versions are compared, the unifier decides by names and       *)
(* revisions alone and in either order, and versions sort strictly.        *)
THEOREM VersionsAreRight == ASpec => []VersionsRight
<1>1. ASSUME Sampled PROVE VersionsRight
  <2>1. ASSUME sample.task = "list"
        PROVE  UnifierAgrees(sample.data, Constraints, ToSet(sample.data) \cup OtherVersions)
    <3>1. sample.data \in VersionLists
      BY <1>1, <2>1 DEF Sampled, Samples
    <3>2. Listing(sample.data)
      BY <3>1, VersionsAssumption DEF Listing
    <3>3. \A v \in ToSet(sample.data) \cup OtherVersions : v \in Vers
      BY <3>2, ListingOf, VersionsAssumption DEF Vers
    <3>4. \A c \in Constraints : c \in Askable
      BY VersionsAssumption
    <3> QED BY <3>2, <3>3, <3>4, UnifierIsRight
  <2>2. ASSUME sample.task = "order"
        PROVE  OrdersTotal(sample.data)
    <3>1. sample.data \in Orders
      BY <1>1, <2>2 DEF Sampled, Samples
    <3>2. sample.data \in SUBSET AllVersions
      BY <3>1, VersionsAssumption DEF AllVersions
    <3> QED BY <3>2, VersionOrders
  <2> QED BY <2>1, <2>2 DEF VersionsRight
<1>2. Sampled => VersionsRight
  BY <1>1
<1> QED BY <1>2, SampleStays, PTL

(* Whatever a project's tree holds, whichever of its packages are imported *)
(* and whichever options it has, PruneProject() leaves the Go files of     *)
(* those packages, and legal notices, except for what it removes with      *)
(* nested vendor directories and tests where the options name those; it    *)
(* removes what the options name, and leaves no directory empty.           *)
THEOREM PruningIsRight == ASpec => []PruneRight
<1>1. ASSUME Sampled PROVE PruneRight
  <2>1. ASSUME sample.task = "tree" PROVE IsTree(sample.data)
    BY <1>1, <2>1, TreesAssumption DEF Sampled, Samples
  <2> QED BY <2>1, PruneIsRight DEF PruneRight
<1>2. Sampled => PruneRight
  BY <1>1
<1> QED BY <1>2, SampleStays, PTL

(* Whatever two locks say, if each has a project once, applying what       *)
(* DiffLocks() says of them to the first gives the second, but for the     *)
(* branch of a project that is otherwise the same; and it says nothing     *)
(* exactly when they are the same in that sense.                           *)
THEOREM LockDiffIsRight == ASpec => []DiffRight
<1>1. ASSUME Sampled PROVE DiffRight
  <2>1. ASSUME sample.task = "lock" PROVE IsLock(sample.data)
    BY <1>1, <2>1, LocksAssumption DEF Sampled, Samples
  <2> QED BY <2>1, LocksAssumption, DiffIsRight DEF DiffRight
<1>2. Sampled => DiffRight
  BY <1>1
<1> QED BY <1>2, SampleStays, PTL
=============================================================================
