---------------------------- MODULE SolverProofs ----------------------------
(***************************************************************************)
(* IInv and SoundInv are invariants of every solve run, in every universe, *)
(* and a solved run is a sound one.                                        *)
(***************************************************************************)
EXTENDS SolverInductive, SequenceTheorems, FiniteSetTheorems, TLAPS

USE DEF Root, RootVersion, None, NoSource

-----------------------------------------------------------------------------
(* Numbers and sequences *)

(* Every nonempty set of naturals has a least element. *)
LEMMA MinExists ==
  ASSUME NEW T, T \subseteq Nat, T # {}
  PROVE  \E x \in T : \A y \in T : x <= y
<1>1. \E x \in T : \A y \in T : ~(<<y, x>> \in OpToRel(<, Nat))
  BY NatLessThanWellFounded, WFMin
<1>2. PICK x \in T : \A y \in T : ~(<<y, x>> \in OpToRel(<, Nat))
  BY <1>1
<1>3. \A y \in T : ~(y < x)
  BY <1>2 DEF OpToRel
<1> QED
  BY <1>3

(* Every nonempty set of indices has a greatest element. *)
LEMMA MaxExists ==
  ASSUME NEW n \in Nat, NEW T, T \subseteq 1..n, T # {}
  PROVE  \E x \in T : \A y \in T : y <= x
<1> DEFINE D == {n - y : y \in T}
<1>1. D # {}
  BY Zenon
<1>2. D \subseteq Nat
  BY SMT
<1> HIDE DEF D
<1>3. PICK d \in D : \A e \in D : d <= e
  BY <1>1, <1>2, MinExists
<1> USE DEF D
<1>4. PICK x \in T : d = n - x
  BY Zenon
<1>5. \A y \in T : n - x <= n - y
  BY <1>3, <1>4
<1> QED
  BY <1>5

(* A function on 1..n is a sequence of length n. *)
LEMMA MappedSeq ==
  ASSUME NEW S, NEW n \in Nat, NEW f, f \in [1..n -> S]
  PROVE  f \in Seq(S) /\ Len(f) = n
BY SeqDef

(* A sequence as long as a nonempty one is nonempty. *)
LEMMA NonemptyByLen ==
  ASSUME NEW S, NEW s \in Seq(S), s # <<>>, NEW t \in Seq(S), Len(t) = Len(s)
  PROVE  t # <<>>
<1>1. Len(s) # 0
  BY EmptySeq
<1> QED
  BY <1>1, EmptySeq

(* What Front and Last of a sequence are: the pops of s.vqs and s.sel. *)
LEMMA FrontProperties ==
  ASSUME NEW S, NEW s \in Seq(S)
  PROVE  /\ Front(s) \in Seq(S)
         /\ s # <<>> => /\ Len(s) \in Nat /\ Len(s) > 0
                        /\ Len(Front(s)) = Len(s) - 1
                        /\ Last(s) = s[Len(s)]
                        /\ Last(s) \in S
         /\ s = <<>> => Len(Front(s)) = 0
         /\ Len(Front(s)) <= Len(s)
         /\ \A i \in 1..Len(Front(s)) : Front(s)[i] = s[i]
<1>1. \A i \in 1..(Len(s) - 1) : s[i] \in S
  BY LenProperties
<1>2. Len(s) \in Nat /\ (s # <<>> => Len(s) > 0) /\ (s = <<>> => Len(s) = 0)
  BY LenProperties, EmptySeq
<1>3. /\ Front(s) \in Seq(S)
      /\ Len(Front(s)) = IF 1 <= Len(s) - 1 THEN Len(s) - 1 ELSE 0
      /\ \A i \in 1..(Len(s) - 1) : Front(s)[i] = s[i]
  BY <1>1, <1>2, SubSeqProperties DEF Front
<1>4. s # <<>> => Last(s) = s[Len(s)] /\ Last(s) \in S
  BY <1>2, LenProperties DEF Last
<1>5. CASE s = <<>>
  <2>1. Len(s) = 0 /\ Len(Front(s)) = 0
    BY <1>2, <1>3, <1>5
  <2> QED
    BY <1>3, <1>5, <2>1
<1>6. CASE s # <<>>
  <2>1. Len(s) \in Nat /\ Len(s) > 0
    BY <1>2, <1>6
  <2>2. Len(Front(s)) = Len(s) - 1
    <3>1. Len(Front(s)) = IF 1 <= Len(s) - 1 THEN Len(s) - 1 ELSE 0
      BY <1>3
    <3>2. CASE Len(s) = 1
      BY <3>1, <3>2
    <3>3. CASE Len(s) # 1
      BY <3>1, <2>1, <3>3
    <3> QED
      BY <3>2, <3>3
  <2> QED
    BY <1>3, <1>4, <1>6, <2>1, <2>2
<1> QED
  BY <1>5, <1>6

(* Splicing an element out leaves the others. *)
LEMMA RemoveAtType ==
  ASSUME NEW S, NEW s \in Seq(S), NEW i \in 1..Len(s)
  PROVE  /\ RemoveAt(s, i) \in Seq(S)
         /\ \A k \in 1..Len(s) : k # i => \E j \in DOMAIN RemoveAt(s, i) : RemoveAt(s, i)[j] = s[k]
<1> DEFINE n == Len(s)
           l == SubSeq(s, 1, i - 1)
           r == SubSeq(s, i + 1, n)
<1>1. \A k \in 1..n : s[k] \in S
  BY LenProperties
<1>2. n \in Nat
  BY LenProperties
<1>3. /\ l \in Seq(S) /\ Len(l) = i - 1
      /\ \A k \in 1..(i - 1) : l[k] = s[k]
  <2>1. /\ l \in Seq(S) /\ Len(l) = IF 1 <= i - 1 THEN i - 1 - 1 + 1 ELSE 0
        /\ \A k \in 1..(i - 1 - 1 + 1) : l[k] = s[1 + k - 1]
    BY <1>1, <1>2, SubSeqProperties
  <2> QED
    BY <1>2, <2>1
<1>4. /\ r \in Seq(S) /\ Len(r) = n - i
      /\ \A k \in 1..(n - i) : r[k] = s[i + k]
  <2>1. /\ r \in Seq(S) /\ Len(r) = IF i + 1 <= n THEN n - (i + 1) + 1 ELSE 0
        /\ \A k \in 1..(n - (i + 1) + 1) : r[k] = s[i + 1 + k - 1]
    BY <1>1, <1>2, SubSeqProperties
  <2> QED
    BY <1>2, <2>1
<1>5. RemoveAt(s, i) = l \o r
  BY DEF RemoveAt
<1> HIDE DEF l, r, n
<1>6. /\ l \o r \in Seq(S) /\ DOMAIN (l \o r) = 1..(n - 1)
      /\ \A k \in 1..(n - 1) : (l \o r)[k] = IF k <= i - 1 THEN l[k] ELSE r[k - (i - 1)]
  <2>1. /\ l \o r \in Seq(S) /\ Len(l \o r) = Len(l) + Len(r)
        /\ \A k \in 1..(Len(l) + Len(r)) :
             (l \o r)[k] = IF k <= Len(l) THEN l[k] ELSE r[k - Len(l)]
    BY <1>3, <1>4, ConcatProperties
  <2>2. Len(l) + Len(r) = n - 1
    BY <1>2, <1>3, <1>4 DEF n
  <2>3. DOMAIN (l \o r) = 1..Len(l \o r)
    BY <2>1, LenProperties
  <2> QED
    BY <1>3, <2>1, <2>2, <2>3
<1>7. ASSUME NEW k \in 1..n, k # i
      PROVE  \E j \in 1..(n - 1) : (l \o r)[j] = s[k]
  <2>1. CASE k < i
    <3>1. k \in 1..(n - 1) /\ k <= i - 1 /\ k \in 1..(i - 1)
      BY <1>2, <2>1 DEF n
    <3> QED
      BY <1>3, <1>6, <3>1
  <2>2. CASE k > i
    <3> DEFINE j == k - 1
    <3>1. /\ j \in 1..(n - 1) /\ ~(j <= i - 1) /\ j - (i - 1) \in 1..(n - i)
          /\ i + (j - (i - 1)) = k
      BY <1>2, <2>2 DEF n
    <3> HIDE DEF j
    <3> QED
      BY <1>4, <1>6, <3>1
  <2>3. k < i \/ k > i
    <3>1. k \in Nat /\ i \in Nat
      BY <1>2 DEF n
    <3> QED
      BY <1>7, <3>1
  <2> QED
    BY <2>1, <2>2, <2>3
<1> QED
  BY <1>5, <1>6, <1>7 DEF n

(* The least element of a nonempty set of naturals is in it. *)
LEMMA MinInside ==
  ASSUME NEW T, T \subseteq Nat, T # {}
  PROVE  Min(T) \in T
BY MinExists DEF Min

(* Removing a value from a version list leaves a version list. *)
LEMMA RemoveFirstType ==
  ASSUME NEW S, NEW s \in Seq(S), NEW e
  PROVE  RemoveFirst(s, e) \in Seq(S)
<1> DEFINE I == {i \in 1..Len(s) : s[i] = e}
<1>1. CASE I = {}
  BY <1>1 DEF RemoveFirst
<1>2. CASE I # {}
  <2>1. Min(I) \in 1..Len(s)
    BY <1>2, MinInside, LenProperties
  <2>2. RemoveFirst(s, e) = RemoveAt(s, Min(I))
    BY <1>2 DEF RemoveFirst, SelectInSeq
  <2> QED
    BY <2>1, <2>2, RemoveAtType
<1> QED
  BY <1>1, <1>2

-----------------------------------------------------------------------------
(* The operators the actions are built from *)

(* unselected.remove() takes what it was asked to, and nothing else. *)
LEMMA RemoveBmiType ==
  ASSUME NEW S, unsel \in Seq(S), NEW id, NEW pl, RemoveBmi(id, pl)
  PROVE  /\ unsel' \in Seq(S)
         /\ \A k \in DOMAIN unsel : \/ Eq(unsel[k].id, id) /\ unsel[k].pl = pl
                                    \/ \E i \in DOMAIN unsel' : unsel'[i] = unsel[k]
<1> DEFINE I == {i \in 1..Len(unsel) : Eq(unsel[i].id, id) /\ unsel[i].pl = pl}
<1>0. DOMAIN unsel = 1..Len(unsel)
  BY LenProperties
<1>1. CASE I = {}
  <2>1. unsel' = unsel
    BY <1>1 DEF RemoveBmi, RemoveFirstMatch
  <2> QED
    BY <2>1
<1>2. CASE I # {}
  <2>1. I \subseteq 1..Len(unsel) /\ I \subseteq Nat
    BY LenProperties
  <2>2. Min(I) \in I
    <3> HIDE DEF I
    <3> QED
      BY <1>2, <2>1, MinInside
  <2>3. unsel' = RemoveAt(unsel, Min(I))
    BY <1>2 DEF RemoveBmi, RemoveFirstMatch, SelectInSeq
  <2>4. PICK m \in I : m = Min(I)
    BY <2>2
  <2>5. Eq(unsel[m].id, id) /\ unsel[m].pl = pl /\ m \in 1..Len(unsel)
    OBVIOUS
  <2> HIDE DEF I
  <2>6. /\ unsel' \in Seq(S)
        /\ \A k \in 1..Len(unsel) : k # m => \E j \in DOMAIN unsel' : unsel'[j] = unsel[k]
    BY <2>3, <2>4, <2>5, RemoveAtType
  <2> QED
    BY <1>0, <2>5, <2>6
<1> QED
  BY <1>1, <1>2

(* heap.Push() adds its argument, loses nothing and adds nothing else. *)
LEMMA HeapPushType ==
  ASSUME NEW S, unsel \in Seq(S), NEW s, NEW x \in S, HeapPush(s, x)
  PROVE  /\ unsel' \in Seq(S)
         /\ \E i \in DOMAIN unsel' : unsel'[i] = x
         /\ \A k \in DOMAIN unsel : \E i \in DOMAIN unsel' : unsel'[i] = unsel[k]
<1> DEFINE n == Len(unsel)
<1>1. n \in Nat /\ DOMAIN unsel = 1..n /\ \A i \in 1..n : unsel[i] \in S
  BY LenProperties
<1>2. PICK path \in SUBSET (1..(n + 1)) :
        \E t \in path : Rises(unsel, s, x, path, t) /\ unsel' = Risen(unsel, x, path, t)
  BY DEF HeapPush
<1>3. PICK t \in path : Rises(unsel, s, x, path, t) /\ unsel' = Risen(unsel, x, path, t)
  BY <1>2
<1>4. /\ n + 1 \in path
      /\ \A i \in path : /\ t <= i /\ i \in 1..(n + 1)
                         /\ i # t => i \div 2 \in path
                         /\ i <= n => \E c \in path : c \div 2 = i
  BY <1>2, <1>3 DEF Rises
<1>5. unsel' = [i \in 1..(n + 1) |->
                  IF i = t THEN x ELSE IF i \in path THEN unsel[i \div 2] ELSE unsel[i]]
  BY <1>3 DEF Risen
<1> HIDE DEF n
<1>6. t \in 1..(n + 1)
  BY <1>4
<1>7. \A i \in 1..(n + 1) :
        (IF i = t THEN x ELSE IF i \in path THEN unsel[i \div 2] ELSE unsel[i]) \in S
  <2> SUFFICES ASSUME NEW i \in 1..(n + 1)
               PROVE  (IF i = t THEN x
                       ELSE IF i \in path THEN unsel[i \div 2] ELSE unsel[i]) \in S
    OBVIOUS
  <2>1. CASE i = t
    BY <2>1
  <2>2. CASE i # t /\ i \in path
    <3>1. t <= i
      BY <1>4, <2>2
    <3>2. i \div 2 \in 1..n
      BY <1>1, <1>6, <2>2, <3>1
    <3> QED
      BY <1>1, <2>2, <3>2
  <2>3. CASE i # t /\ i \notin path
    <3>1. i # n + 1
      BY <1>4, <2>3
    <3>2. i \in 1..n
      BY <1>1, <3>1
    <3> QED
      BY <1>1, <2>3, <3>2
  <2> QED
    BY <2>1, <2>2, <2>3
<1>8. unsel' \in [1..(n + 1) -> S]
  BY <1>5, <1>7
<1>9. unsel' \in Seq(S)
  BY <1>1, <1>8, MappedSeq
<1>10. \E i \in DOMAIN unsel' : unsel'[i] = x
  BY <1>5, <1>6
<1>11. ASSUME NEW k \in 1..n
       PROVE  \E i \in DOMAIN unsel' : unsel'[i] = unsel[k]
  <2>1. k \in 1..(n + 1)
    BY <1>1
  <2>2. CASE k \notin path
    BY <1>3, <1>5, <2>1, <2>2
  <2>3. CASE k \in path
    <3>1. PICK c \in path : c \div 2 = k
      BY <1>1, <1>4, <2>3
    <3>2. c \in 1..(n + 1) /\ t <= k /\ t \in Nat /\ c \in Nat /\ k \in Nat /\ k > 0
      BY <1>1, <1>4, <1>6, <2>3
    <3>3. c # t
      <4> SUFFICES ASSUME c = t PROVE FALSE
        OBVIOUS
      <4>1. c <= c \div 2
        BY <3>1, <3>2
      <4>2. c > 0
        BY <3>2
      <4> QED
        BY <3>2, <4>1, <4>2
    <3> QED
      BY <1>5, <3>1, <3>2, <3>3
  <2> QED
    BY <2>2, <2>3
<1> QED
  BY <1>1, <1>9, <1>10, <1>11

(* fail() only sets marks. *)
LEMMA MarkFailedKeeps ==
  ASSUME NEW qs \in Seq(Queues), NEW ids
  PROVE  /\ MarkFailed(qs, ids) \in Seq(Queues)
         /\ Len(MarkFailed(qs, ids)) = Len(qs)
         /\ \A i \in 1..Len(qs) : /\ MarkFailed(qs, ids)[i].id = qs[i].id
                                  /\ MarkFailed(qs, ids)[i].pi = qs[i].pi
                                  /\ MarkFailed(qs, ids)[i] \in
                                       {qs[i], [qs[i] EXCEPT !.failed = TRUE]}
<1>1. /\ Len(qs) \in Nat
      /\ DOMAIN qs = 1..Len(qs)
      /\ \A i \in 1..Len(qs) : qs[i] \in Queues
  BY LenProperties
<1>2. \A q \in Queues : /\ [q EXCEPT !.failed = TRUE] \in Queues
                        /\ [q EXCEPT !.failed = TRUE].id = q.id
                        /\ [q EXCEPT !.failed = TRUE].pi = q.pi
  BY DEF Queues
<1>3. MarkFailed(qs, ids) \in [1..Len(qs) -> Queues]
  BY <1>1, <1>2 DEF MarkFailed
<1>4. \A i \in 1..Len(qs) : /\ MarkFailed(qs, ids)[i].id = qs[i].id
                            /\ MarkFailed(qs, ids)[i].pi = qs[i].pi
                            /\ MarkFailed(qs, ids)[i] \in
                                 {qs[i], [qs[i] EXCEPT !.failed = TRUE]}
  BY <1>1, <1>2 DEF MarkFailed
<1> QED
  BY <1>1, <1>3, <1>4, MappedSeq

(* The universe is as assumed. *)
LEMMA WorldFacts ==
  ASSUME w \in Worlds
  PROVE  /\ w \in WorldType
         /\ ReachClosed(w)
         /\ \A d \in w.root : d.id.pr \in Projects
BY SolverAssumption

(* advance() leaves the queue's identity and never an empty queue that is  *)
(* not exhausted.                                                          *)
LEMMA AdvanceKeeps ==
  ASSUME w \in Worlds, NEW q \in Queues, q.pi # <<>>
  PROVE  /\ Advance(q) \in Queues
         /\ Advance(q).id = q.id
         /\ ~IsExhausted(Advance(q)) => Advance(q).pi # <<>>
<1> DEFINE rest == Tail(q.pi)
           all  == RemoveFirst(RemoveFirst(w.vers[q.id.pr], q.lockv), q.prefv)
           pi   == IF rest = <<>> /\ ~q.allLoaded THEN all ELSE rest
           mark == IF pi = <<>> THEN q.failed ELSE FALSE
<1>1. rest \in Seq(Versions)
  BY HeadTailProperties DEF Queues
<1>2. w.vers[q.id.pr] \in Seq(Versions)
  BY WorldFacts DEF WorldType, Queues, DepIdents
<1>3. all \in Seq(Versions)
  BY <1>2, RemoveFirstType
<1> HIDE DEF rest, all
<1>4. pi \in Seq(Versions) /\ mark \in BOOLEAN
  BY <1>1, <1>3 DEF Queues
<1>5. Advance(q) = [q EXCEPT !.pi = pi, !.allLoaded = q.allLoaded \/ rest = <<>>,
                             !.failed = mark]
  BY DEF Advance, rest, all
<1> HIDE DEF pi, mark
<1>6. Advance(q) \in Queues /\ Advance(q).id = q.id
  BY <1>4, <1>5 DEF Queues
<1>7. Advance(q).pi = pi /\ Advance(q).allLoaded = (q.allLoaded \/ rest = <<>>)
  BY <1>4, <1>5 DEF Queues
<1>8. pi = <<>> => q.allLoaded \/ rest = <<>>
  BY DEF pi
<1> QED
  BY <1>6, <1>7, <1>8 DEF IsExhausted

(* Whether a queue is exhausted has nothing to do with its mark. *)
LEMMA AdvanceIgnoresMark ==
  ASSUME NEW q \in Queues
  PROVE  IsExhausted(Advance([q EXCEPT !.failed = TRUE])) <=> IsExhausted(Advance(q))
<1> DEFINE r    == [q EXCEPT !.failed = TRUE]
           rest == Tail(q.pi)
           pi   == IF rest = <<>> /\ ~q.allLoaded
                   THEN RemoveFirst(RemoveFirst(w.vers[q.id.pr], q.lockv), q.prefv) ELSE rest
           all  == q.allLoaded \/ rest = <<>>
           End(m) == [q EXCEPT !.pi = pi, !.allLoaded = all, !.failed = m]
<1>1. r.pi = q.pi /\ r.allLoaded = q.allLoaded /\ r.id = q.id /\ r.lockv = q.lockv
      /\ r.prefv = q.prefv /\ r.failed = TRUE
  BY DEF Queues
<1> HIDE DEF r
<1>2. Advance(q) = End(IF pi = <<>> THEN q.failed ELSE FALSE)
  BY DEF Advance
<1>3. Advance(r) = [r EXCEPT !.pi = pi, !.allLoaded = all,
                             !.failed = IF pi = <<>> THEN TRUE ELSE FALSE]
  BY <1>1 DEF Advance
<1> HIDE DEF pi, all
<1>4. \A m : End(m).pi = pi /\ End(m).allLoaded = all
  BY DEF Queues
<1>5. Advance(r).pi = pi /\ Advance(r).allLoaded = all
  BY <1>3 DEF Queues, r
<1> HIDE DEF End
<1>6. Advance(q).pi = pi /\ Advance(q).allLoaded = all
  BY <1>2, <1>4
<1> QED
  BY <1>5, <1>6 DEF IsExhausted, r

(* selected() answers with a version that is on the stack. *)
LEMMA SelectedVersionOnStack ==
  ASSUME NEW s \in Seq(Selecteds), NEW pr, IsSelected(s, pr)
  PROVE  \E i \in 1..Len(s) : s[i].a.id.pr = pr /\ SelectedVersion(s, pr) = s[i].a.v
<1> DEFINE I == {i \in DOMAIN s : s[i].a.id.pr = pr}
<1>1. DOMAIN s = 1..Len(s) /\ Len(s) \in Nat
  BY LenProperties
<1>2. I # {} /\ I \subseteq Nat
  BY <1>1 DEF IsSelected
<1> HIDE DEF I
<1>3. PICK m \in I : \A j \in I : m <= j
  BY <1>2, MinExists
<1> USE DEF I
<1>4. \A j \in 1..(m - 1) : s[j].a.id.pr # pr
  BY <1>1, <1>3
<1>5. \E i \in DOMAIN s : s[i].a.id.pr = pr /\ \A j \in 1..(i - 1) : s[j].a.id.pr # pr
  BY <1>4
<1> DEFINE c == CHOOSE i \in DOMAIN s : /\ s[i].a.id.pr = pr
                                        /\ \A j \in 1..(i - 1) : s[j].a.id.pr # pr
<1>6. c \in DOMAIN s /\ s[c].a.id.pr = pr
  BY <1>5
<1>7. SelectedVersion(s, pr) = s[c].a.v
  BY DEF SelectedVersion
<1> HIDE DEF c
<1> QED
  BY <1>1, <1>6, <1>7

(* getImportsAndConstraintsOf() on packages of a's own whose imports       *)
(* resolve: packages of a's own again, and dependencies on other projects. *)
LEMMA ImportsFacts ==
  ASSUME w \in Worlds, NEW a \in DepAtoms, NEW pl \in SUBSET Packages,
         Owned(a.id.pr, pl), ImportsOk(a, pl)
  PROVE  /\ WithInternal(a, pl) \in SUBSET Packages
         /\ Owned(a.id.pr, WithInternal(a, pl))
         /\ ImportsOk(a, WithInternal(a, pl))
         /\ DepsOf(a, pl) \subseteq CompleteDeps
         /\ \A d \in DepsOf(a, pl) : Owned(d.id.pr, d.pl) /\ d.id.pr # a.id.pr
<1>1. a.v \in Versions /\ a.id.pr \in Projects
  BY DEF DepAtoms, DepIdents
<1>2. \A p \in Packages : w.reach[p][a.v] \in [ok: BOOLEAN, in: SUBSET Packages, ex: SUBSET Packages]
  BY <1>1, WorldFacts DEF WorldType
<1>3. \A p \in pl : /\ p \in Packages /\ p[1] = a.id.pr /\ w.reach[p][a.v].ok
                    /\ w.reach[p][a.v].in \in SUBSET Packages
                    /\ w.reach[p][a.v].ex \in SUBSET Packages
  BY <1>2 DEF Owned, ImportsOk
<1>4. \A p \in pl : /\ \A q \in w.reach[p][a.v].in : q[1] = p[1] /\ w.reach[q][a.v].ok
                    /\ \A q \in w.reach[p][a.v].ex : q[1] # p[1]
  BY <1>1, <1>3, WorldFacts DEF ReachClosed
<1>5. /\ WithInternal(a, pl) \in SUBSET Packages
      /\ Owned(a.id.pr, WithInternal(a, pl))
      /\ ImportsOk(a, WithInternal(a, pl))
  BY <1>3, <1>4 DEF WithInternal, Owned, ImportsOk
<1>6. Reached(a, pl) \in SUBSET Packages /\ \A q \in Reached(a, pl) : q[1] # a.id.pr
  BY <1>3, <1>4 DEF Reached
<1>7. \A q \in Reached(a, pl) : q[1] \in ProjectRoots
  BY <1>6 DEF Packages
<1>8. \A pr \in ProjectRoots : w.cons[a.id.pr][a.v][pr] \in [c: SUBSET AtomVersions, src: Sources]
  BY <1>1, WorldFacts DEF WorldType
<1>9. SUFFICES ASSUME NEW d \in DepsOf(a, pl)
               PROVE  d \in CompleteDeps /\ Owned(d.id.pr, d.pl) /\ d.id.pr # a.id.pr
  BY <1>5
<1>10. PICK pr \in {p[1] : p \in Reached(a, pl)} :
         d = [id |-> [pr |-> pr, src |-> w.cons[a.id.pr][a.v][pr].src],
              c  |-> w.cons[a.id.pr][a.v][pr].c,
              pl |-> {p \in Reached(a, pl) : p[1] = pr}]
  BY DEF DepsOf
<1>11. pr \in ProjectRoots /\ pr # a.id.pr
  BY <1>6, <1>7
<1>12. d \in CompleteDeps
  BY <1>6, <1>8, <1>10, <1>11 DEF CompleteDeps, Idents
<1>13. Owned(d.id.pr, d.pl) /\ d.id.pr # a.id.pr
  BY <1>10, <1>11 DEF Owned
<1> QED
  BY <1>12, <1>13

-----------------------------------------------------------------------------
(* The two stacks *)

(* Queues qs are those of the projects on stack s, short of k of them.     *)
Aligned(s, qs, k) ==
  /\ Cardinality(Firsts(s)) = Len(qs) + k
  /\ \A i \in Firsts(s) : Rank(s, i) <= Len(qs) => qs[Rank(s, i)].id = s[i].a.id

(* The project selections can be counted, and their ranks are 1 and up. *)
LEMMA FirstsFinite ==
  ASSUME NEW s \in Seq(Selecteds)
  PROVE  /\ IsFiniteSet(Firsts(s))
         /\ Cardinality(Firsts(s)) \in Nat
         /\ \A i \in Firsts(s) : /\ i \in 2..Len(s)
                                 /\ Rank(s, i) \in Nat
                                 /\ Rank(s, i) >= 1
                                 /\ Rank(s, i) <= Cardinality(Firsts(s))
<1>1. Len(s) \in Nat
  BY LenProperties
<1>2. IsFiniteSet(2..Len(s))
  BY <1>1, FS_Interval
<1>3. Firsts(s) \subseteq 2..Len(s)
  BY DEF Firsts
<1>4. IsFiniteSet(Firsts(s)) /\ Cardinality(Firsts(s)) \in Nat
  BY <1>2, <1>3, FS_Subset, FS_CardinalityType
<1>5. SUFFICES ASSUME NEW i \in Firsts(s)
               PROVE  Rank(s, i) \in Nat /\ Rank(s, i) >= 1
                      /\ Rank(s, i) <= Cardinality(Firsts(s))
  BY <1>3, <1>4
<1> DEFINE T == {j \in Firsts(s) : j <= i}
<1>6. T \subseteq Firsts(s) /\ i \in T
  BY <1>1, <1>3
<1>7. IsFiniteSet(T) /\ Cardinality(T) <= Cardinality(Firsts(s)) /\ Cardinality(T) \in Nat
  BY <1>4, <1>6, FS_Subset, FS_CardinalityType
<1>8. Cardinality(T) # 0
  BY <1>6, <1>7, FS_EmptySet
<1> QED
  BY <1>7, <1>8 DEF Rank

(* Pushing a selection leaves the ranks below it alone. *)
LEMMA FirstsAppend ==
  ASSUME NEW s \in Seq(Selecteds), Len(s) > 0, NEW e \in Selecteds
  PROVE  LET t == Append(s, e) IN
         /\ Firsts(t) = IF e.first THEN Firsts(s) \cup {Len(s) + 1} ELSE Firsts(s)
         /\ \A i \in Firsts(s) : Rank(t, i) = Rank(s, i) /\ t[i] = s[i]
         /\ e.first => /\ Cardinality(Firsts(t)) = Cardinality(Firsts(s)) + 1
                       /\ Rank(t, Len(s) + 1) = Cardinality(Firsts(s)) + 1
                       /\ t[Len(s) + 1] = e
<1> DEFINE t == Append(s, e)
           n == Len(s)
<1>1. n \in Nat /\ Len(t) = n + 1 /\ t[n + 1] = e /\ \A i \in 1..n : t[i] = s[i]
  BY LenProperties, AppendProperties
<1> HIDE DEF t
<1>2. Firsts(t) = {i \in 2..(n + 1) : t[i].first} /\ Firsts(s) = {i \in 2..n : s[i].first}
  BY <1>1 DEF Firsts
<1> HIDE DEF n
<1>3. n + 1 \in 2..(n + 1)
  BY <1>1 DEF n
<1>4. Firsts(t) = IF e.first THEN Firsts(s) \cup {n + 1} ELSE Firsts(s)
  BY <1>1, <1>2, <1>3
<1>5. \A i \in Firsts(s) : i \in Int /\ i <= n /\ i < n + 1 /\ t[i] = s[i]
  BY <1>1, <1>2
<1>6. \A i \in Firsts(s) : Rank(t, i) = Rank(s, i)
  <2> SUFFICES ASSUME NEW i \in Firsts(s)
               PROVE  {j \in Firsts(t) : j <= i} = {j \in Firsts(s) : j <= i}
    BY DEF Rank
  <2>1. ~(n + 1 <= i)
    BY <1>1, <1>5
  <2> QED
    BY <1>4, <2>1
<1>7. ASSUME e.first
      PROVE  /\ Cardinality(Firsts(t)) = Cardinality(Firsts(s)) + 1
             /\ Rank(t, n + 1) = Cardinality(Firsts(s)) + 1
  <2>1. n + 1 \notin Firsts(s)
    BY <1>1, <1>5
  <2>2. Firsts(t) = Firsts(s) \cup {n + 1}
    BY <1>4, <1>7
  <2>3. Cardinality(Firsts(t)) = Cardinality(Firsts(s)) + 1
    BY <2>1, <2>2, FirstsFinite, FS_AddElement
  <2>4. \A j \in Firsts(t) : j <= n + 1
    BY <1>1, <1>5, <2>2
  <2>5. {j \in Firsts(t) : j <= n + 1} = Firsts(t)
    BY <2>4
  <2> QED
    BY <2>3, <2>5 DEF Rank
<1> QED
  BY <1>1, <1>4, <1>5, <1>6, <1>7 DEF t, n

(* So does popping one. *)
LEMMA FirstsFront ==
  ASSUME NEW s \in Seq(Selecteds), Len(s) > 1
  PROVE  /\ Firsts(Front(s)) = Firsts(s) \ {Len(s)}
         /\ \A i \in Firsts(Front(s)) : Rank(Front(s), i) = Rank(s, i) /\ Front(s)[i] = s[i]
         /\ Last(s).first => /\ Len(s) \in Firsts(s)
                             /\ Cardinality(Firsts(Front(s))) = Cardinality(Firsts(s)) - 1
                             /\ Rank(s, Len(s)) = Cardinality(Firsts(s))
         /\ ~Last(s).first => Firsts(Front(s)) = Firsts(s)
<1> DEFINE t == Front(s)
           n == Len(s)
<1>1. s # <<>>
  BY EmptySeq
<1>2. n \in Nat /\ n > 1 /\ Len(t) = n - 1 /\ Last(s) = s[n] /\ \A i \in 1..(n - 1) : t[i] = s[i]
  BY <1>1, LenProperties, FrontProperties
<1> HIDE DEF t
<1>3. Firsts(t) = {i \in 2..(n - 1) : t[i].first} /\ Firsts(s) = {i \in 2..n : s[i].first}
  BY <1>2 DEF Firsts
<1> HIDE DEF n
<1>4. Firsts(t) = Firsts(s) \ {n}
  BY <1>2, <1>3
<1>5. n \in Firsts(s) <=> Last(s).first
  BY <1>2, <1>3
<1>6. \A i \in Firsts(s) : i \in Int /\ i <= n
  BY <1>2, <1>3
<1>7. \A i \in Firsts(t) : t[i] = s[i] /\ i \in Int /\ i < n
  BY <1>2, <1>3
<1>8. \A i \in Firsts(t) : Rank(t, i) = Rank(s, i)
  <2> SUFFICES ASSUME NEW i \in Firsts(t)
               PROVE  {j \in Firsts(t) : j <= i} = {j \in Firsts(s) : j <= i}
    BY DEF Rank
  <2>1. ~(n <= i)
    BY <1>2, <1>7
  <2> QED
    BY <1>4, <2>1
<1>9. ASSUME Last(s).first
      PROVE  /\ Cardinality(Firsts(t)) = Cardinality(Firsts(s)) - 1
             /\ Rank(s, n) = Cardinality(Firsts(s))
  <2>1. {j \in Firsts(s) : j <= n} = Firsts(s)
    BY <1>6
  <2>2. n \in Firsts(s)
    BY <1>5, <1>9
  <2>3. Cardinality(Firsts(t)) = Cardinality(Firsts(s)) - 1
    BY <1>4, <2>2, FirstsFinite, FS_RemoveElement
  <2> QED
    BY <2>1, <2>3 DEF Rank
<1> QED
  BY <1>4, <1>5, <1>7, <1>8, <1>9 DEF t, n

(* Alignment looks at the identifiers of the queues only. *)
LEMMA AlignedSameIds ==
  ASSUME NEW s \in Seq(Selecteds), NEW k \in Int, NEW qs \in Seq(Queues), Aligned(s, qs, k),
         NEW rs, Len(rs) = Len(qs), \A i \in 1..Len(qs) : rs[i].id = qs[i].id
  PROVE  Aligned(s, rs, k)
<1>1. Len(qs) \in Nat
  BY LenProperties
<1>2. \A i \in Firsts(s) : Rank(s, i) <= Len(qs) => Rank(s, i) \in 1..Len(qs)
  BY <1>1, FirstsFinite
<1> QED
  BY <1>2 DEF Aligned

(* selectAtom() with packages only *)
LEMMA AlignedAddPackages ==
  ASSUME NEW s \in Seq(Selecteds), Len(s) > 0, NEW e \in Selecteds, ~e.first,
         NEW k \in Int, NEW qs \in Seq(Queues), Aligned(s, qs, k)
  PROVE  Aligned(Append(s, e), qs, k)
<1> DEFINE t == Append(s, e)
<1>1. Firsts(t) = Firsts(s) /\ \A i \in Firsts(s) : Rank(t, i) = Rank(s, i) /\ t[i] = s[i]
  BY FirstsAppend
<1> HIDE DEF t
<1>2. Aligned(t, qs, k)
  BY <1>1 DEF Aligned
<1> QED
  BY <1>2 DEF t

(* selectAtom() with a project whose queue goes on the stack with it *)
LEMMA AlignedSelect ==
  ASSUME NEW s \in Seq(Selecteds), Len(s) > 0, NEW e \in Selecteds, e.first,
         NEW qs \in Seq(Queues), Aligned(s, qs, 0), NEW q \in Queues, q.id = e.a.id
  PROVE  Aligned(Append(s, e), Append(qs, q), 0)
<1> DEFINE t == Append(s, e)
           rs == Append(qs, q)
           n == Len(s)
           m == Len(qs)
<1>1. /\ Firsts(t) = Firsts(s) \cup {n + 1}
      /\ \A i \in Firsts(s) : Rank(t, i) = Rank(s, i) /\ t[i] = s[i]
      /\ Cardinality(Firsts(t)) = Cardinality(Firsts(s)) + 1
      /\ Rank(t, n + 1) = Cardinality(Firsts(s)) + 1
      /\ t[n + 1] = e
  BY FirstsAppend
<1>2. m \in Nat /\ Len(rs) = m + 1 /\ rs[m + 1] = q /\ \A i \in 1..m : rs[i] = qs[i]
  BY LenProperties, AppendProperties
<1>3. Cardinality(Firsts(s)) = m
  BY <1>2 DEF Aligned
<1>4. \A i \in Firsts(s) : Rank(s, i) \in 1..m /\ qs[Rank(s, i)].id = s[i].a.id
  BY <1>2, <1>3, FirstsFinite DEF Aligned
<1> HIDE DEF t, rs, n, m
<1>5. \A i \in Firsts(t) : rs[Rank(t, i)].id = t[i].a.id
  <2> SUFFICES ASSUME NEW i \in Firsts(t)
               PROVE  rs[Rank(t, i)].id = t[i].a.id
    OBVIOUS
  <2>1. CASE i \in Firsts(s)
    BY <1>1, <1>2, <1>4, <2>1
  <2>2. CASE i = n + 1
    BY <1>1, <1>2, <1>3, <2>2
  <2> QED
    BY <1>1, <2>1, <2>2
<1>6. Cardinality(Firsts(t)) = Len(rs) + 0
  BY <1>1, <1>2, <1>3
<1> QED
  BY <1>5, <1>6 DEF Aligned, t, rs

(* selectAtom() with the next version of a project whose queue was kept *)
LEMMA AlignedRetry ==
  ASSUME NEW s \in Seq(Selecteds), Len(s) > 0, NEW e \in Selecteds, e.first,
         NEW qs \in Seq(Queues), qs # <<>>, Aligned(s, qs, -1), Last(qs).id = e.a.id
  PROVE  Aligned(Append(s, e), qs, 0)
<1> DEFINE t == Append(s, e)
           n == Len(s)
           m == Len(qs)
<1>1. /\ Firsts(t) = Firsts(s) \cup {n + 1}
      /\ \A i \in Firsts(s) : Rank(t, i) = Rank(s, i) /\ t[i] = s[i]
      /\ Cardinality(Firsts(t)) = Cardinality(Firsts(s)) + 1
      /\ Rank(t, n + 1) = Cardinality(Firsts(s)) + 1
      /\ t[n + 1] = e
  BY FirstsAppend
<1>2. m \in Nat /\ m > 0 /\ Last(qs) = qs[m]
  BY FrontProperties
<1>3. Cardinality(Firsts(s)) = m - 1
  BY <1>2 DEF Aligned
<1>4. \A i \in Firsts(s) : Rank(s, i) <= m /\ qs[Rank(s, i)].id = s[i].a.id
  BY <1>2, <1>3, FirstsFinite DEF Aligned
<1> HIDE DEF t, n, m
<1>5. \A i \in Firsts(t) : qs[Rank(t, i)].id = t[i].a.id
  <2> SUFFICES ASSUME NEW i \in Firsts(t)
               PROVE  qs[Rank(t, i)].id = t[i].a.id
    OBVIOUS
  <2>1. CASE i \in Firsts(s)
    BY <1>1, <1>4, <2>1
  <2>2. CASE i = n + 1
    BY <1>1, <1>2, <1>3, <2>2
  <2> QED
    BY <1>1, <2>1, <2>2
<1>6. Cardinality(Firsts(t)) = m + 0
  BY <1>1, <1>2, <1>3
<1> QED
  BY <1>5, <1>6 DEF Aligned, t, m

(* backtrack() dropping a queue *)
LEMMA AlignedDrop ==
  ASSUME NEW s \in Seq(Selecteds), NEW k \in Int, NEW qs \in Seq(Queues), qs # <<>>,
         Aligned(s, qs, k)
  PROVE  Aligned(s, Front(qs), k + 1)
<1> DEFINE m == Len(qs)
           rs == Front(qs)
<1>1. m \in Nat /\ m > 0 /\ Len(rs) = m - 1 /\ \A i \in 1..(m - 1) : rs[i] = qs[i]
  BY FrontProperties
<1>2. \A i \in Firsts(s) : Rank(s, i) \in Nat /\ Rank(s, i) >= 1
  BY FirstsFinite
<1> HIDE DEF m, rs
<1>3. \A i \in Firsts(s) : Rank(s, i) <= m - 1 => Rank(s, i) \in 1..(m - 1) /\ Rank(s, i) <= m
  BY <1>1, <1>2
<1>4. Cardinality(Firsts(s)) = Len(rs) + (k + 1)
  BY <1>1 DEF Aligned, m
<1> QED
  BY <1>1, <1>3, <1>4 DEF Aligned, m, rs

(* unselectLast() popping packages only *)
LEMMA AlignedPopPackages ==
  ASSUME NEW s \in Seq(Selecteds), Len(s) > 1, ~Last(s).first,
         NEW k \in Int, NEW qs \in Seq(Queues), Aligned(s, qs, k)
  PROVE  Aligned(Front(s), qs, k)
BY FirstsFront DEF Aligned

(* unselectLast() popping a project *)
LEMMA AlignedPopProject ==
  ASSUME NEW s \in Seq(Selecteds), Len(s) > 1, Last(s).first,
         NEW k \in Int, NEW qs \in Seq(Queues), Aligned(s, qs, k)
  PROVE  /\ Aligned(Front(s), qs, k - 1)
         /\ k = 0 => Last(qs).id = Last(s).a.id
<1>0. Len(s) \in Nat /\ s # <<>>
  BY LenProperties, EmptySeq
<1>1. /\ Firsts(Front(s)) = Firsts(s) \ {Len(s)}
      /\ \A i \in Firsts(Front(s)) : Rank(Front(s), i) = Rank(s, i) /\ Front(s)[i] = s[i]
      /\ Len(s) \in Firsts(s)
      /\ Cardinality(Firsts(Front(s))) = Cardinality(Firsts(s)) - 1
      /\ Rank(s, Len(s)) = Cardinality(Firsts(s))
  BY FirstsFront
<1>2. Len(qs) \in Nat /\ Cardinality(Firsts(s)) = Len(qs) + k /\ Cardinality(Firsts(s)) \in Nat
  BY LenProperties, FirstsFinite DEF Aligned
<1>3. Cardinality(Firsts(Front(s))) = Len(qs) + (k - 1)
  BY <1>1, <1>2
<1>4. Aligned(Front(s), qs, k - 1)
  BY <1>1, <1>3 DEF Aligned
<1>5. ASSUME k = 0 PROVE Last(qs).id = Last(s).a.id
  <2>1. Rank(s, Len(s)) = Len(qs)
    BY <1>1, <1>2, <1>5
  <2>2. qs[Len(qs)].id = s[Len(s)].a.id
    BY <1>1, <1>2, <2>1 DEF Aligned
  <2>3. Last(s) = s[Len(s)]
    BY <1>0, FrontProperties
  <2> QED
    BY <2>2, <2>3 DEF Last
<1> QED
  BY <1>4, <1>5

(* As long as a queue is there, or one is owed, so is a project. *)
LEMMA AlignedNonempty ==
  ASSUME NEW s \in Seq(Selecteds), NEW k \in Int, NEW qs \in Seq(Queues),
         Aligned(s, qs, k), Len(qs) + k > 0
  PROVE  Len(s) > 1
<1>1. Cardinality(Firsts(s)) # 0
  BY DEF Aligned
<1>2. PICK i \in Firsts(s) : TRUE
  BY <1>1, FS_EmptySet
<1>3. i \in 2..Len(s) /\ Len(s) \in Nat
  BY FirstsFinite, LenProperties
<1> QED
  BY <1>3

(* StacksAligned in terms of Aligned. *)
LEMMA StacksAlignedAs ==
  StacksAligned <=> Aligned(sel, vqs, Owed) /\ (Owed = -1 => Last(vqs).id = awp.a.id)
BY DEF StacksAligned, Aligned

-----------------------------------------------------------------------------
(* The steps that leave the selection, the dependers and the queue of what *)
(* is unselected alone.                                                    *)

(* What only depends on those stays true. *)
LEMMA Frame ==
  ASSUME IInv, UNCHANGED <<w, sel, deps, foldRoots, unsel, awp, todo>>,
         pc' \notin {"selectRoot", "selectAtom"}
  PROVE  /\ SelectionSane' /\ FirstIsFirst' /\ OneVersion' /\ DepsSane'
         /\ TodoSane' /\ PackagesOwned' /\ SelectedAllowed'
<1>1. SelectionSane'
  BY DEF IInv, SelectionSane, ImportsOk
<1>2. FirstIsFirst' /\ OneVersion'
  BY DEF IInv, FirstIsFirst, OneVersion
<1>3. DepsSane' /\ SelectedAllowed'
  BY DEF IInv, DepsSane, SelectedAllowed
<1>4. TodoSane' /\ PackagesOwned'
  BY DEF IInv, TodoSane, PackagesOwned
<1> QED
  BY <1>1, <1>2, <1>3, <1>4

(* Leaving the loops of selectRoot() and selectAtom() keeps IInv. *)
LEMMA DepsPushedKeeps ==
  ASSUME IInv, DepsPushed
  PROVE  IInv'
<1>1. /\ pc \in {"selectRoot", "selectAtom"} /\ pc' = "solve"
      /\ UNCHANGED <<w, sel, deps, foldRoots, unsel, vqs, newq, awp, todo, retry>>
  BY DEF DepsPushed
<1>2. TypeOK'
  BY <1>1 DEF IInv, TypeOK, Running
<1>3. QueuesSane' /\ NoCanary' /\ ~retry
  BY <1>1 DEF IInv, QueuesSane, NoCanary, SearchSane
<1>4. SearchSane'
  BY <1>1, <1>3 DEF SearchSane
<1>5. StacksAligned'
  <2>1. Owed = 0 /\ Owed' = 0
    BY <1>1 DEF Owed
  <2>2. Aligned(sel, vqs, 0)
    BY <2>1, StacksAlignedAs DEF IInv
  <2> QED
    BY <1>1, <2>1, <2>2, StacksAlignedAs DEF StacksAligned, Aligned
<1> QED
  BY <1>1, <1>2, <1>3, <1>4, <1>5, Frame DEF IInv

(* Ending the run with a solution keeps IInv. *)
LEMMA SolvedKeeps ==
  ASSUME IInv, Solved
  PROVE  IInv'
<1>1. /\ pc = "solve" /\ pc' = "solved"
      /\ UNCHANGED <<w, sel, deps, foldRoots, unsel, vqs, newq, awp, todo, retry>>
  BY DEF Solved
<1>2. TypeOK'
  BY <1>1 DEF IInv, TypeOK, Ended
<1>3. QueuesSane' /\ NoCanary' /\ ~retry
  BY <1>1 DEF IInv, QueuesSane, NoCanary, SearchSane
<1>4. SearchSane'
  BY <1>1, <1>3 DEF SearchSane
<1>5. StacksAligned'
  BY <1>1 DEF IInv, StacksAligned, Owed
<1> QED
  BY <1>1, <1>2, <1>3, <1>4, <1>5, Frame DEF IInv

(* Ending the run on cancellation keeps IInv. *)
LEMMA CanceledKeeps ==
  ASSUME IInv, Canceled
  PROVE  IInv'
<1>1. /\ pc \in {"solve", "backtrack"} /\ pc' = "canceled"
      /\ UNCHANGED <<w, sel, deps, foldRoots, unsel, vqs, newq, awp, todo, retry>>
  BY DEF Canceled
<1>2. TypeOK'
  BY <1>1 DEF IInv, TypeOK, Ended
<1>3. QueuesSane' /\ NoCanary' /\ ~retry
  BY <1>1 DEF IInv, QueuesSane, NoCanary, SearchSane
<1>4. SearchSane'
  BY <1>1, <1>3 DEF SearchSane
<1>5. StacksAligned'
  BY <1>1 DEF IInv, StacksAligned, Owed
<1> QED
  BY <1>1, <1>2, <1>3, <1>4, <1>5, Frame DEF IInv

(* A turn of backtrack() that drops or keeps a queue keeps IInv. *)
LEMMA BacktrackKeeps ==
  ASSUME IInv, Backtrack
  PROVE  IInv'
<1>1. /\ pc = "backtrack"
      /\ UNCHANGED <<w, sel, deps, foldRoots, unsel, newq, awp, todo>>
  BY DEF Backtrack
<1>2. sel \in Seq(Selecteds) /\ vqs \in Seq(Queues) /\ ~retry /\ Owed = 0
  BY <1>1 DEF IInv, TypeOK, SearchSane, Owed
<1>3. Aligned(sel, vqs, 0)
  BY <1>2, StacksAlignedAs DEF IInv
<1>4. CASE vqs = <<>> /\ pc' = "failed" /\ UNCHANGED <<vqs, retry>>
  <2>1. TypeOK'
    BY <1>1, <1>4 DEF IInv, TypeOK, Ended
  <2>2. QueuesSane' /\ NoCanary'
    BY <1>1, <1>4 DEF IInv, QueuesSane, NoCanary
  <2>3. SearchSane'
    BY <1>2, <1>4 DEF SearchSane
  <2>4. StacksAligned'
    BY <1>1, <1>4 DEF IInv, StacksAligned, Owed
  <2> QED
    BY <1>1, <1>4, <2>1, <2>2, <2>3, <2>4, Frame DEF IInv
<1>5. CASE /\ vqs # <<>> /\ pc' = "unselectLast"
           /\ retry' = Last(vqs).failed
           /\ vqs' = IF retry' THEN vqs ELSE Front(vqs)
  <2>1. /\ Front(vqs) \in Seq(Queues)
        /\ \A i \in 1..Len(Front(vqs)) : Front(vqs)[i] = vqs[i]
        /\ Len(Front(vqs)) = Len(vqs) - 1
        /\ Len(vqs) \in Nat
        /\ Last(vqs) \in Queues
    BY <1>2, <1>5, FrontProperties
  <2>2. retry' \in BOOLEAN
    BY <1>5, <2>1 DEF Queues
  <2>3. TypeOK'
    BY <1>1, <1>2, <1>5, <2>1, <2>2 DEF IInv, TypeOK, Running
  <2>4. QueuesSane'
    <3>1. \A i \in 1..Len(vqs) : vqs[i].pi # <<>>
      BY <1>2, LenProperties DEF IInv, QueuesSane
    <3>2. \A i \in 1..Len(Front(vqs)) : Front(vqs)[i].pi # <<>>
      BY <2>1, <3>1
    <3>3. DOMAIN vqs = 1..Len(vqs) /\ DOMAIN Front(vqs) = 1..Len(Front(vqs))
      BY <1>2, <2>1, LenProperties
    <3> QED
      BY <1>5, <3>1, <3>2, <3>3 DEF QueuesSane
  <2>5. NoCanary' /\ SearchSane'
    BY <1>5 DEF NoCanary, SearchSane
  <2>6. StacksAligned'
    <3>1. CASE retry'
      <4>1. Owed' = 0 /\ vqs' = vqs
        BY <1>5, <3>1 DEF Owed
      <4> QED
        BY <1>1, <1>3, <4>1 DEF StacksAligned, Aligned
    <3>2. CASE ~retry'
      <4>1. Owed' = 1 /\ vqs' = Front(vqs)
        BY <1>5, <3>2 DEF Owed
      <4>2. Aligned(sel, Front(vqs), 1)
        BY <1>2, <1>3, <1>5, AlignedDrop
      <4> QED
        BY <1>1, <4>1, <4>2 DEF StacksAligned, Aligned
    <3> QED
      BY <3>1, <3>2
  <2> QED
    BY <1>1, <1>5, <2>3, <2>4, <2>5, <2>6, Frame DEF IInv
<1> QED
  BY <1>4, <1>5 DEF Backtrack

(* What findValidVersion() is looking at. *)
LEMMA SearchedQueueFacts ==
  ASSUME IInv, pc = "findValidVersion"
  PROVE  /\ SearchedQueue \in Queues
         /\ SearchedQueue.pi # <<>>
         /\ SearchedQueue.id = awp.a.id
         /\ awp.first
         /\ awp.pl \in SUBSET Packages
         /\ ~IsSelected(sel, awp.a.id.pr)
         /\ Candidate \in DepAtoms
         /\ Candidate.id = awp.a.id
<1>1. vqs \in Seq(Queues) /\ awp \in Selecteds
  BY DEF IInv, TypeOK
<1>2. retry => Last(vqs) \in Queues
  BY <1>1, FrontProperties DEF IInv, SearchSane
<1>3. ~retry => newq \in Queues
  BY DEF IInv, SearchSane
<1>4. SearchedQueue \in Queues
  BY <1>2, <1>3 DEF SearchedQueue
<1>5. SearchedQueue.pi # <<>> /\ SearchedQueue.id = awp.a.id /\ awp.first
      /\ ~IsSelected(sel, awp.a.id.pr)
  BY DEF IInv, SearchSane
<1>6. awp.pl \in SUBSET Packages
  BY <1>1 DEF Selecteds
<1>7. SearchedQueue.pi \in Seq(Versions) /\ SearchedQueue.id \in DepIdents
  BY <1>4 DEF Queues
<1>8. Head(SearchedQueue.pi) \in Versions
  BY <1>5, <1>7, HeadTailProperties
<1>9. Candidate \in DepAtoms /\ Candidate.id = awp.a.id
  BY <1>5, <1>7, <1>8 DEF Candidate, DepAtoms
<1> QED
  BY <1>4, <1>5, <1>6, <1>9

(* A version failing its checks with more to try keeps IInv. *)
LEMMA NextVersionKeeps ==
  ASSUME w \in Worlds, IInv, NextVersion
  PROVE  IInv'
<1>1. /\ pc = "findValidVersion" /\ ~IsExhausted(Advance(SearchedQueue))
      /\ UNCHANGED <<w, pc, sel, deps, foldRoots, unsel, awp, todo, retry>>
  BY DEF NextVersion
<1>2. PICK ids : \/ /\ retry
                    /\ vqs' = [MarkFailed(vqs, ids) EXCEPT
                                 ![Len(vqs)] = Advance(Last(MarkFailed(vqs, ids)))]
                    /\ newq' = newq
                 \/ /\ ~retry /\ vqs' = MarkFailed(vqs, ids) /\ newq' = Advance(newq)
  BY DEF NextVersion
<1> DEFINE marked == MarkFailed(vqs, ids)
<1>3. /\ vqs \in Seq(Queues) /\ DOMAIN vqs = 1..Len(vqs) /\ Len(vqs) \in Nat
      /\ sel \in Seq(Selecteds) /\ retry \in BOOLEAN
  BY LenProperties DEF IInv, TypeOK
<1>4. /\ marked \in Seq(Queues) /\ Len(marked) = Len(vqs) /\ DOMAIN marked = 1..Len(vqs)
      /\ \A i \in 1..Len(vqs) : marked[i].id = vqs[i].id /\ marked[i].pi = vqs[i].pi
                                /\ marked[i] \in Queues
  BY <1>3, MarkFailedKeeps, LenProperties
<1>5. \A i \in 1..Len(vqs) : vqs[i].pi # <<>> /\ marked[i].pi # <<>>
  BY <1>3, <1>4 DEF IInv, QueuesSane
<1>6. /\ SearchedQueue \in Queues /\ SearchedQueue.pi # <<>> /\ SearchedQueue.id = awp.a.id
      /\ awp.first /\ ~IsSelected(sel, awp.a.id.pr)
  BY <1>1, SearchedQueueFacts
<1> HIDE DEF marked
<1>7. CASE retry
  <2>1. vqs # <<>> /\ Len(vqs) > 0
    BY <1>3, <1>7, FrontProperties DEF IInv, SearchSane
  <2>2. Last(marked) = marked[Len(vqs)] /\ Last(marked) \in Queues
    BY <1>3, <1>4, <2>1 DEF Last
  <2> DEFINE q == Advance(Last(marked))
  <2>3. Last(vqs) = vqs[Len(vqs)]
    BY DEF Last
  <2>4. Last(marked).pi = Last(vqs).pi /\ Last(marked).id = Last(vqs).id
        /\ Last(marked).pi # <<>>
    BY <1>3, <1>4, <1>5, <2>1, <2>2, <2>3
  <2>5. q \in Queues /\ q.id = Last(vqs).id
        /\ (~IsExhausted(q) => q.pi # <<>>)
    BY <2>2, <2>4, AdvanceKeeps
  <2>6. ~IsExhausted(q)
    <3>1. Last(marked) \in {Last(vqs), [Last(vqs) EXCEPT !.failed = TRUE]}
      BY <1>3, <2>1, <2>2, <2>3, MarkFailedKeeps DEF marked
    <3>2. SearchedQueue = Last(vqs) /\ Last(vqs) \in Queues
      BY <1>6, <1>7 DEF SearchedQueue
    <3>3. IsExhausted(q) <=> IsExhausted(Advance(Last(vqs)))
      BY <3>1, <3>2, AdvanceIgnoresMark
    <3> QED
      BY <1>1, <3>2, <3>3
  <2> HIDE DEF q
  <2> DEFINE rs == [marked EXCEPT ![Len(vqs)] = q]
  <2>7. vqs' = rs /\ newq' = newq
    BY <1>2, <1>7 DEF marked, q
  <2>8. /\ rs \in Seq(Queues) /\ Len(rs) = Len(vqs) /\ DOMAIN rs = 1..Len(vqs)
        /\ \A i \in 1..Len(vqs) : rs[i] = IF i = Len(vqs) THEN q ELSE marked[i]
    BY <1>3, <1>4, <2>1, <2>5, ExceptSeq, LenProperties
  <2> HIDE DEF rs
  <2>9. \A i \in 1..Len(vqs) : rs[i].id = vqs[i].id /\ rs[i].pi # <<>>
    BY <1>4, <1>5, <2>3, <2>5, <2>6, <2>8
  <2>10. TypeOK'
    BY <1>1, <2>7, <2>8 DEF IInv, TypeOK
  <2>11. QueuesSane' /\ NoCanary'
    BY <1>1, <2>7, <2>8, <2>9 DEF IInv, QueuesSane, NoCanary
  <2>12. Last(vqs') = q
    <3>1. Len(vqs) \in 1..Len(vqs)
      BY <1>3, <2>1
    <3>2. rs[Len(rs)] = q
      BY <2>8, <3>1
    <3> QED
      BY <2>7, <3>2 DEF Last
  <2>13. q.id = awp.a.id
    BY <1>6, <1>7, <2>5 DEF SearchedQueue
  <2>14. rs # <<>>
    BY <1>3, <2>1, <2>8, NonemptyByLen
  <2>15. SearchedQueue' = q
    BY <1>1, <1>7, <2>12 DEF SearchedQueue
  <2>16. SearchSane'
    BY <1>1, <1>6, <1>7, <2>5, <2>6, <2>7, <2>13, <2>14, <2>15 DEF SearchSane, IsSelected
  <2>17. Owed = -1 /\ Owed' = -1
    BY <1>1, <1>7 DEF Owed
  <2>18. Aligned(sel, vqs, -1)
    BY <2>17, StacksAlignedAs DEF IInv
  <2>19. Aligned(sel, rs, -1)
    <3>1. -1 \in Int /\ vqs \in Seq(Queues) /\ sel \in Seq(Selecteds)
      BY <1>3
    <3>2. Len(rs) = Len(vqs) /\ \A i \in 1..Len(vqs) : rs[i].id = vqs[i].id
      BY <2>8, <2>9
    <3> QED
      BY <2>18, <3>1, <3>2, AlignedSameIds
  <2>20. StacksAligned'
    BY <1>1, <2>7, <2>12, <2>13, <2>17, <2>19 DEF StacksAligned, Aligned
  <2> QED
    BY <1>1, <2>10, <2>11, <2>16, <2>20, Frame DEF IInv
<1>8. CASE ~retry
  <2>1. vqs' = marked /\ newq' = Advance(newq) /\ SearchedQueue = newq
    BY <1>2, <1>8 DEF marked, SearchedQueue
  <2>2. newq' \in Queues /\ newq'.id = newq.id /\ newq'.pi # <<>>
    BY <1>1, <1>6, <2>1, AdvanceKeeps
  <2>3. TypeOK'
    BY <1>1, <1>4, <2>1, <2>2 DEF IInv, TypeOK
  <2>4. QueuesSane' /\ NoCanary'
    BY <1>1, <1>4, <1>5, <2>1 DEF IInv, QueuesSane, NoCanary
  <2>5. SearchedQueue' = newq'
    BY <1>1, <1>8 DEF SearchedQueue
  <2>6. SearchSane'
    BY <1>1, <1>6, <1>8, <2>1, <2>2, <2>5 DEF SearchSane, IsSelected
  <2>7. Owed = 0 /\ Owed' = 0
    BY <1>1, <1>8 DEF Owed
  <2>8. Aligned(sel, vqs, 0)
    BY <2>7, StacksAlignedAs DEF IInv
  <2>9. Aligned(sel, marked, 0)
    BY <1>3, <1>4, <2>8, AlignedSameIds
  <2>10. StacksAligned'
    BY <1>1, <2>1, <2>7, <2>9 DEF StacksAligned, Aligned
  <2> QED
    BY <1>1, <2>3, <2>4, <2>6, <2>10, Frame DEF IInv
<1> QED
  BY <1>3, <1>7, <1>8

(* A queue running out in findValidVersion() keeps IInv. *)
LEMMA NoVersionKeeps ==
  ASSUME IInv, NoVersion
  PROVE  IInv'
<1>1. /\ pc = "findValidVersion" /\ retry' = FALSE
      /\ UNCHANGED <<w, sel, deps, foldRoots, unsel, newq, awp, todo>>
  BY DEF NoVersion
<1>2. /\ vqs \in Seq(Queues) /\ DOMAIN vqs = 1..Len(vqs) /\ Len(vqs) \in Nat
      /\ sel \in Seq(Selecteds) /\ retry \in BOOLEAN
  BY LenProperties DEF IInv, TypeOK
<1>3. /\ pc' \in {"backtrack", "panic: index out of range"}
      /\ \E rs : /\ vqs' = IF retry THEN Front(rs) ELSE rs
                 /\ rs \in Seq(Queues) /\ Len(rs) = Len(vqs)
                 /\ \A i \in 1..Len(vqs) : rs[i].id = vqs[i].id /\ rs[i].pi = vqs[i].pi
  <2>1. PICK ids :
          LET marked == MarkFailed(vqs, ids)
              ds == deps[SearchedQueue.id.pr]
              blamed == IF ds = <<>> THEN marked ELSE MarkFailed(marked, {ds[1].depender.id})
          IN  /\ pc' = Unless(ds # <<>>, "backtrack", "panic: index out of range")
              /\ vqs' = IF retry THEN Front(blamed) ELSE blamed
    BY DEF NoVersion
  <2> DEFINE marked == MarkFailed(vqs, ids)
             ds == deps[SearchedQueue.id.pr]
             twice == MarkFailed(marked, {ds[1].depender.id})
             blamed == IF ds = <<>> THEN marked ELSE twice
  <2>2. /\ marked \in Seq(Queues) /\ Len(marked) = Len(vqs)
        /\ \A i \in 1..Len(vqs) : marked[i].id = vqs[i].id /\ marked[i].pi = vqs[i].pi
    BY <1>2, MarkFailedKeeps
  <2>3. pc' \in {"backtrack", "panic: index out of range"}
    BY <2>1 DEF Unless
  <2>4. vqs' = IF retry THEN Front(blamed) ELSE blamed
    BY <2>1
  <2> HIDE DEF marked
  <2>5. /\ twice \in Seq(Queues) /\ Len(twice) = Len(marked)
        /\ \A i \in 1..Len(marked) : twice[i].id = marked[i].id /\ twice[i].pi = marked[i].pi
    BY <2>2, MarkFailedKeeps
  <2> HIDE DEF twice, ds
  <2>6. /\ blamed \in Seq(Queues) /\ Len(blamed) = Len(vqs)
        /\ \A i \in 1..Len(vqs) : blamed[i].id = vqs[i].id /\ blamed[i].pi = vqs[i].pi
    BY <2>2, <2>5
  <2> HIDE DEF blamed
  <2> QED
    BY <2>3, <2>4, <2>6
<1>4. PICK rs : /\ vqs' = IF retry THEN Front(rs) ELSE rs
                /\ rs \in Seq(Queues) /\ Len(rs) = Len(vqs)
                /\ \A i \in 1..Len(vqs) : rs[i].id = vqs[i].id /\ rs[i].pi = vqs[i].pi
  BY <1>3
<1>5. /\ Front(rs) \in Seq(Queues)
      /\ \A i \in 1..Len(Front(rs)) : Front(rs)[i] = rs[i]
      /\ Len(Front(rs)) <= Len(rs)
  BY <1>4, FrontProperties
<1>6. vqs' \in Seq(Queues)
  BY <1>2, <1>4, <1>5
<1>7. TypeOK'
  BY <1>1, <1>3, <1>6 DEF IInv, TypeOK, Running, Panics
<1>8. QueuesSane'
  <2>1. \A i \in 1..Len(vqs) : rs[i].pi # <<>>
    BY <1>2, <1>4 DEF IInv, QueuesSane
  <2>2. DOMAIN rs = 1..Len(rs) /\ DOMAIN Front(rs) = 1..Len(Front(rs))
        /\ Len(Front(rs)) \in Nat
    BY <1>4, <1>5, LenProperties
  <2>3. \A i \in 1..Len(Front(rs)) : Front(rs)[i].pi # <<>>
    BY <1>2, <1>4, <1>5, <2>1, <2>2
  <2> QED
    BY <1>2, <1>4, <2>1, <2>2, <2>3 DEF QueuesSane
<1>9. NoCanary' /\ SearchSane'
  BY <1>1, <1>3 DEF NoCanary, SearchSane
<1>10. Owed' = 0
  BY <1>1, <1>3 DEF Owed
<1>11. StacksAligned'
  <2>1. CASE retry
    <3>1. Owed = -1 /\ vqs # <<>> /\ awp.first
      BY <1>1, <2>1 DEF IInv, SearchSane, Owed
    <3>2. Aligned(sel, vqs, -1) /\ -1 \in Int /\ -1 + 1 = 0
      BY <3>1, StacksAlignedAs DEF IInv
    <3>3. Aligned(sel, rs, -1)
      BY <1>2, <1>4, <3>2, AlignedSameIds
    <3>4. rs # <<>>
      BY <1>2, <1>4, <3>1, NonemptyByLen
    <3>5. Aligned(sel, Front(rs), 0)
      BY <1>2, <1>4, <3>2, <3>3, <3>4, AlignedDrop
    <3> QED
      BY <1>1, <1>4, <1>10, <2>1, <3>5 DEF StacksAligned, Aligned
  <2>2. CASE ~retry
    <3>1. Owed = 0
      BY <1>1, <2>2 DEF Owed
    <3>2. Aligned(sel, vqs, 0)
      BY <3>1, StacksAlignedAs DEF IInv
    <3>3. Aligned(sel, rs, 0)
      BY <1>2, <1>4, <3>2, AlignedSameIds
    <3> QED
      BY <1>1, <1>4, <1>10, <2>2, <3>3 DEF StacksAligned, Aligned
  <2> QED
    BY <2>1, <2>2
<1> QED
  BY <1>1, <1>3, <1>7, <1>8, <1>9, <1>11, Frame DEF IInv

(* What backtrack() does once an atom is popped keeps IInv. *)
LEMMA UnselectedKeeps ==
  ASSUME w \in Worlds, IInv, Unselected
  PROVE  IInv'
<1>1. /\ pc = "popDeps"
      /\ UNCHANGED <<w, sel, deps, foldRoots, unsel, newq, awp, todo>>
  BY DEF Unselected
<1>2. /\ vqs \in Seq(Queues) /\ DOMAIN vqs = 1..Len(vqs) /\ Len(vqs) \in Nat
      /\ sel \in Seq(Selecteds) /\ retry \in BOOLEAN /\ awp \in Selecteds
  BY LenProperties DEF IInv, TypeOK
<1>3. CASE ~awp.first /\ pc' = "unselectLast" /\ UNCHANGED <<vqs, retry>>
  <2>1. TypeOK'
    BY <1>1, <1>3 DEF IInv, TypeOK, Running
  <2>2. QueuesSane' /\ NoCanary' /\ SearchSane'
    BY <1>1, <1>3 DEF IInv, QueuesSane, NoCanary, SearchSane
  <2>3. StacksAligned'
    <3>1. Owed' = Owed /\ Owed # -1
      BY <1>1, <1>2, <1>3 DEF Owed
    <3> QED
      BY <1>1, <1>3, <3>1 DEF IInv, StacksAligned
  <2> QED
    BY <1>1, <1>3, <2>1, <2>2, <2>3, Frame DEF IInv
<1>4. CASE awp.first /\ ~retry /\ pc' = "backtrack" /\ UNCHANGED <<vqs, retry>>
  <2>1. TypeOK'
    BY <1>1, <1>4 DEF IInv, TypeOK, Running
  <2>2. QueuesSane' /\ NoCanary' /\ SearchSane'
    BY <1>1, <1>4 DEF IInv, QueuesSane, NoCanary, SearchSane
  <2>3. StacksAligned'
    <3>1. Owed' = 0 /\ Owed = 0
      BY <1>1, <1>2, <1>4 DEF Owed
    <3> QED
      BY <1>1, <1>4, <3>1 DEF IInv, StacksAligned
  <2> QED
    BY <1>1, <1>4, <2>1, <2>2, <2>3, Frame DEF IInv
<1> DEFINE q == Advance(Last(vqs))
<1>5. CASE awp.first /\ retry
  <2>1. Owed = -1 /\ vqs # <<>>
    BY <1>1, <1>5 DEF Owed, IInv, SearchSane
  <2>2. Aligned(sel, vqs, -1) /\ Last(vqs).id = awp.a.id /\ -1 \in Int /\ -1 + 1 = 0
    BY <2>1, StacksAlignedAs DEF IInv
  <2>3. /\ Len(vqs) > 0 /\ Last(vqs) \in Queues /\ Last(vqs) = vqs[Len(vqs)]
        /\ Front(vqs) \in Seq(Queues)
        /\ Len(Front(vqs)) = Len(vqs) - 1
        /\ \A i \in 1..Len(Front(vqs)) : Front(vqs)[i] = vqs[i]
    BY <1>2, <2>1, FrontProperties
  <2>4. Len(vqs) \in 1..Len(vqs)
    BY <1>2, <2>3
  <2>5. \A i \in 1..Len(vqs) : vqs[i].pi # <<>>
    BY <1>2 DEF IInv, QueuesSane
  <2>6. q \in Queues /\ q.id = Last(vqs).id /\ (~IsExhausted(q) => q.pi # <<>>)
    BY <2>3, <2>4, <2>5, AdvanceKeeps
  <2> HIDE DEF q
  <2>7. Eq(q.id, awp.a.id)
    BY <2>2, <2>6 DEF Eq
  <2>8. CASE IsExhausted(q) /\ vqs' = Front(vqs) /\ pc' = "backtrack" /\ retry' = FALSE
    <3>1. TypeOK'
      BY <1>1, <2>3, <2>8 DEF IInv, TypeOK, Running
    <3>2. QueuesSane'
      <4>1. DOMAIN Front(vqs) = 1..Len(Front(vqs))
        BY <2>3, LenProperties
      <4>2. \A i \in 1..Len(Front(vqs)) : Front(vqs)[i].pi # <<>>
        BY <1>2, <2>3, <2>5
      <4> QED
        BY <2>8, <4>1, <4>2 DEF QueuesSane
    <3>3. NoCanary' /\ SearchSane'
      BY <2>8 DEF NoCanary, SearchSane
    <3>4. Owed' = 0
      BY <2>8 DEF Owed
    <3>5. Aligned(sel, Front(vqs), 0)
      BY <1>2, <2>1, <2>2, AlignedDrop
    <3>6. StacksAligned'
      BY <1>1, <2>8, <3>4, <3>5 DEF StacksAligned, Aligned
    <3> QED
      BY <1>1, <2>8, <3>1, <3>2, <3>3, <3>6, Frame DEF IInv
  <2>9. CASE /\ ~IsExhausted(q) /\ vqs' = [vqs EXCEPT ![Len(vqs)] = q]
             /\ pc' = "findValidVersion" /\ retry' = retry
    <3> DEFINE rs == [vqs EXCEPT ![Len(vqs)] = q]
    <3>1. /\ rs \in Seq(Queues) /\ Len(rs) = Len(vqs)
          /\ \A i \in 1..Len(vqs) : rs[i] = IF i = Len(vqs) THEN q ELSE vqs[i]
      BY <1>2, <2>4, <2>6, ExceptSeq
    <3>2. DOMAIN rs = 1..Len(vqs)
      BY <3>1, LenProperties
    <3> HIDE DEF rs
    <3>3. vqs' = rs
      BY <2>9 DEF rs
    <3>4. \A i \in 1..Len(vqs) : rs[i].id = vqs[i].id /\ rs[i].pi # <<>>
      BY <2>3, <2>5, <2>6, <2>9, <3>1
    <3>5. TypeOK'
      BY <1>1, <2>9, <3>1, <3>3 DEF IInv, TypeOK, Running
    <3>6. QueuesSane' /\ NoCanary'
      BY <2>9, <3>2, <3>3, <3>4 DEF QueuesSane, NoCanary
    <3>7. Last(vqs') = q
      BY <2>4, <3>1, <3>3 DEF Last
    <3>8. rs # <<>>
      BY <1>2, <2>1, <3>1, NonemptyByLen
    <3>9. SearchedQueue' = q
      BY <1>5, <2>9, <3>7 DEF SearchedQueue
    <3>10. ~IsSelected(sel, awp.a.id.pr)
      BY <1>1, <1>5 DEF IInv, SearchSane
    <3>11. SearchSane'
      BY <1>1, <1>5, <2>2, <2>6, <2>9, <3>3, <3>8, <3>9, <3>10 DEF SearchSane, IsSelected
    <3>12. Owed' = -1
      BY <1>5, <2>9 DEF Owed
    <3>13. Aligned(sel, rs, -1)
      BY <1>2, <2>2, <3>1, <3>4, AlignedSameIds
    <3>14. StacksAligned'
      BY <1>1, <2>2, <2>6, <3>3, <3>7, <3>12, <3>13 DEF StacksAligned, Aligned
    <3> QED
      BY <1>1, <2>9, <3>5, <3>6, <3>11, <3>14, Frame DEF IInv
  <2> QED
    <3>1. \/ /\ IsExhausted(q) /\ vqs' = Front(vqs) /\ retry' = FALSE
             /\ pc' = Unless(Eq(q.id, awp.a.id), "backtrack", "panic: misaligned")
          \/ /\ ~IsExhausted(q) /\ vqs' = [vqs EXCEPT ![Len(vqs)] = q] /\ retry' = retry
             /\ pc' = Unless(Eq(q.id, awp.a.id), FindValidVersion(q), "panic: misaligned")
      BY <1>5 DEF Unselected, q
    <3> QED
      BY <2>6, <2>7, <2>8, <2>9, <3>1 DEF Unless, FindValidVersion
<1> QED
  BY <1>2, <1>3, <1>4, <1>5 DEF Unselected

-----------------------------------------------------------------------------
(* createVersionQueue() *)

(* newVersionQueue() returns a queue for id that is not empty. *)
LEMMA QueueFacts ==
  ASSUME w \in Worlds, NEW id \in DepIdents, w.vers[id.pr] # <<>>,
         NEW lockv \in Versions \cup {None}, NEW prefv \in Versions \cup {None}
  PROVE  /\ Queue(id, lockv, prefv) \in Queues
         /\ Queue(id, lockv, prefv).id = id
         /\ Queue(id, lockv, prefv).pi # <<>>
<1> DEFINE h1 == IF lockv = None THEN <<>> ELSE <<lockv>>
           h2 == IF prefv = None THEN <<>> ELSE <<prefv>>
           hints == h1 \o h2
           pi == IF hints = <<>> THEN w.vers[id.pr] ELSE hints
<1>1. h1 \in Seq(Versions)
  OBVIOUS
<1>2. h2 \in Seq(Versions)
  OBVIOUS
<1> HIDE DEF h1, h2
<1>3. hints \in Seq(Versions)
  BY <1>1, <1>2, ConcatProperties
<1>4. w.vers[id.pr] \in Seq(Versions)
  BY WorldFacts DEF WorldType, DepIdents
<1> HIDE DEF hints
<1>5. pi \in Seq(Versions) /\ pi # <<>>
  BY <1>3, <1>4
<1>6. Queue(id, lockv, prefv) =
        [id |-> id, lockv |-> lockv, prefv |-> prefv, failed |-> FALSE,
         allLoaded |-> hints = <<>>, pi |-> pi]
  BY DEF Queue, hints, h1, h2
<1> HIDE DEF pi
<1>7. (hints = <<>>) \in BOOLEAN
  OBVIOUS
<1> QED
  BY <1>5, <1>6, <1>7 DEF Queues

(* Putting a revision in front keeps the queue's identity. *)
LEMMA WithRevisionFacts ==
  ASSUME NEW q \in Queues, q.pi # <<>>
  PROVE  /\ WithRevision(q) \in Queues
         /\ WithRevision(q).id = q.id
         /\ WithRevision(q).pi # <<>>
<1> DEFINE c == GetConstraint(q.id.pr)
           r == CHOOSE x \in Revisions : c = {x}
<1>1. CASE \E x \in Revisions : c = {x} /\ Head(q.pi) # x
  <2>1. r \in Versions
    BY <1>1, SolverAssumption
  <2>2. WithRevision(q) = [q EXCEPT !.pi = <<r>> \o q.pi]
    BY <1>1 DEF WithRevision
  <2> HIDE DEF r
  <2>3. <<r>> \in Seq(Versions) /\ q.pi \in Seq(Versions)
    BY <2>1 DEF Queues
  <2>4. <<r>> \o q.pi \in Seq(Versions) /\ <<r>> \o q.pi # <<>>
    BY <2>3, ConcatProperties, ConcatEqualIffEmpty
  <2> QED
    BY <2>2, <2>4 DEF Queues
<1>2. CASE ~ \E x \in Revisions : c = {x} /\ Head(q.pi) # x
  BY <1>2 DEF WithRevision
<1> QED
  BY <1>1, <1>2

(* The version preferred by dependers' locks is a version, or none. *)
LEMMA PreferredType ==
  ASSUME w \in Worlds, TypeOK, DepsSane, NEW bmi \in Bmis
  PROVE  Preferred(bmi) \in Versions \cup {None}
<1> DEFINE ds == deps[bmi.id.pr]
           opinion == [i \in DOMAIN ds |->
                         IF ds[i].depender.id.pr = Root THEN None
                         ELSE w.lock[ds[i].depender.id.pr][ds[i].depender.v][bmi.id.pr]]
           having == {i \in DOMAIN ds : opinion[i] # None}
<1>1. bmi.id.pr \in ProjectRoots
  BY DEF Bmis, DepIdents, ProjectRoots
<1>2. ds \in Seq(Dependencies) /\ DOMAIN ds = 1..Len(ds) /\ Len(ds) \in Nat
  BY <1>1, LenProperties DEF TypeOK
<1>3. \A i \in DOMAIN ds : ds[i].depender \in DepAtoms \cup {RootAtom}
  BY <1>1 DEF DepsSane
<1>4. \A i \in DOMAIN ds :
        \/ ds[i].depender.id.pr = Root
        \/ (ds[i].depender.id.pr \in Projects /\ ds[i].depender.v \in Versions)
  BY <1>3 DEF DepAtoms, DepIdents, RootAtom
<1>5. \A i \in DOMAIN ds : opinion[i] \in Versions \cup {None}
  <2>1. \A p \in Projects, v \in Versions : w.lock[p][v][bmi.id.pr] \in Versions \cup {None}
    BY <1>1, WorldFacts DEF WorldType
  <2> HIDE DEF ds
  <2> QED
    BY <1>4, <2>1
<1>6. Preferred(bmi) = IF ~bmi.fromRoot THEN bmi.prefv
                       ELSE IF having = {} THEN None
                       ELSE opinion[CHOOSE i \in having : \A j \in having : j <= i]
  BY DEF Preferred
<1>7. having \subseteq 1..Len(ds)
  BY <1>2
<1> HIDE DEF having, opinion, ds
<1>8. ASSUME having # {}
      PROVE  (CHOOSE i \in having : \A j \in having : j <= i) \in having
  BY <1>2, <1>7, <1>8, MaxExists
<1> QED
  BY <1>2, <1>5, <1>6, <1>7, <1>8 DEF Bmis

(* Starting the search for a project's version keeps IInv. *)
LEMMA CreateVersionQueueKeeps ==
  ASSUME w \in Worlds, IInv, CreateVersionQueue
  PROVE  IInv'
<1> DEFINE bmi == unsel[1]
<1>1. /\ pc = "solve" /\ unsel # <<>> /\ ~IsSelected(sel, bmi.id.pr)
      /\ UNCHANGED <<w, sel, deps, foldRoots, unsel, vqs, todo, retry>>
  BY DEF CreateVersionQueue
<1>2. bmi \in OwnedBmis
  <2>1. unsel \in Seq(OwnedBmis)
    BY DEF IInv, PackagesOwned
  <2>2. Len(unsel) \in Nat /\ Len(unsel) > 0
    BY <1>1, <2>1, FrontProperties
  <2>3. 1 \in 1..Len(unsel)
    BY <2>2
  <2> QED
    BY <2>1, <2>3, ElementOfSeq
<1>3. bmi \in Bmis /\ Owned(bmi.id.pr, bmi.pl)
  BY <1>2 DEF OwnedBmis
<1>4. bmi.id \in DepIdents /\ bmi.pl \in SUBSET Packages
  BY <1>3 DEF Bmis
<1>5. ~retry /\ Owed = 0
  BY <1>1 DEF IInv, SearchSane, Owed
<1>6. CASE w.vers[bmi.id.pr] = <<>> /\ pc' = "backtrack" /\ UNCHANGED <<newq, awp>>
  <2>1. TypeOK'
    BY <1>1, <1>6 DEF IInv, TypeOK, Running
  <2>2. QueuesSane' /\ NoCanary' /\ SearchSane'
    BY <1>1, <1>5, <1>6 DEF IInv, QueuesSane, NoCanary, SearchSane
  <2>3. StacksAligned'
    BY <1>1, <1>6 DEF IInv, StacksAligned, Owed
  <2> QED
    BY <1>1, <1>6, <2>1, <2>2, <2>3, Frame DEF IInv
<1>7. CASE /\ w.vers[bmi.id.pr] # <<>>
           /\ newq' = WithRevision(Queue(bmi.id, LockVersion(bmi.id), Preferred(bmi)))
           /\ awp' = [a |-> [id |-> bmi.id, v |-> RootVersion], pl |-> bmi.pl, first |-> TRUE]
           /\ pc' = FindValidVersion(newq')
  <2>1. LockVersion(bmi.id) \in Versions \cup {None}
    BY <1>4, WorldFacts DEF LockVersion, WorldType, DepIdents
  <2>2. Preferred(bmi) \in Versions \cup {None}
    BY <1>3, PreferredType DEF IInv
  <2> DEFINE q == Queue(bmi.id, LockVersion(bmi.id), Preferred(bmi))
  <2>3. q \in Queues /\ q.id = bmi.id /\ q.pi # <<>>
    BY <1>4, <1>7, <2>1, <2>2, QueueFacts
  <2>4. newq' \in Queues /\ newq'.id = bmi.id /\ newq'.pi # <<>>
    BY <1>7, <2>3, WithRevisionFacts
  <2>5. pc' = "findValidVersion"
    BY <1>7, <2>4 DEF FindValidVersion, Unless
  <2>6. awp' \in Selecteds /\ awp'.a.id = bmi.id /\ awp'.pl = bmi.pl /\ awp'.first
    BY <1>4, <1>7 DEF Selecteds, Atoms, AtomVersions, Idents, DepIdents, ProjectRoots
  <2> HIDE DEF bmi
  <2>7. TypeOK'
    BY <1>1, <2>4, <2>5, <2>6 DEF IInv, TypeOK, Running
  <2>8. SelectionSane'
    BY <1>1, <2>5 DEF IInv, SelectionSane, ImportsOk
  <2>9. FirstIsFirst' /\ OneVersion' /\ DepsSane' /\ SelectedAllowed'
    BY <1>1 DEF IInv, FirstIsFirst, OneVersion, DepsSane, SelectedAllowed
  <2>10. TodoSane'
    BY <1>1, <2>5 DEF IInv, TodoSane
  <2>11. PackagesOwned'
    BY <1>1, <1>3, <2>6 DEF IInv, PackagesOwned
  <2>12. QueuesSane' /\ NoCanary'
    BY <1>1, <2>5 DEF IInv, QueuesSane, NoCanary
  <2>13. SearchedQueue' = newq'
    BY <1>1, <1>5 DEF SearchedQueue
  <2>14. SearchSane'
    BY <1>1, <1>5, <2>4, <2>5, <2>6, <2>13 DEF SearchSane, IsSelected, bmi
  <2>15. StacksAligned'
    BY <1>1, <1>5, <2>5 DEF IInv, StacksAligned, Owed
  <2> QED
    BY <2>7, <2>8, <2>9, <2>10, <2>11, <2>12, <2>14, <2>15 DEF IInv
<1> QED
  BY <1>6, <1>7 DEF CreateVersionQueue

-----------------------------------------------------------------------------
(* Pushing and popping dependencies *)

(* pushDep() adds d to the dependers on its project and nothing else. *)
LEMMA PushDepFacts ==
  ASSUME TypeOK, DepsSane, NEW d \in Dependencies, d.depender \in DepAtoms \cup {RootAtom},
         PushDep(d)
  PROVE  /\ deps' \in [ProjectRoots -> Seq(Dependencies)]
         /\ foldRoots' \in [ProjectRoots -> ProjectRoots \cup {None}]
         /\ DepsSane'
         /\ \A pr \in ProjectRoots : \A k \in DOMAIN deps'[pr] :
              \/ (pr = d.dep.id.pr /\ deps'[pr][k] = d)
              \/ (k \in DOMAIN deps[pr] /\ deps'[pr][k] = deps[pr][k])
<1> DEFINE p == d.dep.id.pr
           ds == Append(deps[p], d)
<1>1. p \in ProjectRoots
  BY DEF Dependencies, CompleteDeps, Idents
<1>2. deps[p] \in Seq(Dependencies) /\ deps \in [ProjectRoots -> Seq(Dependencies)]
  BY <1>1 DEF TypeOK
<1>3. /\ ds \in Seq(Dependencies) /\ DOMAIN ds = 1..(Len(deps[p]) + 1)
      /\ Len(deps[p]) \in Nat /\ DOMAIN deps[p] = 1..Len(deps[p])
      /\ \A i \in 1..Len(deps[p]) : ds[i] = deps[p][i]
      /\ ds[Len(deps[p]) + 1] = d
  BY <1>2, AppendProperties, LenProperties
<1>4. deps' = [deps EXCEPT ![p] = ds]
  BY DEF PushDep
<1> HIDE DEF ds
<1>5. deps' \in [ProjectRoots -> Seq(Dependencies)]
  BY <1>2, <1>3, <1>4
<1>6. \A k \in DOMAIN ds : ds[k] = d \/ (k \in DOMAIN deps[p] /\ ds[k] = deps[p][k])
  <2> SUFFICES ASSUME NEW k \in DOMAIN ds
               PROVE  ds[k] = d \/ (k \in DOMAIN deps[p] /\ ds[k] = deps[p][k])
    OBVIOUS
  <2>1. k = Len(deps[p]) + 1 \/ k \in 1..Len(deps[p])
    BY <1>3
  <2> QED
    BY <1>3, <2>1
<1>7. \A pr \in ProjectRoots : deps'[pr] = IF pr = p THEN ds ELSE deps[pr]
  BY <1>2, <1>4
<1>8. \A pr \in ProjectRoots : \A k \in DOMAIN deps'[pr] :
        \/ (pr = p /\ deps'[pr][k] = d)
        \/ (k \in DOMAIN deps[pr] /\ deps'[pr][k] = deps[pr][k])
  BY <1>6, <1>7
<1>9. DepsSane'
  BY <1>8 DEF DepsSane
<1>10. CaseFold[p] \in ProjectRoots /\ foldRoots \in [ProjectRoots -> ProjectRoots \cup {None}]
  BY <1>1, SolverAssumption DEF TypeOK
<1>11. foldRoots' = foldRoots \/ foldRoots' = [foldRoots EXCEPT ![CaseFold[p]] = p]
  BY DEF PushDep
<1> HIDE DEF p
<1>12. foldRoots' \in [ProjectRoots -> ProjectRoots \cup {None}]
  BY <1>1, <1>10, <1>11
<1> QED
  BY <1>5, <1>8, <1>9, <1>12 DEF p

(* popDep() leaves a prefix of the dependers. *)
LEMMA PopDepFacts ==
  ASSUME TypeOK, DepsSane, NEW p \in ProjectRoots, PopDep(p)
  PROVE  /\ deps' \in [ProjectRoots -> Seq(Dependencies)]
         /\ foldRoots' \in [ProjectRoots -> ProjectRoots \cup {None}]
         /\ DepsSane'
         /\ \A pr \in ProjectRoots : \A k \in DOMAIN deps'[pr] :
              k \in DOMAIN deps[pr] /\ deps'[pr][k] = deps[pr][k]
<1> DEFINE ds == Front(deps[p])
<1>1. deps[p] \in Seq(Dependencies) /\ deps \in [ProjectRoots -> Seq(Dependencies)]
  BY DEF TypeOK
<1>2. /\ ds \in Seq(Dependencies) /\ Len(ds) <= Len(deps[p])
      /\ \A i \in 1..Len(ds) : ds[i] = deps[p][i]
  BY <1>1, FrontProperties
<1>3. /\ DOMAIN ds = 1..Len(ds) /\ Len(ds) \in Nat
      /\ DOMAIN deps[p] = 1..Len(deps[p]) /\ Len(deps[p]) \in Nat
  BY <1>1, <1>2, LenProperties
<1>4. deps' = [deps EXCEPT ![p] = ds]
  BY DEF PopDep
<1> HIDE DEF ds
<1>5. deps' \in [ProjectRoots -> Seq(Dependencies)]
  BY <1>1, <1>2, <1>4
<1>6. \A k \in DOMAIN ds : k \in DOMAIN deps[p] /\ ds[k] = deps[p][k]
  BY <1>2, <1>3
<1>7. \A pr \in ProjectRoots : deps'[pr] = IF pr = p THEN ds ELSE deps[pr]
  BY <1>1, <1>4
<1>8. \A pr \in ProjectRoots : \A k \in DOMAIN deps'[pr] :
        k \in DOMAIN deps[pr] /\ deps'[pr][k] = deps[pr][k]
  BY <1>6, <1>7
<1>9. DepsSane'
  BY <1>8 DEF DepsSane
<1>10. CaseFold[p] \in ProjectRoots /\ foldRoots \in [ProjectRoots -> ProjectRoots \cup {None}]
  BY SolverAssumption DEF TypeOK
<1>11. foldRoots' = foldRoots \/ foldRoots' = [foldRoots EXCEPT ![CaseFold[p]] = None]
  BY DEF PopDep
<1>12. foldRoots' \in [ProjectRoots -> ProjectRoots \cup {None}]
  BY <1>10, <1>11
<1> QED
  BY <1>5, <1>8, <1>9, <1>12

(* A queue of bmis that own their packages is a queue of bmis. *)
LEMMA OwnedBmisType ==
  ASSUME NEW s \in Seq(OwnedBmis)
  PROVE  s \in Seq(Bmis)
BY SeqMonotonic DEF OwnedBmis

(* The root's atom and selection are of their types. *)
LEMMA RootAtomType == RootAtom \in Atoms /\ RootSelected \in Selecteds
BY SolverAssumption
   DEF RootAtom, RootSelected, Atoms, Selecteds, Idents, ProjectRoots, AtomVersions

(* What a dependency's atom is made of; it is not the root's. *)
LEMMA DepAtomType ==
  ASSUME NEW a \in DepAtoms
  PROVE  a \in Atoms /\ a.v \in Versions /\ a.id \in DepIdents /\ a.id.pr \in Projects
         /\ a.id.pr # Root
BY SolverAssumption DEF DepAtoms, DepIdents, Atoms, Idents, ProjectRoots, AtomVersions

(* Pushing a dependency of the root keeps IInv. *)
LEMMA SelectRootKeeps ==
  ASSUME w \in Worlds, IInv, SelectRoot
  PROVE  IInv'
<1>1. PICK d \in todo :
        /\ pc = "selectRoot"
        /\ PushDep([depender |-> RootAtom, dep |-> d])
        /\ HeapPush(sel, [id |-> d.id, pl |-> d.pl, prefv |-> None, fromRoot |-> TRUE])
        /\ todo' = todo \ {d}
        /\ UNCHANGED <<w, pc, sel, vqs, newq, awp, retry>>
  BY DEF SelectRoot
<1>2. d \in CompleteDeps /\ d.id.pr \in Projects /\ Owned(d.id.pr, d.pl)
  BY DEF IInv, TypeOK, TodoSane, PackagesOwned
<1>3. d.id \in DepIdents /\ d.pl \in SUBSET Packages
  BY <1>2 DEF CompleteDeps, Idents, DepIdents
<1> DEFINE x == [depender |-> RootAtom, dep |-> d]
           bmi == [id |-> d.id, pl |-> d.pl, prefv |-> None, fromRoot |-> TRUE]
<1>4. x \in Dependencies /\ x.depender = RootAtom
  BY <1>2, RootAtomType DEF Dependencies
<1>5. /\ deps' \in [ProjectRoots -> Seq(Dependencies)]
      /\ foldRoots' \in [ProjectRoots -> ProjectRoots \cup {None}]
      /\ DepsSane'
  <2> HIDE DEF x
  <2>1. PushDep(x)
    BY <1>1 DEF x
  <2> QED
    BY <1>4, <2>1, PushDepFacts DEF IInv
<1>6. bmi \in OwnedBmis
  BY <1>2, <1>3 DEF OwnedBmis, Bmis
<1>7. unsel' \in Seq(OwnedBmis)
  <2> HIDE DEF bmi
  <2>1. HeapPush(sel, bmi)
    BY <1>1 DEF bmi
  <2> QED
    BY <1>6, <2>1, HeapPushType DEF IInv, PackagesOwned
<1>8. TypeOK'
  BY <1>1, <1>5, <1>7, OwnedBmisType DEF IInv, TypeOK
<1>9. SelectionSane' /\ Len(sel) = 1
  BY <1>1 DEF IInv, SelectionSane, ImportsOk
<1>10. FirstIsFirst' /\ OneVersion' /\ QueuesSane' /\ NoCanary'
  BY <1>1 DEF IInv, FirstIsFirst, OneVersion, QueuesSane, NoCanary
<1>11. TodoSane' /\ PackagesOwned'
  BY <1>1, <1>7 DEF IInv, TodoSane, PackagesOwned
<1>12. SearchSane'
  BY <1>1 DEF IInv, SearchSane
<1>13. StacksAligned'
  BY <1>1 DEF IInv, StacksAligned, Owed
<1>14. SelectedAllowed'
  BY <1>1, <1>9 DEF SelectedAllowed
<1> QED
  BY <1>5, <1>8, <1>9, <1>10, <1>11, <1>12, <1>13, <1>14 DEF IInv

(* Pushing a dependency of a selected atom keeps IInv. *)
LEMMA SelectAtomDepKeeps ==
  ASSUME w \in Worlds, IInv, SelectAtomDep
  PROVE  IInv'
<1>1. PICK d \in todo :
        LET id == IF HasIdent(d.id.pr) THEN GetIdentFor(d.id.pr) ELSE d.id IN
        /\ pc = "selectAtom"
        /\ PushDep([depender |-> awp.a, dep |-> d])
        /\ IF NewlyRequired(d) = {} THEN UNCHANGED unsel
           ELSE HeapPush(sel, [id |-> id, pl |-> NewlyRequired(d),
                               prefv |-> w.lock[awp.a.id.pr][awp.a.v][d.id.pr],
                               fromRoot |-> FALSE])
        /\ todo' = todo \ {d}
        /\ UNCHANGED <<w, pc, sel, vqs, newq, awp, retry>>
  BY DEF SelectAtomDep
<1>2. d \in CompleteDeps /\ d.id.pr \in Projects /\ Owned(d.id.pr, d.pl)
  BY DEF IInv, TypeOK, TodoSane, PackagesOwned
<1>3. d.id \in DepIdents /\ d.pl \in SUBSET Packages /\ d.id.pr \in ProjectRoots
  BY <1>2 DEF CompleteDeps, Idents, DepIdents, ProjectRoots
<1>4. awp.a \in DepAtoms
  BY <1>1 DEF IInv, TodoSane
<1> DEFINE x == [depender |-> awp.a, dep |-> d]
<1>5. x \in Dependencies /\ x.depender = awp.a /\ x.dep = d
  BY <1>2, <1>4, DepAtomType DEF Dependencies
<1>6. /\ deps' \in [ProjectRoots -> Seq(Dependencies)]
      /\ foldRoots' \in [ProjectRoots -> ProjectRoots \cup {None}]
      /\ DepsSane'
      /\ \A pr \in ProjectRoots : \A k \in DOMAIN deps'[pr] :
           \/ (pr = d.id.pr /\ deps'[pr][k] = x)
           \/ (k \in DOMAIN deps[pr] /\ deps'[pr][k] = deps[pr][k])
  <2> HIDE DEF x
  <2>1. PushDep(x)
    BY <1>1 DEF x
  <2> QED
    BY <1>4, <1>5, <2>1, PushDepFacts DEF IInv
<1> HIDE DEF x
<1>7. unsel' \in Seq(OwnedBmis)
  <2> DEFINE id == IF HasIdent(d.id.pr) THEN GetIdentFor(d.id.pr) ELSE d.id
             prefv == w.lock[awp.a.id.pr][awp.a.v][d.id.pr]
             bmi == [id |-> id, pl |-> NewlyRequired(d), prefv |-> prefv, fromRoot |-> FALSE]
  <2>1. ASSUME HasIdent(d.id.pr)
        PROVE  GetIdentFor(d.id.pr) \in DepIdents /\ GetIdentFor(d.id.pr).pr = d.id.pr
    <3> DEFINE ds == deps[d.id.pr]
    <3>1. ds \in Seq(Dependencies) /\ ds # <<>>
      BY <1>3, <2>1 DEF IInv, TypeOK, HasIdent
    <3>2. DOMAIN ds = 1..Len(ds) /\ Len(ds) \in Nat /\ Len(ds) > 0
      BY <3>1, LenProperties, FrontProperties
    <3>3. 1 \in DOMAIN ds
      BY <3>2
    <3>4. ds[1] \in Dependencies
      BY <3>1, <3>2, <3>3, ElementOfSeq
    <3>5. ds[1].dep.id.pr = d.id.pr
      BY <1>3, <3>3 DEF IInv, DepsSane
    <3> QED
      BY <1>2, <3>4, <3>5 DEF GetIdentFor, Dependencies, CompleteDeps, Idents, DepIdents
  <2>2. id \in DepIdents /\ id.pr = d.id.pr
    BY <1>3, <2>1
  <2>3. prefv \in Versions \cup {None}
    BY <1>3, <1>4, DepAtomType, WorldFacts DEF WorldType
  <2>4. NewlyRequired(d) \in SUBSET Packages /\ Owned(d.id.pr, NewlyRequired(d))
    BY <1>2, <1>3 DEF NewlyRequired, Owned
  <2> HIDE DEF id, prefv
  <2>5. bmi \in OwnedBmis
    BY <2>2, <2>3, <2>4 DEF OwnedBmis, Bmis
  <2>6. unsel' = unsel \/ HeapPush(sel, bmi)
    BY <1>1 DEF id, prefv
  <2> HIDE DEF bmi
  <2> QED
    BY <2>5, <2>6, HeapPushType DEF IInv, PackagesOwned
<1>8. UNCHANGED <<w, pc, sel, vqs, newq, awp, retry>> /\ todo' = todo \ {d} /\ pc = "selectAtom"
  BY <1>1
<1>9. TypeOK'
  BY <1>6, <1>7, <1>8, OwnedBmisType DEF IInv, TypeOK
<1>10. SelectionSane' /\ FirstIsFirst' /\ OneVersion' /\ QueuesSane' /\ NoCanary'
  BY <1>8 DEF IInv, SelectionSane, ImportsOk, FirstIsFirst, OneVersion, QueuesSane, NoCanary
<1>11. TodoSane' /\ PackagesOwned'
  BY <1>7, <1>8 DEF IInv, TodoSane, PackagesOwned
<1>12. SearchSane'
  BY <1>8 DEF IInv, SearchSane
<1>13. StacksAligned'
  BY <1>8 DEF IInv, StacksAligned, Owed
<1>14. SelectedAllowed'
  <2> SUFFICES ASSUME NEW i \in 2..Len(sel), NEW k \in DOMAIN deps'[sel[i].a.id.pr]
               PROVE  sel[i].a.v \in deps'[sel[i].a.id.pr][k].dep.c
    BY <1>8 DEF SelectedAllowed
  <2> DEFINE pr == sel[i].a.id.pr
  <2>1. pr \in ProjectRoots
    BY DepAtomType DEF IInv, SelectionSane, ProjectRoots
  <2>2. CASE pr = d.id.pr /\ deps'[pr][k] = x
    BY <1>5, <1>8, <2>2 DEF IInv, TodoSane
  <2>3. CASE k \in DOMAIN deps[pr] /\ deps'[pr][k] = deps[pr][k]
    BY <2>3 DEF IInv, SelectedAllowed
  <2> QED
    BY <1>6, <2>1, <2>2, <2>3
<1> QED
  BY <1>6, <1>9, <1>10, <1>11, <1>12, <1>13, <1>14 DEF IInv

(* Popping a dependency of an unselected atom keeps IInv. *)
LEMMA UnselectDepKeeps ==
  ASSUME w \in Worlds, IInv, UnselectDep
  PROVE  IInv'
<1>1. PICK d \in todo :
        /\ pc = "popDeps"
        /\ PopDep(d.id.pr)
        /\ unsel' = unsel \/ RemoveBmi(d.id, d.pl)
        /\ todo' = todo \ {d}
        /\ UNCHANGED <<w, pc, sel, vqs, newq, awp, retry>>
  BY DEF UnselectDep
<1>2. d.id.pr \in ProjectRoots
  BY DEF IInv, TodoSane, ProjectRoots
<1>3. /\ deps' \in [ProjectRoots -> Seq(Dependencies)]
      /\ foldRoots' \in [ProjectRoots -> ProjectRoots \cup {None}]
      /\ DepsSane'
      /\ \A pr \in ProjectRoots : \A k \in DOMAIN deps'[pr] :
           k \in DOMAIN deps[pr] /\ deps'[pr][k] = deps[pr][k]
  BY <1>1, <1>2, PopDepFacts DEF IInv
<1>4. unsel' \in Seq(OwnedBmis)
  BY <1>1, RemoveBmiType DEF IInv, PackagesOwned
<1>5. TypeOK'
  BY <1>1, <1>3, <1>4, OwnedBmisType DEF IInv, TypeOK
<1>6. SelectionSane' /\ FirstIsFirst' /\ OneVersion' /\ QueuesSane' /\ NoCanary'
  BY <1>1 DEF IInv, SelectionSane, ImportsOk, FirstIsFirst, OneVersion, QueuesSane, NoCanary
<1>7. TodoSane' /\ PackagesOwned'
  BY <1>1, <1>4 DEF IInv, TodoSane, PackagesOwned
<1>8. SearchSane'
  BY <1>1 DEF IInv, SearchSane, IsSelected
<1>9. StacksAligned'
  BY <1>1 DEF IInv, StacksAligned, Owed
<1>10. SelectedAllowed'
  <2>1. \A i \in 2..Len(sel) : sel[i].a.id.pr \in ProjectRoots
    BY DepAtomType DEF IInv, SelectionSane, ProjectRoots
  <2> SUFFICES ASSUME NEW i \in 2..Len(sel), NEW k \in DOMAIN deps'[sel[i].a.id.pr]
               PROVE  sel[i].a.v \in deps'[sel[i].a.id.pr][k].dep.c
    BY <1>1 DEF SelectedAllowed
  <2> DEFINE pr == sel[i].a.id.pr
  <2>2. k \in DOMAIN deps[pr] /\ deps'[pr][k] = deps[pr][k]
    BY <1>3, <2>1
  <2> QED
    BY <2>2 DEF IInv, SelectedAllowed
<1> QED
  BY <1>3, <1>5, <1>6, <1>7, <1>8, <1>9, <1>10 DEF IInv

(* The root is never popped. *)
LEMMA RootNotPopped ==
  ASSUME IInv, pc = "unselectLast"
  PROVE  /\ Aligned(sel, vqs, Owed) /\ Owed = IF retry THEN 0 ELSE 1
         /\ Len(vqs) + Owed > 0 /\ Owed \in Int
         /\ Len(sel) \in Nat /\ Len(sel) > 1
<1>1. pc = "unselectLast"
  OBVIOUS
<1>2. sel \in Seq(Selecteds) /\ vqs \in Seq(Queues) /\ Len(vqs) \in Nat /\ retry \in BOOLEAN
  BY LenProperties DEF IInv, TypeOK
<1>3. Aligned(sel, vqs, Owed) /\ Owed = IF retry THEN 0 ELSE 1
  BY <1>1, <1>2, StacksAlignedAs DEF IInv, Owed
<1>4. Len(vqs) + Owed > 0 /\ Owed \in Int
  <2>1. CASE retry
    <3>1. vqs # <<>>
      BY <2>1 DEF IInv, SearchSane
    <3>2. Len(vqs) > 0
      BY <1>2, <3>1, FrontProperties
    <3> QED
      BY <1>2, <1>3, <2>1, <3>2
  <2>2. CASE ~retry
    BY <1>2, <1>3, <2>2
  <2> QED
    BY <2>1, <2>2
<1> QED
  BY <1>2, <1>3, <1>4, AlignedNonempty, LenProperties

(* Popping the selection keeps IInv. *)
LEMMA UnselectLastKeeps ==
  ASSUME w \in Worlds, IInv, UnselectLast
  PROVE  IInv'
<1> DEFINE top == Last(sel)
           rest == Front(sel)
           n == Len(sel)
<1>1. /\ pc = "unselectLast" /\ awp' = top /\ sel' = rest
      /\ HeapPush(rest, [id |-> top.a.id, pl |-> top.pl, prefv |-> None, fromRoot |-> FALSE])
      /\ todo' = {d \in DepsOf(top.a, top.pl) : d.id.pr # Root}
      /\ pc' = Unless(ImportsOk(top.a, top.pl), "popDeps", "panic: imports")
      /\ UNCHANGED <<w, deps, foldRoots, vqs, newq, retry>>
  BY DEF UnselectLast
<1>2. sel \in Seq(Selecteds) /\ vqs \in Seq(Queues) /\ Len(vqs) \in Nat /\ retry \in BOOLEAN
  BY LenProperties DEF IInv, TypeOK
<1>3. Aligned(sel, vqs, Owed) /\ Owed = IF retry THEN 0 ELSE 1
  BY <1>1, RootNotPopped
<1>4. Len(vqs) + Owed > 0 /\ Owed \in Int
  BY <1>1, RootNotPopped
<1>5. n > 1 /\ n \in Nat
  BY <1>1, RootNotPopped
<1>6. sel # <<>>
  BY <1>5, EmptySeq
<1>7. /\ rest \in Seq(Selecteds) /\ Len(rest) = n - 1 /\ top = sel[n] /\ top \in Selecteds
      /\ \A i \in 1..Len(rest) : rest[i] = sel[i]
  BY <1>2, <1>6, FrontProperties
<1>8. n \in 2..n /\ n \in 1..n /\ \A i \in 1..Len(rest) : i \in 1..n /\ i \in 1..(n - 1)
  BY <1>5, <1>7
<1>9. DOMAIN sel = 1..n /\ DOMAIN rest = 1..Len(rest)
  BY <1>2, <1>7, LenProperties
<1>10. top.a \in DepAtoms /\ ImportsOk(top.a, top.pl) /\ Owned(top.a.id.pr, top.pl)
  BY <1>7, <1>8 DEF IInv, SelectionSane, PackagesOwned
<1>11. top.pl \in SUBSET Packages /\ top.first \in BOOLEAN
  BY <1>7 DEF Selecteds
<1>12. pc' = "popDeps"
  BY <1>1, <1>10 DEF Unless
<1>13. /\ DepsOf(top.a, top.pl) \subseteq CompleteDeps
       /\ \A d \in DepsOf(top.a, top.pl) : Owned(d.id.pr, d.pl)
  BY <1>10, <1>11, ImportsFacts
<1>14. /\ todo' \subseteq CompleteDeps
       /\ \A d \in todo' : Owned(d.id.pr, d.pl) /\ d.id.pr \in Projects
  BY <1>1, <1>13 DEF CompleteDeps, Idents, ProjectRoots
<1>15. unsel' \in Seq(OwnedBmis)
  <2> DEFINE bmi == [id |-> top.a.id, pl |-> top.pl, prefv |-> None, fromRoot |-> FALSE]
  <2>1. bmi \in OwnedBmis
    BY <1>10, <1>11, DepAtomType DEF OwnedBmis, Bmis
  <2>2. HeapPush(rest, bmi)
    BY <1>1
  <2> HIDE DEF bmi, rest
  <2> QED
    BY <2>1, <2>2, HeapPushType DEF IInv, PackagesOwned
<1> HIDE DEF top, rest, n
<1>16. TypeOK'
  BY <1>1, <1>7, <1>12, <1>14, <1>15, OwnedBmisType DEF IInv, TypeOK, Running
<1>17. SelectionSane'
  <2>1. 1 \in 1..Len(rest)
    BY <1>5, <1>7
  <2>2. rest[1] = RootSelected /\ Len(rest) > 0
    BY <1>5, <1>7, <2>1 DEF IInv, SelectionSane
  <2>3. \A i \in 2..Len(rest) : i \in 2..n /\ rest[i] = sel[i]
    BY <1>5, <1>7
  <2> QED
    BY <1>1, <1>12, <2>2, <2>3 DEF IInv, SelectionSane, ImportsOk, n
<1>18. FirstIsFirst'
  <2> SUFFICES ASSUME NEW i \in 2..Len(rest), NEW j \in 1..(i - 1)
               PROVE  rest[i].first => rest[j].a.id.pr # rest[i].a.id.pr
    BY <1>1 DEF FirstIsFirst
  <2>1. i \in 2..n /\ rest[i] = sel[i] /\ rest[j] = sel[j]
    BY <1>5, <1>7
  <2> QED
    BY <2>1 DEF IInv, FirstIsFirst, n
<1>19. OneVersion'
  <2> SUFFICES ASSUME NEW i \in DOMAIN rest, NEW j \in DOMAIN rest,
                      rest[i].a.id.pr = rest[j].a.id.pr
               PROVE  rest[i].a.v = rest[j].a.v
    BY <1>1 DEF OneVersion
  <2>1. i \in DOMAIN sel /\ j \in DOMAIN sel /\ rest[i] = sel[i] /\ rest[j] = sel[j]
    BY <1>7, <1>8, <1>9
  <2> QED
    BY <2>1 DEF IInv, OneVersion
<1>20. DepsSane' /\ QueuesSane' /\ NoCanary'
  BY <1>1, <1>12 DEF IInv, DepsSane, QueuesSane, NoCanary
<1>21. TodoSane'
  BY <1>12, <1>14 DEF TodoSane
<1>22. PackagesOwned'
  <2>1. \A i \in 1..Len(rest) : Owned(rest[i].a.id.pr, rest[i].pl)
    BY <1>7, <1>8 DEF IInv, PackagesOwned, n
  <2> QED
    BY <1>1, <1>10, <1>14, <1>15, <2>1 DEF PackagesOwned
<1>23. SearchSane'
  <2>1. top.first => ~IsSelected(rest, top.a.id.pr)
    <3> SUFFICES ASSUME top.first, NEW j \in DOMAIN rest
                 PROVE  rest[j].a.id.pr # top.a.id.pr
      BY DEF IsSelected
    <3>1. j \in 1..(n - 1) /\ rest[j] = sel[j]
      BY <1>7, <1>8, <1>9
    <3> QED
      BY <1>7, <1>8, <3>1 DEF IInv, FirstIsFirst, n
  <2> QED
    BY <1>1, <1>12, <2>1 DEF IInv, SearchSane, IsSelected
<1>24. StacksAligned'
  <2>1. Owed' = IF top.first THEN Owed - 1 ELSE Owed
    <3>1. CASE top.first
      <4>1. Owed' = IF retry THEN -1 ELSE 0
        BY <1>1, <1>2, <1>12, <3>1 DEF Owed
      <4> QED
        BY <1>2, <1>3, <3>1, <4>1
    <3>2. CASE ~top.first
      <4>1. Owed' = IF retry THEN 0 ELSE 1
        BY <1>1, <1>2, <1>12, <3>2 DEF Owed
      <4> QED
        BY <1>3, <3>2, <4>1
    <3> QED
      BY <3>1, <3>2
  <2>2. CASE top.first
    <3>1. Aligned(rest, vqs, Owed - 1) /\ (Owed = 0 => Last(vqs).id = top.a.id)
      BY <1>2, <1>3, <1>4, <1>5, <2>2, AlignedPopProject DEF top, rest, n
    <3>2. Owed' = Owed - 1
      BY <2>1, <2>2
    <3>3. Owed - 1 = -1 => Owed = 0
      BY <1>4
    <3> QED
      BY <1>1, <3>1, <3>2, <3>3 DEF StacksAligned, Aligned
  <2>3. CASE ~top.first
    <3>1. Aligned(rest, vqs, Owed)
      BY <1>2, <1>3, <1>4, <1>5, <2>3, AlignedPopPackages DEF top, rest, n
    <3>2. Owed' = Owed /\ Owed # -1
      BY <1>3, <2>1, <2>3
    <3> QED
      BY <1>1, <3>1, <3>2 DEF StacksAligned, Aligned
  <2> QED
    BY <2>2, <2>3
<1>25. SelectedAllowed'
  <2>1. \A i \in 2..Len(rest) : i \in 2..n /\ rest[i] = sel[i]
    BY <1>5, <1>7
  <2> QED
    BY <1>1, <2>1 DEF IInv, SelectedAllowed, n
<1> QED
  BY <1>16, <1>17, <1>18, <1>19, <1>20, <1>21, <1>22, <1>23, <1>24, <1>25 DEF IInv

-----------------------------------------------------------------------------
(* Selecting an atom *)

(* What pushing an atom that passed its checks does to the selection. *)
LEMMA SelectAtomFacts ==
  ASSUME w \in Worlds, IInv, NEW a \in DepAtoms, NEW pl \in SUBSET Packages, NEW first \in BOOLEAN,
         Owned(a.id.pr, pl), ImportsOk(a, pl),
         SelectAtom(a, pl, first), UNCHANGED <<w, deps, foldRoots>>,
         \A d \in DepsOf(a, pl) : DepsAllowsSelected(d),
         \A k \in DOMAIN deps[a.id.pr] : a.v \in deps[a.id.pr][k].dep.c,
         first => ~IsSelected(sel, a.id.pr),
         \A i \in 1..Len(sel) : sel[i].a.id.pr = a.id.pr => sel[i].a.v = a.v
  PROVE  /\ sel' \in Seq(Selecteds) /\ awp' \in Selecteds /\ todo' \subseteq CompleteDeps
         /\ unsel' \in Seq(Bmis) /\ pc' = "selectAtom"
         /\ SelectionSane' /\ FirstIsFirst' /\ OneVersion' /\ DepsSane'
         /\ TodoSane' /\ PackagesOwned' /\ SelectedAllowed'
         /\ \E e \in Selecteds : e.first = first /\ e.a = a /\ sel' = Append(sel, e)
<1> DEFINE e == [a |-> a, pl |-> WithInternal(a, pl), first |-> first]
           n == Len(sel)
           s == Append(sel, e)
<1>1. /\ RemoveBmi(a.id, pl) /\ sel' = s /\ awp' = e
      /\ todo' = {d \in DepsOf(a, pl) : d.id.pr # Root}
      /\ pc' = "selectAtom"
  BY DEF SelectAtom
<1>2. /\ WithInternal(a, pl) \in SUBSET Packages
      /\ Owned(a.id.pr, WithInternal(a, pl))
      /\ ImportsOk(a, WithInternal(a, pl))
      /\ DepsOf(a, pl) \subseteq CompleteDeps
      /\ \A d \in DepsOf(a, pl) : Owned(d.id.pr, d.pl) /\ d.id.pr # a.id.pr
  BY ImportsFacts
<1>3. e \in Selecteds /\ e.a = a /\ e.first = first /\ e.pl = WithInternal(a, pl)
  BY <1>2, DepAtomType DEF Selecteds
<1> HIDE DEF e
<1>4. sel \in Seq(Selecteds) /\ n \in Nat /\ DOMAIN sel = 1..n /\ n > 0
  BY LenProperties DEF IInv, TypeOK, SelectionSane
<1>5. /\ s \in Seq(Selecteds) /\ Len(s) = n + 1 /\ s[n + 1] = e
      /\ \A i \in 1..n : s[i] = sel[i]
  BY <1>3, <1>4, AppendProperties
<1>6. DOMAIN s = 1..(n + 1)
  BY <1>5, LenProperties
<1> HIDE DEF s, n
<1>7. \A i \in 1..(n + 1) : i = n + 1 \/ i \in 1..n
  BY <1>4
<1>8. \A i \in 2..(n + 1) : i = n + 1 \/ (i \in 2..n /\ i \in 1..n)
  BY <1>4
<1>9. unsel' \in Seq(OwnedBmis)
  BY <1>1, RemoveBmiType DEF IInv, PackagesOwned
<1>10. /\ todo' \subseteq CompleteDeps
       /\ \A d \in todo' : d.id.pr \in Projects /\ Owned(d.id.pr, d.pl)
  BY <1>1, <1>2 DEF CompleteDeps, Idents, ProjectRoots
<1>11. SelectionSane'
  <2>1. 1 \in 1..n /\ n + 1 > 0
    BY <1>4
  <2>2. s[1] = RootSelected
    BY <1>5, <2>1 DEF IInv, SelectionSane
  <2>3. ImportsOk(e.a, e.pl)
    BY <1>2, <1>3
  <2>4. \A i \in 2..(n + 1) : s[i].a \in DepAtoms /\ ImportsOk(s[i].a, s[i].pl)
    BY <1>3, <1>5, <1>8, <2>3 DEF IInv, SelectionSane, n
  <2> QED
    BY <1>1, <1>5, <2>1, <2>2, <2>4 DEF SelectionSane, ImportsOk
<1>12. FirstIsFirst'
  <2> SUFFICES ASSUME NEW i \in 2..(n + 1), NEW j \in 1..(i - 1), s[i].first
               PROVE  s[j].a.id.pr # s[i].a.id.pr
    BY <1>1, <1>5 DEF FirstIsFirst
  <2>1. j \in 1..n /\ s[j] = sel[j]
    BY <1>4, <1>5
  <2>2. CASE i = n + 1
    BY <1>3, <1>4, <1>5, <2>1, <2>2 DEF IsSelected
  <2>3. CASE i \in 2..n /\ i \in 1..n
    BY <1>5, <2>1, <2>3 DEF IInv, FirstIsFirst, n
  <2> QED
    BY <1>8, <2>2, <2>3
<1>13. OneVersion'
  <2> SUFFICES ASSUME NEW i \in 1..(n + 1), NEW j \in 1..(n + 1), s[i].a.id.pr = s[j].a.id.pr
               PROVE  s[i].a.v = s[j].a.v
    BY <1>1, <1>6 DEF OneVersion
  <2>1. CASE i \in 1..n /\ j \in 1..n
    BY <1>4, <1>5, <2>1 DEF IInv, OneVersion
  <2>2. CASE i = n + 1 /\ j \in 1..n
    BY <1>3, <1>5, <2>2 DEF n
  <2>3. CASE i \in 1..n /\ j = n + 1
    BY <1>3, <1>5, <2>3 DEF n
  <2>4. CASE i = n + 1 /\ j = n + 1
    BY <2>4
  <2> QED
    BY <1>7, <2>1, <2>2, <2>3, <2>4
<1>14. DepsSane'
  BY DEF IInv, DepsSane
<1>15. TodoSane'
  <2> SUFFICES ASSUME NEW d \in todo', NEW i \in 2..(n + 1), s[i].a.id.pr = d.id.pr
               PROVE  s[i].a.v \in d.c
    BY <1>1, <1>3, <1>5, <1>10 DEF TodoSane
  <2>1. d \in DepsOf(a, pl) /\ d.id.pr # a.id.pr
    BY <1>1, <1>2
  <2>2. i \in 1..n /\ s[i] = sel[i]
    BY <1>3, <1>5, <1>8, <2>1
  <2>3. IsSelected(sel, d.id.pr)
    BY <1>4, <2>2 DEF IsSelected
  <2>4. SelectedVersion(sel, d.id.pr) \in d.c
    BY <2>1, <2>3 DEF DepsAllowsSelected
  <2>5. PICK j \in 1..n : sel[j].a.id.pr = d.id.pr /\ SelectedVersion(sel, d.id.pr) = sel[j].a.v
    BY <1>4, <2>3, SelectedVersionOnStack DEF n
  <2>6. sel[i].a.v = sel[j].a.v
    BY <1>4, <2>2, <2>5 DEF IInv, OneVersion
  <2> QED
    BY <2>2, <2>4, <2>5, <2>6
<1>16. PackagesOwned'
  <2>1. \A i \in 1..(n + 1) : Owned(s[i].a.id.pr, s[i].pl)
    BY <1>2, <1>3, <1>5, <1>7 DEF IInv, PackagesOwned, n
  <2> QED
    BY <1>1, <1>2, <1>3, <1>5, <1>9, <1>10, <2>1 DEF PackagesOwned
<1>17. SelectedAllowed'
  <2> SUFFICES ASSUME NEW i \in 2..(n + 1), NEW k \in DOMAIN deps[s[i].a.id.pr]
               PROVE  s[i].a.v \in deps[s[i].a.id.pr][k].dep.c
    BY <1>1, <1>5 DEF SelectedAllowed
  <2>1. CASE i = n + 1
    BY <1>3, <1>5, <2>1
  <2>2. CASE i \in 2..n /\ i \in 1..n
    BY <1>5, <2>2 DEF IInv, SelectedAllowed, n
  <2> QED
    BY <1>8, <2>1, <2>2
<1> QED
  BY <1>1, <1>3, <1>5, <1>9, <1>10, <1>11, <1>12, <1>13, <1>14, <1>15, <1>16, <1>17, OwnedBmisType
     DEF s

(* Selecting the version that passed its checks keeps IInv. *)
LEMMA ValidVersionKeeps ==
  ASSUME w \in Worlds, IInv, ValidVersion
  PROVE  IInv'
<1>1. /\ pc = "findValidVersion" /\ Checks(Candidate, awp.pl, FALSE)
      /\ SelectAtom(Candidate, awp.pl, TRUE)
      /\ vqs' = IF retry THEN vqs ELSE Append(vqs, newq)
      /\ retry' = FALSE
      /\ UNCHANGED <<w, deps, foldRoots, newq>>
  BY DEF ValidVersion
<1> DEFINE a == Candidate
<1>2. /\ SearchedQueue \in Queues /\ SearchedQueue.pi # <<>> /\ SearchedQueue.id = awp.a.id
      /\ awp.first /\ awp.pl \in SUBSET Packages /\ ~IsSelected(sel, a.id.pr)
      /\ a \in DepAtoms /\ a.id = awp.a.id
  BY <1>1, SearchedQueueFacts
<1>3. Owned(a.id.pr, awp.pl)
  BY <1>2 DEF IInv, PackagesOwned
<1>4. /\ ImportsOk(a, awp.pl) /\ AtomAllowable(a)
      /\ \A d \in DepsOf(a, awp.pl) : DepsAllowsSelected(d)
  BY <1>1 DEF Checks, DepOk
<1>5. \A k \in DOMAIN deps[a.id.pr] : a.v \in deps[a.id.pr][k].dep.c
  BY <1>4 DEF AtomAllowable, GetConstraint
<1>6. sel \in Seq(Selecteds) /\ DOMAIN sel = 1..Len(sel) /\ Len(sel) > 0
      /\ vqs \in Seq(Queues)
  BY LenProperties DEF IInv, TypeOK, SelectionSane
<1>7. \A i \in 1..Len(sel) : sel[i].a.id.pr = a.id.pr => sel[i].a.v = a.v
  BY <1>2, <1>6 DEF IsSelected
<1> HIDE DEF a
<1>8. /\ sel' \in Seq(Selecteds) /\ awp' \in Selecteds /\ todo' \subseteq CompleteDeps
      /\ unsel' \in Seq(Bmis) /\ pc' = "selectAtom"
      /\ SelectionSane' /\ FirstIsFirst' /\ OneVersion' /\ DepsSane'
      /\ TodoSane' /\ PackagesOwned' /\ SelectedAllowed'
      /\ \E e \in Selecteds : e.first = TRUE /\ e.a = a /\ sel' = Append(sel, e)
  <2>1. SelectAtom(a, awp.pl, TRUE)
    BY <1>1 DEF a
  <2> QED
    BY <1>1, <1>2, <1>3, <1>4, <1>5, <1>7, <2>1, SelectAtomFacts
<1>9. PICK e \in Selecteds : e.first = TRUE /\ e.a = a /\ sel' = Append(sel, e)
  BY <1>8
<1>10. Owed' = 0
  BY <1>1, <1>8 DEF Owed
<1>11. NoCanary' /\ SearchSane'
  BY <1>1, <1>8 DEF NoCanary, SearchSane
<1>12. CASE retry
  <2>1. vqs' = vqs
    BY <1>1, <1>12
  <2>2. TypeOK'
    BY <1>1, <1>8, <2>1 DEF IInv, TypeOK, Running
  <2>3. QueuesSane'
    BY <2>1 DEF IInv, QueuesSane
  <2>4. Owed = -1 /\ vqs # <<>>
    BY <1>1, <1>12 DEF IInv, SearchSane, Owed
  <2>5. Aligned(sel, vqs, -1) /\ Last(vqs).id = awp.a.id
    BY <2>4, StacksAlignedAs DEF IInv
  <2>6. Aligned(Append(sel, e), vqs, 0)
    BY <1>2, <1>6, <1>9, <2>4, <2>5, AlignedRetry
  <2>7. StacksAligned'
    <3>1. Aligned(sel', vqs', 0)
      BY <1>9, <2>1, <2>6
    <3> QED
      BY <1>10, <3>1 DEF StacksAligned, Aligned
  <2> QED
    BY <1>8, <1>11, <2>2, <2>3, <2>7 DEF IInv
<1>13. CASE ~retry
  <2>1. vqs' = Append(vqs, newq) /\ newq \in Queues /\ newq.pi # <<>> /\ newq.id = e.a.id
    BY <1>1, <1>2, <1>9, <1>13 DEF SearchedQueue
  <2>2. /\ Append(vqs, newq) \in Seq(Queues)
        /\ DOMAIN Append(vqs, newq) = 1..(Len(vqs) + 1)
        /\ Append(vqs, newq)[Len(vqs) + 1] = newq
        /\ \A i \in 1..Len(vqs) : Append(vqs, newq)[i] = vqs[i]
        /\ DOMAIN vqs = 1..Len(vqs) /\ Len(vqs) \in Nat
    BY <1>6, <2>1, AppendProperties, LenProperties
  <2>3. TypeOK'
    BY <1>1, <1>8, <2>1, <2>2 DEF IInv, TypeOK, Running
  <2>4. QueuesSane'
    <3>1. \A i \in 1..(Len(vqs) + 1) : i = Len(vqs) + 1 \/ i \in 1..Len(vqs)
      BY <2>2
    <3>2. \A i \in 1..(Len(vqs) + 1) : Append(vqs, newq)[i].pi # <<>>
      BY <2>1, <2>2, <3>1 DEF IInv, QueuesSane
    <3> QED
      BY <2>1, <2>2, <3>2 DEF QueuesSane
  <2>5. Owed = 0
    BY <1>1, <1>13 DEF Owed
  <2>6. Aligned(sel, vqs, 0)
    BY <2>5, StacksAlignedAs DEF IInv
  <2>7. Aligned(Append(sel, e), Append(vqs, newq), 0)
    BY <1>6, <1>9, <2>1, <2>6, AlignedSelect
  <2>8. StacksAligned'
    <3>1. Aligned(sel', vqs', 0)
      BY <1>9, <2>1, <2>7
    <3> QED
      BY <1>10, <3>1 DEF StacksAligned, Aligned
  <2> QED
    BY <1>8, <1>11, <2>3, <2>4, <2>8 DEF IInv
<1> QED
  BY <1>12, <1>13

(* Adding packages to a selected project, or failing to, keeps IInv. *)
LEMMA AddPackagesKeeps ==
  ASSUME w \in Worlds, IInv, AddPackages
  PROVE  IInv'
<1> DEFINE bmi == unsel[1]
           a == [id |-> bmi.id, v |-> SelectedVersion(sel, bmi.id.pr)]
<1>1. /\ pc = "solve" /\ unsel # <<>> /\ IsSelected(sel, bmi.id.pr)
      /\ UNCHANGED <<w, deps, foldRoots, newq, retry>>
      /\ \/ /\ Checks(a, bmi.pl, TRUE) /\ SelectAtom(a, bmi.pl, FALSE) /\ vqs' = vqs
         \/ /\ \E ids : vqs' = MarkFailed(vqs, ids)
            /\ pc' = "backtrack" /\ UNCHANGED <<sel, unsel, awp, todo>>
  BY DEF AddPackages
<1>2. bmi \in Bmis /\ Owned(bmi.id.pr, bmi.pl)
  <2>1. unsel \in Seq(OwnedBmis)
    BY DEF IInv, PackagesOwned
  <2>2. Len(unsel) \in Nat /\ Len(unsel) > 0
    BY <1>1, <2>1, FrontProperties
  <2>3. 1 \in 1..Len(unsel)
    BY <2>2
  <2>4. bmi \in OwnedBmis
    BY <2>1, <2>3, ElementOfSeq
  <2> QED
    BY <2>4 DEF OwnedBmis
<1>3. bmi.id \in DepIdents /\ bmi.pl \in SUBSET Packages /\ bmi.id.pr # Root
  BY <1>2, SolverAssumption DEF Bmis, DepIdents
<1>4. /\ sel \in Seq(Selecteds) /\ DOMAIN sel = 1..Len(sel) /\ Len(sel) \in Nat /\ Len(sel) > 0
      /\ vqs \in Seq(Queues) /\ DOMAIN vqs = 1..Len(vqs) /\ Len(vqs) \in Nat
  BY LenProperties DEF IInv, TypeOK, SelectionSane
<1>5. ~retry /\ Owed = 0
  BY <1>1 DEF IInv, SearchSane, Owed
<1>6. Aligned(sel, vqs, 0)
  BY <1>5, StacksAlignedAs DEF IInv
<1>7. PICK j \in 1..Len(sel) : sel[j].a.id.pr = bmi.id.pr /\ a.v = sel[j].a.v
  BY <1>1, <1>4, SelectedVersionOnStack
<1>8. j \in 2..Len(sel)
  <2>1. j # 1
    BY <1>3, <1>7 DEF IInv, SelectionSane, RootSelected, RootAtom
  <2> QED
    BY <1>4, <2>1
<1>9. a \in DepAtoms /\ a.id.pr = bmi.id.pr
  <2>1. sel[j].a \in DepAtoms
    BY <1>8 DEF IInv, SelectionSane
  <2> QED
    BY <1>3, <1>7, <2>1, DepAtomType DEF DepAtoms
<1>10. \A i \in 1..Len(sel) : sel[i].a.id.pr = a.id.pr => sel[i].a.v = a.v
  BY <1>4, <1>7, <1>9 DEF IInv, OneVersion
<1>11. \A k \in DOMAIN deps[a.id.pr] : a.v \in deps[a.id.pr][k].dep.c
  BY <1>7, <1>8, <1>9 DEF IInv, SelectedAllowed
<1> HIDE DEF bmi, a
<1>12. CASE Checks(a, bmi.pl, TRUE) /\ SelectAtom(a, bmi.pl, FALSE) /\ vqs' = vqs
  <2>1. /\ ImportsOk(a, bmi.pl)
        /\ \A d \in DepsOf(a, bmi.pl) : DepsAllowsSelected(d)
    BY <1>12 DEF Checks, DepOk
  <2>2. /\ sel' \in Seq(Selecteds) /\ awp' \in Selecteds /\ todo' \subseteq CompleteDeps
        /\ unsel' \in Seq(Bmis) /\ pc' = "selectAtom"
        /\ SelectionSane' /\ FirstIsFirst' /\ OneVersion' /\ DepsSane'
        /\ TodoSane' /\ PackagesOwned' /\ SelectedAllowed'
        /\ \E e \in Selecteds : e.first = FALSE /\ e.a = a /\ sel' = Append(sel, e)
    BY <1>1, <1>2, <1>3, <1>9, <1>10, <1>11, <1>12, <2>1, SelectAtomFacts
  <2>3. PICK e \in Selecteds : e.first = FALSE /\ sel' = Append(sel, e)
    BY <2>2
  <2>4. TypeOK'
    BY <1>1, <1>12, <2>2 DEF IInv, TypeOK, Running
  <2>5. QueuesSane' /\ NoCanary' /\ SearchSane'
    BY <1>1, <1>5, <1>12, <2>2 DEF IInv, QueuesSane, NoCanary, SearchSane
  <2>6. Owed' = 0
    BY <2>2 DEF Owed
  <2>7. Aligned(Append(sel, e), vqs, 0)
    BY <1>4, <1>6, <2>3, AlignedAddPackages
  <2>8. StacksAligned'
    <3>1. Aligned(sel', vqs', 0)
      BY <1>12, <2>3, <2>7
    <3> QED
      BY <2>6, <3>1 DEF StacksAligned, Aligned
  <2> QED
    BY <2>2, <2>4, <2>5, <2>8 DEF IInv
<1>13. CASE /\ \E ids : vqs' = MarkFailed(vqs, ids)
            /\ pc' = "backtrack" /\ UNCHANGED <<sel, unsel, awp, todo>>
  <2>1. PICK ids : vqs' = MarkFailed(vqs, ids)
    BY <1>13
  <2> DEFINE rs == MarkFailed(vqs, ids)
  <2>2. /\ rs \in Seq(Queues) /\ Len(rs) = Len(vqs)
        /\ \A i \in 1..Len(vqs) : rs[i].id = vqs[i].id /\ rs[i].pi = vqs[i].pi
    BY <1>4, MarkFailedKeeps
  <2>3. DOMAIN rs = 1..Len(vqs)
    BY <2>2, LenProperties
  <2> HIDE DEF rs
  <2>4. vqs' = rs
    BY <2>1 DEF rs
  <2>5. TypeOK'
    BY <1>1, <1>13, <2>2, <2>4 DEF IInv, TypeOK, Running
  <2>6. QueuesSane'
    BY <1>4, <2>2, <2>3, <2>4 DEF IInv, QueuesSane
  <2>7. NoCanary' /\ SearchSane'
    BY <1>1, <1>5, <1>13 DEF NoCanary, SearchSane
  <2>8. Owed' = 0
    BY <1>13 DEF Owed
  <2>9. Aligned(sel, rs, 0)
    BY <1>4, <1>6, <2>2, AlignedSameIds
  <2>10. StacksAligned'
    BY <1>13, <2>4, <2>8, <2>9 DEF StacksAligned, Aligned
  <2> QED
    BY <1>1, <1>13, <2>5, <2>6, <2>7, <2>10, Frame DEF IInv
<1> QED
  BY <1>1, <1>12, <1>13 DEF a, bmi

-----------------------------------------------------------------------------
(* The theorems *)

(* A run starts with IInv. *)
LEMMA InitEstablishes ==
  ASSUME Init
  PROVE  IInv
<1>1. /\ w \in Worlds /\ pc = "selectRoot" /\ sel = <<RootSelected>>
      /\ deps = [pr \in ProjectRoots |-> <<>>]
      /\ foldRoots = [pr \in ProjectRoots |-> None]
      /\ unsel = <<>> /\ vqs = <<>> /\ newq = NoQueue /\ awp = RootSelected
      /\ todo = w.root /\ retry = FALSE
  BY DEF Init
<1>2. sel \in Seq(Selecteds) /\ Len(sel) = 1 /\ sel[1] = RootSelected
  BY <1>1, RootAtomType
<1>3. todo \subseteq CompleteDeps
  BY <1>1, WorldFacts DEF WorldType
<1>4. unsel \in Seq(OwnedBmis) /\ unsel \in Seq(Bmis) /\ vqs \in Seq(Queues)
      /\ Len(vqs) = 0 /\ DOMAIN vqs = {}
  BY <1>1, EmptySeq
<1>5. deps \in [ProjectRoots -> Seq(Dependencies)]
  BY <1>1, EmptySeq
<1>6. TypeOK
  BY <1>1, <1>2, <1>3, <1>4, <1>5, RootAtomType DEF TypeOK, Running
<1>7. SelectionSane
  BY <1>2 DEF SelectionSane
<1>8. FirstIsFirst
  BY <1>2 DEF FirstIsFirst
<1>9. OneVersion
  <2>1. DOMAIN sel = {1}
    BY <1>1
  <2> QED
    BY <2>1 DEF OneVersion
<1>10. DepsSane
  BY <1>1 DEF DepsSane
<1>11. TodoSane
  BY <1>1, WorldFacts DEF TodoSane
<1>12. PackagesOwned
  <2>1. Owned(RootSelected.a.id.pr, RootSelected.pl)
    BY DEF Owned, RootSelected, RootAtom
  <2>2. \A i \in 1..Len(sel) : sel[i] = RootSelected
    BY <1>2
  <2>3. \A d \in todo : Owned(d.id.pr, d.pl)
    BY <1>1, SolverAssumption DEF Owned
  <2> QED
    BY <1>1, <1>4, <2>1, <2>2, <2>3 DEF PackagesOwned
<1>13. QueuesSane /\ NoCanary /\ SearchSane
  BY <1>1, <1>4 DEF QueuesSane, NoCanary, SearchSane
<1>14. StacksAligned
  <2>1. Firsts(sel) = {} /\ Owed = 0
    BY <1>1, <1>2 DEF Firsts, Owed
  <2>2. Cardinality(Firsts(sel)) = 0
    BY <2>1, FS_EmptySet
  <2> QED
    BY <1>4, <2>1, <2>2 DEF StacksAligned
<1>15. SelectedAllowed
  BY <1>2 DEF SelectedAllowed
<1> QED
  BY <1>6, <1>7, <1>8, <1>9, <1>10, <1>11, <1>12, <1>13, <1>14, <1>15 DEF IInv

(* IInv is about the run's state only. *)
LEMMA StutterKeeps ==
  ASSUME IInv, UNCHANGED vars
  PROVE  IInv'
<1>1. TypeOK' /\ SelectionSane' /\ FirstIsFirst' /\ OneVersion' /\ DepsSane'
  BY DEF IInv, vars, TypeOK, SelectionSane, ImportsOk, FirstIsFirst, OneVersion, DepsSane
<1>2. TodoSane' /\ PackagesOwned' /\ QueuesSane' /\ SelectedAllowed' /\ NoCanary'
  BY DEF IInv, vars, TodoSane, PackagesOwned, QueuesSane, SelectedAllowed, NoCanary
<1>3. SearchSane' /\ StacksAligned'
  BY DEF IInv, vars, SearchSane, SearchedQueue, IsSelected, StacksAligned, Owed
<1> QED
  BY <1>1, <1>2, <1>3 DEF IInv

(* Every step of a solve run, in any universe, keeps the parts of its      *)
(* state consistent with each other.                                       *)
THEOREM RunStateConsistent == Spec => []IInv
<1> DEFINE Inv == w \in Worlds /\ IInv
<1>1. Init => Inv
  BY InitEstablishes DEF Init
<1>2. Inv /\ [Next]_vars => Inv'
  <2> SUFFICES ASSUME w \in Worlds, IInv, [Next]_vars
               PROVE  w' \in Worlds /\ IInv'
    OBVIOUS
  <2>0. w' = w
    BY DEF Next, Step, vars, SelectRoot, SelectAtomDep, DepsPushed, CreateVersionQueue,
           AddPackages, ValidVersion, NextVersion, NoVersion, Backtrack, UnselectLast,
           UnselectDep, Unselected, Solved, Canceled
  <2>1. IInv'
    BY SelectRootKeeps, SelectAtomDepKeeps, DepsPushedKeeps, CreateVersionQueueKeeps,
       AddPackagesKeeps, ValidVersionKeeps, NextVersionKeeps, NoVersionKeeps, BacktrackKeeps,
       UnselectLastKeeps, UnselectDepKeeps, UnselectedKeeps, SolvedKeeps, CanceledKeeps,
       StutterKeeps DEF Next, Step
  <2> QED
    BY <2>0, <2>1
<1>3. Inv => IInv
  OBVIOUS
<1> QED
  BY <1>1, <1>2, <1>3, PTL DEF Spec

(* The state of a run is always of its type.                               *)
THEOREM RunStateTyped == Spec => []TypeOK
<1>1. IInv => TypeOK
  BY DEF IInv
<1> QED
  BY <1>1, RunStateConsistent, PTL

(* The version queues and the selected projects stay aligned, through      *)
(* package additions, backjumps and retries.                               *)
THEOREM QueuesAlignWithSelection == Spec => []StacksAligned
<1>1. IInv => StacksAligned
  BY DEF IInv
<1> QED
  BY <1>1, RunStateConsistent, PTL

(* No state has a selected version that a recorded dependency rules out.   *)
THEOREM SelectionKeepsConstraints == Spec => []SelectedAllowed
<1>1. IInv => SelectedAllowed
  BY DEF IInv
<1> QED
  BY <1>1, RunStateConsistent, PTL

(* The panics of backtrack(), unselectLast() and findValidVersion() that   *)
(* guard against an inconsistent state are unreachable.                    *)
THEOREM CanariesSilent == Spec => []NoCanary
<1>1. IInv => NoCanary
  BY DEF IInv
<1> QED
  BY <1>1, RunStateConsistent, PTL

-----------------------------------------------------------------------------
(* Imports *)

(* The packages of the atom's own that its packages import add nothing to  *)
(* what is imported of others.                                             *)
LEMMA InternalImportsNothing ==
  ASSUME w \in Worlds, NEW a \in DepAtoms, NEW pl \in SUBSET Packages,
         Owned(a.id.pr, pl), ImportsOk(a, pl)
  PROVE  /\ Reached(a, WithInternal(a, pl)) = Reached(a, pl)
         /\ WithInternal(a, WithInternal(a, pl)) \subseteq WithInternal(a, pl)
<1>1. a.v \in Versions
  BY DepAtomType
<1>2. \A p \in pl : p \in Packages /\ w.reach[p][a.v].ok
  BY DEF ImportsOk
<1>3. \A p \in pl : \A q \in w.reach[p][a.v].in :
        /\ w.reach[q][a.v].in \subseteq w.reach[p][a.v].in
        /\ w.reach[q][a.v].ex \subseteq w.reach[p][a.v].ex
  BY <1>1, <1>2, WorldFacts DEF ReachClosed
<1>4. Reached(a, WithInternal(a, pl)) = Reached(a, pl)
  <2>1. \A x \in Reached(a, pl) : x \in Reached(a, WithInternal(a, pl))
    BY DEF Reached, WithInternal
  <2>2. ASSUME NEW x \in Reached(a, WithInternal(a, pl)) PROVE x \in Reached(a, pl)
    <3>1. PICK q \in WithInternal(a, pl) : x \in w.reach[q][a.v].ex
      BY DEF Reached
    <3>2. q \in pl \/ \E p \in pl : q \in w.reach[p][a.v].in
      BY DEF WithInternal
    <3> QED
      BY <1>3, <3>1, <3>2 DEF Reached
  <2> QED
    BY <2>1, <2>2
<1>5. ASSUME NEW x \in WithInternal(a, WithInternal(a, pl)) PROVE x \in WithInternal(a, pl)
  <2>1. x \in WithInternal(a, pl) \/ \E q \in WithInternal(a, pl) : x \in w.reach[q][a.v].in
    BY DEF WithInternal
  <2>2. CASE \E q \in WithInternal(a, pl) : x \in w.reach[q][a.v].in
    <3>1. PICK q \in WithInternal(a, pl) : x \in w.reach[q][a.v].in
      BY <2>2
    <3>2. q \in pl \/ \E p \in pl : q \in w.reach[p][a.v].in
      BY DEF WithInternal
    <3> QED
      BY <1>3, <3>1, <3>2 DEF WithInternal
  <2> QED
    BY <2>1, <2>2
<1> QED
  BY <1>4, <1>5

(* getImportsAndConstraintsOf() makes one dependency for each project that *)
(* is imported of.                                                         *)
LEMMA DepsOfAtom ==
  ASSUME NEW a, NEW pl, NEW e, e.a = a, Reached(a, e.pl) = Reached(a, pl)
  PROVE  /\ Externals(w, e) = Reached(a, pl)
         /\ \A pr : Imports(w, e, pr) => DepOn(w, e, pr) \in DepsOf(a, pl)
         /\ \A d \in DepsOf(a, pl) :
              Imports(w, e, d.id.pr) /\ d = DepOn(w, e, d.id.pr) /\ d.pl # {}
<1>1. Externals(w, e) = Reached(a, pl)
  BY DEF Externals, Reached
<1> DEFINE D(pr) == [id |-> [pr |-> pr, src |-> w.cons[a.id.pr][a.v][pr].src],
                     c  |-> w.cons[a.id.pr][a.v][pr].c,
                     pl |-> {p \in Reached(a, pl) : p[1] = pr}]
<1>2. \A pr : DepOn(w, e, pr) = D(pr)
  BY <1>1 DEF DepOn
<1>3. DepsOf(a, pl) = {D(pr) : pr \in {p[1] : p \in Reached(a, pl)}}
  BY DEF DepsOf
<1>4. \A pr : Imports(w, e, pr) <=> pr \in {p[1] : p \in Reached(a, pl)}
  BY <1>1 DEF Imports
<1>5. \A pr : D(pr).id.pr = pr /\ D(pr).pl = {p \in Reached(a, pl) : p[1] = pr}
  OBVIOUS
<1> HIDE DEF D
<1>6. \A pr : Imports(w, e, pr) => DepOn(w, e, pr) \in DepsOf(a, pl)
  BY <1>2, <1>3, <1>4
<1>7. ASSUME NEW d \in DepsOf(a, pl)
      PROVE  Imports(w, e, d.id.pr) /\ d = DepOn(w, e, d.id.pr) /\ d.pl # {}
  <2>1. PICK pr \in {p[1] : p \in Reached(a, pl)} : d = D(pr)
    BY <1>3
  <2>2. d.id.pr = pr /\ Imports(w, e, pr)
    BY <1>4, <1>5, <2>1
  <2>3. \E p \in Reached(a, pl) : p[1] = pr
    BY <2>1
  <2> QED
    BY <1>2, <1>5, <2>1, <2>2, <2>3
<1> QED
  BY <1>1, <1>6, <1>7

-----------------------------------------------------------------------------
(* Lists that mirror a stack *)

(* Selections can be counted, up to each of them. *)
LEMMA CountUpTo ==
  ASSUME NEW n \in Nat, NEW I \in SUBSET (2..n)
  PROVE  /\ IsFiniteSet(I) /\ Cardinality(I) \in Nat
         /\ \A i \in I : /\ Cardinality({j \in I : j <= i}) \in 1..Cardinality(I)
                         /\ {j \in I : j <= i} \in SUBSET I
<1>1. IsFiniteSet(I) /\ Cardinality(I) \in Nat
  <2>1. IsFiniteSet(2..n) /\ I \subseteq 2..n
    BY FS_Interval
  <2> QED
    BY <2>1, FS_Subset, FS_CardinalityType
<1>2. SUFFICES ASSUME NEW i \in I
               PROVE  Cardinality({j \in I : j <= i}) \in 1..Cardinality(I)
  <2>1. \A i \in I : {j \in I : j <= i} \in SUBSET I
    OBVIOUS
  <2> QED
    BY <1>1, <2>1
<1> DEFINE T == {j \in I : j <= i}
<1>3. T \subseteq I /\ i \in T
  OBVIOUS
<1> HIDE DEF T
<1>4. IsFiniteSet(T) /\ Cardinality(T) <= Cardinality(I) /\ Cardinality(T) \in Nat
  BY <1>1, <1>3, FS_Subset, FS_CardinalityType
<1>5. Cardinality(T) # 0
  BY <1>3, <1>4, FS_EmptySet
<1> QED
  BY <1>1, <1>4, <1>5 DEF T

(* The list does not depend on what is not in I. *)
LEMMA MirrorsSame ==
  ASSUME NEW u, NEW ds, NEW m, NEW I, NEW s, NEW t, NEW pr,
         Mirrors(u, ds, m, I, s, pr), \A i \in I : t[i] = s[i]
  PROVE  Mirrors(u, ds, m, I, t, pr)
BY DEF Mirrors

(* Pushing the record of the selection on top. *)
LEMMA MirrorsAppend ==
  ASSUME NEW S, NEW u, NEW ds \in Seq(S), NEW m \in Nat, NEW n \in Nat, n > 1,
         NEW I \in SUBSET (2..(n - 1)), NEW s, NEW pr, NEW x \in S,
         Mirrors(u, ds, m, I, s, pr), x = Record(u, s[n], pr)
  PROVE  Mirrors(u, Append(ds, x), m, I \cup {n}, s, pr)
<1> DEFINE J == I \cup {n}
           es == Append(ds, x)
           At(K, i) == {j \in K : j <= i}
<1>0. n - 1 \in Nat /\ \A i \in I : i \in Int /\ i < n
  OBVIOUS
<1>1. /\ IsFiniteSet(I) /\ Cardinality(I) \in Nat
      /\ \A i \in I : Cardinality(At(I, i)) \in 1..Cardinality(I)
  BY <1>0, CountUpTo
<1>2. n \notin I
  BY <1>0
<1>3. Cardinality(J) = Cardinality(I) + 1
  BY <1>1, <1>2, FS_AddElement
<1>4. /\ Len(es) = Len(ds) + 1 /\ es[Len(ds) + 1] = x
      /\ \A i \in 1..Len(ds) : es[i] = ds[i]
  BY AppendProperties
<1>5. Len(ds) = m + Cardinality(I) /\ \A i \in I : ds[m + Cardinality(At(I, i))] = Record(u, s[i], pr)
  BY DEF Mirrors
<1>6. \A i \in I : At(J, i) = At(I, i)
  BY <1>0
<1>7. At(J, n) = J
  <2>1. \A j \in J : j <= n
    BY <1>0
  <2> HIDE DEF J
  <2> QED
    BY <2>1
<1> HIDE DEF es, J, At
<1>8. \A i \in I : es[m + Cardinality(At(J, i))] = Record(u, s[i], pr)
  <2> SUFFICES ASSUME NEW i \in I
               PROVE  es[m + Cardinality(At(J, i))] = Record(u, s[i], pr)
    OBVIOUS
  <2>1. m + Cardinality(At(I, i)) \in 1..Len(ds)
    BY <1>1, <1>5
  <2> QED
    BY <1>4, <1>5, <1>6, <2>1
<1>9. m + Cardinality(At(J, n)) = Len(ds) + 1
  BY <1>1, <1>3, <1>5, <1>7
<1>10. \A i \in J : es[m + Cardinality(At(J, i))] = Record(u, s[i], pr)
  BY <1>4, <1>8, <1>9 DEF J
<1>11. Len(es) = m + Cardinality(J)
  BY <1>1, <1>3, <1>4, <1>5
<1> QED
  BY <1>10, <1>11 DEF Mirrors, es, J, At

(* Popping it. *)
LEMMA MirrorsFront ==
  ASSUME NEW S, NEW u, NEW ds \in Seq(S), NEW m \in Nat, NEW n \in Nat, n > 1,
         NEW I \in SUBSET (2..n), n \in I, NEW s, NEW t, NEW pr,
         Mirrors(u, ds, m, I, s, pr), \A i \in 2..(n - 1) : t[i] = s[i]
  PROVE  Mirrors(u, Front(ds), m, I \ {n}, t, pr)
<1> DEFINE J == I \ {n}
           es == Front(ds)
           At(K, i) == {j \in K : j <= i}
<1>1. /\ IsFiniteSet(I) /\ Cardinality(I) \in Nat
      /\ \A i \in I : Cardinality(At(I, i)) \in 1..Cardinality(I)
  BY CountUpTo
<1>2. Cardinality(J) = Cardinality(I) - 1
  BY <1>1, FS_RemoveElement
<1>3. J \in SUBSET (2..(n - 1))
  OBVIOUS
<1>4. \A i \in J : At(J, i) = At(I, i)
  OBVIOUS
<1>5. n - 1 \in Nat
  OBVIOUS
<1>6. Cardinality(J) \in Nat /\ \A i \in J : Cardinality(At(J, i)) \in 1..Cardinality(J)
  <2> HIDE DEF J
  <2> QED
    BY <1>3, <1>5, CountUpTo
<1>7. Len(ds) = m + Cardinality(I) /\ \A i \in I : ds[m + Cardinality(At(I, i))] = Record(u, s[i], pr)
  BY DEF Mirrors
<1>8. Len(ds) \in Nat /\ Len(ds) # 0
  BY <1>1, <1>2, <1>6, <1>7
<1>9. ds # <<>>
  BY <1>8, EmptySeq
<1>10. Len(es) = Len(ds) - 1 /\ \A i \in 1..Len(es) : es[i] = ds[i]
  BY <1>9, FrontProperties
<1> HIDE DEF es, At, J
<1>11. Len(es) = m + Cardinality(J)
  BY <1>1, <1>2, <1>7, <1>10
<1>12. \A i \in J : es[m + Cardinality(At(J, i))] = Record(u, t[i], pr)
  <2> SUFFICES ASSUME NEW i \in J
               PROVE  es[m + Cardinality(At(J, i))] = Record(u, t[i], pr)
    OBVIOUS
  <2>1. m + Cardinality(At(J, i)) \in 1..Len(es)
    BY <1>6, <1>11
  <2>2. i \in I /\ t[i] = s[i]
    BY <1>3 DEF J
  <2> QED
    BY <1>4, <1>7, <1>10, <2>1, <2>2
<1> QED
  BY <1>11, <1>12 DEF Mirrors, es, J, At

-----------------------------------------------------------------------------
(* The steps that leave the selection, the dependers and the queue alone *)

LEMMA SoundFrame ==
  ASSUME SoundInv, UNCHANGED <<w, sel, deps, foldRoots, unsel>>, todo = {}, todo' = {},
         pc' \notin {"selectRoot", "selectAtom", "popDeps"},
         pc' = "findValidVersion" => awp'.pl # {},
         pc' = "solved" => unsel = <<>>
  PROVE  SoundInv'
<1>1. PackagesKept'
  BY DEF SoundInv, PackagesKept
<1>2. TodoKept' /\ NothingLeft'
  BY DEF TodoKept, NothingLeft
<1>3. RootKept'
  BY DEF SoundInv, RootKept
<1>4. SourcesAgree' /\ CasesAgree'
  BY DEF SoundInv, SourcesAgree, CasesAgree
<1>5. Covered'
  BY DEF SoundInv, Covered
<1>6. DepsMirrored'
  <2>1. \A pr : ~Pending(pr) /\ ~Pending(pr)'
    BY DEF Pending
  <2>2. \A pr : RootCount(pr)' = RootCount(pr)
    BY <2>1 DEF RootCount
  <2> QED
    BY <2>1, <2>2 DEF SoundInv, DepsMirrored
<1> QED
  BY <1>1, <1>2, <1>3, <1>4, <1>5, <1>6 DEF SoundInv

LEMMA SoundStutter ==
  ASSUME SoundInv, UNCHANGED vars
  PROVE  SoundInv'
<1> USE DEF vars
<1>1. PackagesKept' /\ TodoKept' /\ NothingLeft' /\ RootKept' /\ Covered'
  BY DEF SoundInv, PackagesKept, TodoKept, NothingLeft, RootKept, Covered
<1>2. SourcesAgree' /\ CasesAgree'
  BY DEF SoundInv, SourcesAgree, CasesAgree, IdentMatches, HasIdent, GetIdentFor, CaseConflict
<1>3. DepsMirrored'
  BY DEF SoundInv, DepsMirrored, RootCount, Pending
<1> QED
  BY <1>1, <1>2, <1>3 DEF SoundInv

(* The steps that are covered by SoundFrame. *)
LEMMA FrameSteps ==
  ASSUME w \in Worlds, IInv, SoundInv,
         \/ DepsPushed \/ CreateVersionQueue \/ NextVersion \/ NoVersion
         \/ Backtrack \/ Unselected \/ Solved \/ Canceled
         \/ AddPackages /\ UNCHANGED <<sel, unsel, todo>> /\ pc' = "backtrack"
  PROVE  SoundInv'
<1>1. todo = {}
  BY DEF SoundInv, TodoKept, DepsPushed, CreateVersionQueue, NextVersion, NoVersion,
         Backtrack, Unselected, Solved, Canceled, AddPackages
<1>2. UNCHANGED <<w, sel, deps, foldRoots, unsel, todo>>
  BY DEF DepsPushed, CreateVersionQueue, NextVersion, NoVersion,
         Backtrack, Unselected, Solved, Canceled, AddPackages
<1>3. pc' \notin {"selectRoot", "selectAtom", "popDeps"} /\ (pc' = "solved" => unsel = <<>>)
  BY DEF DepsPushed, CreateVersionQueue, NextVersion, NoVersion,
         Backtrack, Unselected, Solved, Canceled, AddPackages, Unless, FindValidVersion
<1>4. ASSUME pc' = "findValidVersion" PROVE awp'.pl # {}
  <2>1. CASE CreateVersionQueue
    <3>1. unsel # <<>> /\ awp'.pl = unsel[1].pl
      BY <1>4, <2>1 DEF CreateVersionQueue
    <3>2. unsel \in Seq(FilledBmis)
      BY DEF SoundInv, PackagesKept
    <3>3. 1 \in 1..Len(unsel)
      BY <3>1, <3>2, FrontProperties
    <3>4. unsel[1] \in FilledBmis
      BY <3>2, <3>3, ElementOfSeq
    <3> QED
      BY <3>1, <3>4 DEF FilledBmis
  <2>2. CASE ~CreateVersionQueue
    <3>1. awp' = awp /\ pc \in {"findValidVersion", "popDeps"}
      BY <1>4, <2>2 DEF DepsPushed, NextVersion, NoVersion, Backtrack, Unselected, Solved,
                        Canceled, AddPackages, Unless
    <3> QED
      BY <3>1 DEF SoundInv, PackagesKept
  <2> QED
    BY <2>1, <2>2
<1> QED
  BY <1>1, <1>2, <1>3, <1>4, SoundFrame

-----------------------------------------------------------------------------
(* Pushing dependencies *)

(* One project is pushed once only, and nobody in hand spells it          *)
(* otherwise.                                                              *)
LEMMA TodoDistinct ==
  ASSUME w \in Worlds, IInv, SoundInv, pc \in {"selectRoot", "selectAtom", "popDeps"},
         NEW d \in todo, NEW e \in todo
  PROVE  /\ d.id.pr = e.id.pr => d = e
         /\ SpeltOnce(w) /\ pc # "popDeps" /\ CaseFold[d.id.pr] = CaseFold[e.id.pr] => d = e
<1>1. d \in CompleteDeps /\ e \in CompleteDeps /\ Owned(d.id.pr, d.pl) /\ Owned(e.id.pr, e.pl)
      /\ d.pl # {} /\ e.pl # {}
  BY DEF IInv, TypeOK, PackagesOwned, SoundInv, PackagesKept
<1>2. d.id.pr = e.id.pr => d = e
  <2>1. CASE pc = "selectRoot"
    <3>1. d \in w.root /\ e \in w.root
      BY <2>1 DEF SoundInv, TodoKept
    <3> QED
      BY <3>1, SolverAssumption
  <2>2. CASE pc \in {"selectAtom", "popDeps"}
    <3>1. d = DepOn(w, awp, d.id.pr) /\ e = DepOn(w, awp, e.id.pr)
      BY <2>2 DEF SoundInv, TodoKept
    <3> QED
      BY <3>1
  <2> QED
    BY <2>1, <2>2
<1>3. PICK p \in d.pl, q \in e.pl : p[1] = d.id.pr /\ q[1] = e.id.pr
  BY <1>1 DEF Owned
<1>4. ASSUME SpeltOnce(w), pc # "popDeps", CaseFold[d.id.pr] = CaseFold[e.id.pr]
      PROVE  d.id.pr = e.id.pr
  <2>1. CASE pc = "selectRoot"
    <3>1. d \in w.root /\ e \in w.root
      BY <2>1 DEF SoundInv, TodoKept
    <3>2. p \in UNION {x.pl : x \in w.root} /\ q \in UNION {x.pl : x \in w.root}
      BY <3>1
    <3> QED
      BY <1>3, <1>4, <3>2 DEF SpeltOnce, OneCase, ProjectsOf
  <2>2. CASE pc = "selectAtom"
    <3>1. d = DepOn(w, awp, d.id.pr) /\ e = DepOn(w, awp, e.id.pr)
      BY <2>2 DEF SoundInv, TodoKept
    <3>2. p \in Externals(w, awp) /\ q \in Externals(w, awp)
      <4>1. \A pr : DepOn(w, awp, pr).pl = {y \in Externals(w, awp) : y[1] = pr}
        BY DEF DepOn
      <4>2. /\ d.pl = {y \in Externals(w, awp) : y[1] = d.id.pr}
            /\ e.pl = {y \in Externals(w, awp) : y[1] = e.id.pr}
        BY <3>1, <4>1, Zenon
      <4> QED
        BY <4>2
    <3> DEFINE a == awp.a
               X == UNION {w.reach[x][a.v].ex : x \in {y \in Packages : y[1] = a.id.pr}}
    <3>3. a.id.pr \in Projects /\ a.v \in Versions
      BY <2>2, DepAtomType DEF IInv, TodoSane
    <3>4. awp.pl \in SUBSET Packages /\ Owned(a.id.pr, awp.pl)
      BY DEF IInv, TypeOK, Selecteds, PackagesOwned
    <3>5. \A x \in Externals(w, awp) : x \in X
      BY <3>4 DEF Externals, Owned
    <3> HIDE DEF X
    <3>6. OneCase(X)
      BY <1>4, <3>3 DEF SpeltOnce, X
    <3>7. p \in X /\ q \in X
      BY <3>2, <3>5
    <3> QED
      BY <1>3, <1>4, <3>6, <3>7 DEF OneCase, ProjectsOf
  <2> QED
    BY <1>4, <2>1, <2>2
<1> QED
  BY <1>2, <1>4

(* A turn of the loop of selectRoot() or selectAtom() keeps SoundInv. *)
LEMMA PushKeeps ==
  ASSUME w \in Worlds, IInv, SoundInv, NEW d \in todo, NEW x \in Dependencies,
         \/ pc = "selectRoot" /\ x = [depender |-> RootAtom, dep |-> d]
         \/ pc = "selectAtom" /\ x = [depender |-> awp.a, dep |-> d],
         PushDep(x), todo' = todo \ {d},
         UNCHANGED <<w, pc, sel, awp>>,
         unsel' \in Seq(FilledBmis),
         \A k \in DOMAIN unsel : \E i \in DOMAIN unsel' : unsel'[i] = unsel[k],
         \A p \in d.pl : \/ \E k \in DOMAIN deps[d.id.pr] : p \in deps[d.id.pr][k].dep.pl
                         \/ \E i \in DOMAIN unsel' : unsel'[i].id.pr = d.id.pr /\ p \in unsel'[i].pl
  PROVE  SoundInv'
<1> DEFINE q == d.id.pr
           ds == deps[q]
           es == Append(ds, x)
<1>1. x.dep = d /\ pc \in {"selectRoot", "selectAtom"}
  OBVIOUS
<1>2. d \in CompleteDeps /\ q \in Projects /\ q \in ProjectRoots /\ Owned(q, d.pl)
  BY DEF IInv, TypeOK, TodoSane, PackagesOwned, ProjectRoots
<1>3. /\ ds \in Seq(Dependencies) /\ deps \in [ProjectRoots -> Seq(Dependencies)]
      /\ foldRoots \in [ProjectRoots -> ProjectRoots \cup {None}]
  BY <1>2 DEF IInv, TypeOK
<1>4. /\ es \in Seq(Dependencies) /\ Len(es) = Len(ds) + 1 /\ DOMAIN es = 1..(Len(ds) + 1)
      /\ es # <<>>
      /\ Len(ds) \in Nat /\ DOMAIN ds = 1..Len(ds)
      /\ \A i \in 1..Len(ds) : es[i] = ds[i]
      /\ es[Len(ds) + 1] = x
  <2> HIDE DEF ds
  <2>1. /\ es \in Seq(Dependencies) /\ Len(es) = Len(ds) + 1 /\ es # <<>>
        /\ \A i \in 1..Len(ds) : es[i] = ds[i]
        /\ es[Len(ds) + 1] = x
    BY <1>3, AppendProperties
  <2> HIDE DEF es
  <2> QED
    BY <1>3, <2>1, LenProperties
<1>5. deps' = [deps EXCEPT ![q] = es]
  BY <1>1 DEF PushDep
<1>6. \A pr \in ProjectRoots : deps'[pr] = IF pr = q THEN es ELSE deps[pr]
  BY <1>3, <1>5
<1>7. foldRoots' = IF ds = <<>> THEN [foldRoots EXCEPT ![CaseFold[q]] = q] ELSE foldRoots
  BY <1>1 DEF PushDep
<1> HIDE DEF es
<1>8. \A e \in todo' : e \in todo /\ e.id.pr # q /\ e.id.pr \in Projects
  BY <1>1, TodoDistinct DEF IInv, TodoSane
<1>9. ~Pending(q)' /\ Pending(q) /\ \A pr : pr # q => Pending(pr)' = Pending(pr)
  <2>1. ~Pending(q)' /\ Pending(q)
    BY <1>8 DEF Pending
  <2>2. ASSUME NEW pr, pr # q PROVE Pending(pr)' = Pending(pr)
    <3>1. Pending(pr)' => Pending(pr)
      BY DEF Pending
    <3>2. Pending(pr) => Pending(pr)'
      BY <2>2 DEF Pending
    <3> QED
      BY <3>1, <3>2 DEF Pending
  <2> QED
    BY <2>1, <2>2
<1>10. Projects \subseteq ProjectRoots
  BY DEF ProjectRoots
<1>11. PackagesKept'
  BY <1>1 DEF SoundInv, PackagesKept
<1>12. TodoKept' /\ NothingLeft' /\ RootKept'
  BY <1>1, <1>8 DEF SoundInv, TodoKept, NothingLeft, RootKept
<1>13. SourcesAgree'
  <2>1. ASSUME NEW pr \in Projects, NEW k \in DOMAIN deps'[pr]
        PROVE  Equiv(deps'[pr][1].dep.id, deps'[pr][k].dep.id)
    <3>1. CASE pr # q
      BY <1>6, <1>10, <2>1, <3>1 DEF SoundInv, SourcesAgree
    <3>2. CASE pr = q /\ ds = <<>>
      <4>1. Len(ds) = 0
        BY <3>2
      <4>2. k = 1 /\ deps'[pr] = es
        BY <1>2, <1>4, <1>6, <3>2, <4>1
      <4> QED
        BY <4>2 DEF Equiv
    <3>3. CASE pr = q /\ ds # <<>>
      <4>1. Len(ds) > 0
        BY <1>3, <3>3, FrontProperties
      <4>2. es[1] = ds[1] /\ deps'[pr] = es /\ k \in 1..(Len(ds) + 1)
        BY <1>2, <1>4, <1>6, <3>3, <4>1
      <4>3. IdentMatches(d)
        BY <1>1 DEF SoundInv, SourcesAgree
      <4>4. Equiv(ds[1].dep.id, d.id)
        BY <3>3, <4>3 DEF IdentMatches, HasIdent, GetIdentFor
      <4>5. CASE k = Len(ds) + 1
        BY <1>1, <1>4, <4>2, <4>4, <4>5
      <4>6. CASE k \in 1..Len(ds)
        <5>1. Equiv(ds[1].dep.id, ds[k].dep.id)
          BY <1>2, <1>4, <4>6 DEF SoundInv, SourcesAgree
        <5> QED
          BY <1>4, <4>2, <4>6, <5>1
      <4> QED
        BY <1>4, <4>2, <4>5, <4>6
    <3> QED
      BY <3>1, <3>2, <3>3
  <2>2. ASSUME NEW e \in todo' PROVE IdentMatches(e)'
    <3>1. IdentMatches(e)
      BY <1>1, <1>8 DEF SoundInv, SourcesAgree
    <3>2. deps'[e.id.pr] = deps[e.id.pr]
      BY <1>6, <1>8, <1>10
    <3> QED
      BY <3>1, <3>2 DEF IdentMatches, HasIdent, GetIdentFor
  <2> QED
    BY <2>1, <2>2 DEF SourcesAgree
<1>14. CasesAgree'
  <2> SUFFICES ASSUME SpeltOnce(w)
               PROVE  /\ \A pr \in Projects : deps'[pr] # <<>> <=> foldRoots'[CaseFold[pr]] = pr
                      /\ \A e \in todo' : ~CaseConflict(e.id.pr)'
    BY DEF CasesAgree
  <2>1. /\ \A pr \in Projects : deps[pr] # <<>> <=> foldRoots[CaseFold[pr]] = pr
        /\ \A e \in todo : foldRoots[CaseFold[e.id.pr]] \in {None, e.id.pr}
    BY <1>1 DEF SoundInv, CasesAgree, CaseConflict
  <2>2. \A pr \in ProjectRoots : CaseFold[pr] \in ProjectRoots
    BY SolverAssumption
  <2>3. None \notin ProjectRoots
    <3>1. Projects \subseteq Nat
      BY SolverAssumption
    <3> QED
      BY <3>1 DEF ProjectRoots
  <2>4. CASE ds # <<>>
    <3>1. foldRoots' = foldRoots
      BY <1>7, <2>4
    <3>2. \A pr \in Projects : deps'[pr] # <<>> <=> deps[pr] # <<>>
      BY <1>4, <1>6, <1>10, <2>4
    <3> QED
      BY <1>8, <2>1, <3>1, <3>2 DEF CaseConflict
  <2>5. CASE ds = <<>>
    <3>1. \A f \in ProjectRoots : foldRoots'[f] = IF f = CaseFold[q] THEN q ELSE foldRoots[f]
      BY <1>3, <1>7, <2>5
    <3>2. foldRoots[CaseFold[q]] = None
      BY <1>2, <2>1, <2>5
    <3>3. \A pr \in Projects : deps'[pr] # <<>> <=> foldRoots'[CaseFold[pr]] = pr
      <4> SUFFICES ASSUME NEW pr \in Projects
                   PROVE  deps'[pr] # <<>> <=> foldRoots'[CaseFold[pr]] = pr
        OBVIOUS
      <4>1. CASE pr = q
        BY <1>2, <1>4, <1>6, <2>2, <3>1, <4>1
      <4>2. CASE pr # q /\ CaseFold[pr] = CaseFold[q]
        BY <1>6, <1>10, <2>1, <2>2, <2>3, <3>1, <3>2, <4>2
      <4>3. CASE pr # q /\ CaseFold[pr] # CaseFold[q]
        BY <1>6, <1>10, <2>1, <2>2, <3>1, <4>3
      <4> QED
        BY <4>1, <4>2, <4>3
    <3>4. ASSUME NEW e \in todo' PROVE foldRoots'[CaseFold[e.id.pr]] \in {None, e.id.pr}
      <4>1. e \in todo /\ e.id.pr \in Projects /\ e # d
        BY <1>8
      <4>2. CaseFold[e.id.pr] # CaseFold[q]
        BY <1>1, <4>1, TodoDistinct
      <4> QED
        BY <1>10, <2>1, <2>2, <3>1, <4>1, <4>2
    <3> QED
      BY <3>3, <3>4 DEF CaseConflict
  <2> QED
    BY <2>4, <2>5
<1>15. Covered'
  <2> SUFFICES ASSUME NEW pr \in Projects, NEW k \in DOMAIN deps'[pr],
                      NEW p \in deps'[pr][k].dep.pl
               PROVE  /\ p[1] = pr
                      /\ \/ \E i \in DOMAIN sel : p \in sel[i].pl
                         \/ \E i \in DOMAIN unsel' : unsel'[i].id.pr = pr /\ p \in unsel'[i].pl
    BY DEF Covered
  <2>1. ASSUME NEW l \in DOMAIN deps[pr], p \in deps[pr][l].dep.pl
        PROVE  /\ p[1] = pr
               /\ \/ \E i \in DOMAIN sel : p \in sel[i].pl
                  \/ \E i \in DOMAIN unsel' : unsel'[i].id.pr = pr /\ p \in unsel'[i].pl
    <3>1. /\ p[1] = pr
          /\ \/ \E i \in DOMAIN sel : p \in sel[i].pl
             \/ \E i \in DOMAIN unsel : unsel[i].id.pr = pr /\ p \in unsel[i].pl
      BY <2>1 DEF SoundInv, Covered
    <3> QED
      BY <3>1
  <2>2. CASE pr # q \/ k \in 1..Len(ds)
    <3>1. k \in DOMAIN deps[pr] /\ deps'[pr][k] = deps[pr][k]
      BY <1>4, <1>6, <1>10, <2>2
    <3> QED
      BY <2>1, <3>1
  <2>3. CASE pr = q /\ k \notin 1..Len(ds)
    <3>1. deps'[pr] = es /\ k = Len(ds) + 1
      BY <1>2, <1>4, <1>6, <2>3
    <3>2. p \in d.pl
      BY <1>1, <1>4, <3>1
    <3> QED
      BY <1>2, <2>1, <2>3, <3>2 DEF Owned
  <2> QED
    BY <2>2, <2>3
<1>16. DepsMirrored'
  <2> SUFFICES ASSUME NEW pr \in Projects
               PROVE  /\ Mirrors(w, deps'[pr], RootCount(pr)',
                                 Importers(w, sel, pr) \
                                   (IF pc = "selectAtom" /\ Pending(pr)' THEN {Len(sel)} ELSE {}),
                                 sel, pr)
                      /\ \A e \in w.root : e.id.pr = pr /\ RootCount(pr)' = 1 =>
                           deps'[pr][1] = [depender |-> RootAtom, dep |-> e]
    BY <1>1 DEF DepsMirrored
  <2>1. /\ Mirrors(w, deps[pr], RootCount(pr),
                   Importers(w, sel, pr) \
                     (IF pc = "selectAtom" /\ Pending(pr) THEN {Len(sel)} ELSE {}),
                   sel, pr)
        /\ \A e \in w.root : e.id.pr = pr /\ RootCount(pr) = 1 =>
             deps[pr][1] = [depender |-> RootAtom, dep |-> e]
    BY <1>1 DEF SoundInv, DepsMirrored
  <2>2. CASE pr # q
    <3>1. RootCount(pr)' = RootCount(pr) /\ Pending(pr)' = Pending(pr)
      BY <1>9, <2>2 DEF RootCount
    <3> QED
      BY <1>6, <1>10, <2>1, <2>2, <3>1
  <2>3. CASE pr = q /\ pc = "selectRoot"
    <3>1. Importers(w, sel, pr) = {}
      <4>1. Len(sel) = 1
        BY <2>3 DEF IInv, SelectionSane
      <4>2. \A i \in 2..Len(sel) : FALSE
        BY <4>1
      <4> QED
        BY <4>2 DEF Importers
    <3>2. RootCount(pr) = 0
      BY <1>9, <2>3 DEF RootCount
    <3>3. d \in w.root
      BY <2>3 DEF SoundInv, TodoKept
    <3>4. RootCount(pr)' = 1
      BY <1>9, <2>3, <3>3 DEF RootCount
    <3>5. Cardinality({}) = 0
      BY FS_EmptySet
    <3>6. Importers(w, sel, pr) \ (IF pc = "selectAtom" /\ Pending(pr) THEN {Len(sel)} ELSE {}) = {}
          /\ Importers(w, sel, pr) \ (IF pc = "selectAtom" /\ Pending(pr)' THEN {Len(sel)} ELSE {}) = {}
      BY <3>1
    <3>7. Len(ds) = 0
      <4>1. Mirrors(w, ds, 0, {}, sel, pr)
        BY <2>1, <2>3, <3>2, <3>6
      <4> QED
        BY <1>4, <3>5, <4>1 DEF Mirrors
    <3>8. Mirrors(w, es, 1, {}, sel, pr)
      BY <1>4, <3>5, <3>7 DEF Mirrors
    <3>9. es[1] = [depender |-> RootAtom, dep |-> d]
      BY <1>4, <2>3, <3>7
    <3>10. \A e \in w.root : e.id.pr = pr => e = d
      BY <2>3, <3>3, SolverAssumption
    <3> QED
      BY <1>2, <1>6, <2>3, <3>4, <3>6, <3>8, <3>9, <3>10
  <2>4. CASE pr = q /\ pc = "selectAtom"
    <3> DEFINE n == Len(sel)
               J == Importers(w, sel, pr)
               I == J \ {n}
    <3>1. n \in Nat /\ n > 1 /\ awp = sel[n]
      <4>1. sel \in Seq(Selecteds) /\ awp = Last(sel) /\ n > 1
        BY <2>4 DEF IInv, TypeOK, SoundInv, TodoKept
      <4>2. sel # <<>> /\ n \in Nat
        BY <4>1, EmptySeq, LenProperties
      <4> QED
        BY <4>1, <4>2, FrontProperties
    <3>2. Imports(w, awp, pr) /\ d = DepOn(w, awp, pr)
      BY <2>4 DEF SoundInv, TodoKept
    <3>3. n \in J /\ J \in SUBSET (2..n)
      BY <3>1, <3>2 DEF Importers
    <3>4. I \in SUBSET (2..(n - 1)) /\ I \cup {n} = J
      BY <3>1, <3>3
    <3>5. RootCount(pr)' = RootCount(pr) /\ RootCount(pr) \in Nat
      BY <2>4 DEF RootCount
    <3>6. Mirrors(w, ds, RootCount(pr), I, sel, pr)
      BY <1>9, <2>1, <2>4
    <3>7. x = Record(w, sel[n], pr)
      BY <2>4, <3>1, <3>2 DEF Record
    <3> HIDE DEF I, J, n
    <3>8. Mirrors(w, es, RootCount(pr), I \cup {n}, sel, pr)
      <4> DEFINE m == RootCount(pr)
      <4> HIDE DEF m
      <4>1. Mirrors(w, Append(ds, x), m, I \cup {n}, sel, pr)
        BY <1>3, <3>1, <3>4, <3>5, <3>6, <3>7, MirrorsAppend DEF m
      <4> QED
        BY <4>1 DEF m, es
    <3>9. Importers(w, sel, pr) \ (IF pc = "selectAtom" /\ Pending(pr)' THEN {Len(sel)} ELSE {}) = J
      BY <1>9, <2>4 DEF J
    <3>10. RootCount(pr) = 1 => deps'[pr][1] = deps[pr][1]
      <4> SUFFICES ASSUME RootCount(pr) = 1 PROVE es[1] = ds[1]
        BY <1>2, <1>6, <2>4
      <4>1. Len(ds) = 1 + Cardinality(I) /\ Cardinality(I) \in Nat
        <5>1. Cardinality(I) \in Nat
          <6>1. n - 1 \in Nat
            BY <3>1
          <6> QED
            BY <3>4, <6>1, CountUpTo
        <5> QED
          BY <3>6, <5>1 DEF Mirrors
      <4> QED
        BY <1>4, <4>1
    <3> QED
      BY <1>2, <1>6, <2>1, <2>4, <3>4, <3>5, <3>8, <3>9, <3>10
  <2> QED
    BY <1>1, <2>2, <2>3, <2>4
<1> QED
  BY <1>11, <1>12, <1>13, <1>14, <1>15, <1>16 DEF SoundInv

(* Pushing a dependency of the root keeps SoundInv. *)
LEMMA SelectRootSound ==
  ASSUME w \in Worlds, IInv, SoundInv, SelectRoot
  PROVE  SoundInv'
<1>1. PICK d \in todo :
        /\ pc = "selectRoot"
        /\ PushDep([depender |-> RootAtom, dep |-> d])
        /\ HeapPush(sel, [id |-> d.id, pl |-> d.pl, prefv |-> None, fromRoot |-> TRUE])
        /\ todo' = todo \ {d}
        /\ UNCHANGED <<w, pc, sel, vqs, newq, awp, retry>>
  BY DEF SelectRoot
<1>2. d \in CompleteDeps /\ d.id.pr \in Projects /\ Owned(d.id.pr, d.pl) /\ d.pl # {}
  BY DEF IInv, TypeOK, TodoSane, PackagesOwned, SoundInv, PackagesKept
<1>3. d.id \in DepIdents /\ d.pl \in SUBSET Packages
  BY <1>2 DEF CompleteDeps, Idents, DepIdents
<1> DEFINE x == [depender |-> RootAtom, dep |-> d]
           bmi == [id |-> d.id, pl |-> d.pl, prefv |-> None, fromRoot |-> TRUE]
<1>4. x \in Dependencies
  BY <1>2, RootAtomType DEF Dependencies
<1>5. bmi \in FilledBmis /\ bmi.id = d.id /\ bmi.pl = d.pl
  BY <1>2, <1>3 DEF FilledBmis, OwnedBmis, Bmis
<1>6. /\ unsel' \in Seq(FilledBmis)
      /\ \E i \in DOMAIN unsel' : unsel'[i] = bmi
      /\ \A k \in DOMAIN unsel : \E i \in DOMAIN unsel' : unsel'[i] = unsel[k]
  <2> HIDE DEF bmi
  <2>1. HeapPush(sel, bmi)
    BY <1>1 DEF bmi
  <2> QED
    BY <1>5, <2>1, HeapPushType DEF SoundInv, PackagesKept
<1> HIDE DEF bmi
<1>7. \A p \in d.pl : \E i \in DOMAIN unsel' : unsel'[i].id.pr = d.id.pr /\ p \in unsel'[i].pl
  BY <1>5, <1>6
<1>8. PushDep(x) /\ pc = "selectRoot" /\ todo' = todo \ {d} /\ UNCHANGED <<w, pc, sel, awp>>
  BY <1>1
<1>9. pc = "selectRoot" /\ x = [depender |-> RootAtom, dep |-> d]
  BY <1>1
<1> HIDE DEF x
<1> QED
  BY <1>4, <1>6, <1>7, <1>8, <1>9, PushKeeps

(* Pushing a dependency of a selected atom keeps SoundInv. *)
LEMMA SelectAtomDepSound ==
  ASSUME w \in Worlds, IInv, SoundInv, SelectAtomDep
  PROVE  SoundInv'
<1>1. PICK d \in todo :
        LET id == IF HasIdent(d.id.pr) THEN GetIdentFor(d.id.pr) ELSE d.id IN
        /\ pc = "selectAtom"
        /\ PushDep([depender |-> awp.a, dep |-> d])
        /\ IF NewlyRequired(d) = {} THEN UNCHANGED unsel
           ELSE HeapPush(sel, [id |-> id, pl |-> NewlyRequired(d),
                               prefv |-> w.lock[awp.a.id.pr][awp.a.v][d.id.pr],
                               fromRoot |-> FALSE])
        /\ todo' = todo \ {d}
        /\ UNCHANGED <<w, pc, sel, vqs, newq, awp, retry>>
  BY DEF SelectAtomDep
<1>2. d \in CompleteDeps /\ d.id.pr \in Projects /\ Owned(d.id.pr, d.pl) /\ d.pl # {}
  BY DEF IInv, TypeOK, TodoSane, PackagesOwned, SoundInv, PackagesKept
<1>3. d.id \in DepIdents /\ d.pl \in SUBSET Packages /\ d.id.pr \in ProjectRoots
  BY <1>2 DEF CompleteDeps, Idents, DepIdents, ProjectRoots
<1>4. awp.a \in DepAtoms
  BY <1>1 DEF IInv, TodoSane
<1> DEFINE x == [depender |-> awp.a, dep |-> d]
           id == IF HasIdent(d.id.pr) THEN GetIdentFor(d.id.pr) ELSE d.id
           prefv == w.lock[awp.a.id.pr][awp.a.v][d.id.pr]
           bmi == [id |-> id, pl |-> NewlyRequired(d), prefv |-> prefv, fromRoot |-> FALSE]
<1>5. x \in Dependencies
  BY <1>2, <1>4, DepAtomType DEF Dependencies
<1>6. ASSUME HasIdent(d.id.pr)
      PROVE  GetIdentFor(d.id.pr) \in DepIdents /\ GetIdentFor(d.id.pr).pr = d.id.pr
  <2> DEFINE ds == deps[d.id.pr]
  <2>1. ds \in Seq(Dependencies) /\ ds # <<>>
    BY <1>3, <1>6 DEF IInv, TypeOK, HasIdent
  <2>2. DOMAIN ds = 1..Len(ds) /\ Len(ds) \in Nat /\ Len(ds) > 0
    BY <2>1, LenProperties, FrontProperties
  <2>3. 1 \in DOMAIN ds
    BY <2>2
  <2>4. ds[1] \in Dependencies
    BY <2>1, <2>2, <2>3, ElementOfSeq
  <2>5. ds[1].dep.id.pr = d.id.pr
    BY <1>3, <2>3 DEF IInv, DepsSane
  <2> QED
    BY <1>2, <2>4, <2>5 DEF GetIdentFor, Dependencies, CompleteDeps, Idents, DepIdents
<1>7. id \in DepIdents /\ id.pr = d.id.pr
  BY <1>3, <1>6
<1>8. prefv \in Versions \cup {None}
  BY <1>3, <1>4, DepAtomType, WorldFacts DEF WorldType
<1>9. NewlyRequired(d) \in SUBSET Packages /\ Owned(d.id.pr, NewlyRequired(d))
      /\ \A p \in d.pl : \/ \E k \in DOMAIN deps[d.id.pr] : p \in deps[d.id.pr][k].dep.pl
                         \/ p \in NewlyRequired(d)
  BY <1>2, <1>3 DEF NewlyRequired, Owned
<1> HIDE DEF id, prefv
<1>10. ASSUME NewlyRequired(d) # {}
       PROVE  bmi \in FilledBmis /\ bmi.id.pr = d.id.pr /\ bmi.pl = NewlyRequired(d)
  BY <1>7, <1>8, <1>9, <1>10 DEF FilledBmis, OwnedBmis, Bmis
<1>11. IF NewlyRequired(d) = {} THEN unsel' = unsel ELSE HeapPush(sel, bmi)
  BY <1>1 DEF id, prefv
<1> HIDE DEF bmi
<1>12. /\ unsel' \in Seq(FilledBmis)
       /\ NewlyRequired(d) # {} => \E i \in DOMAIN unsel' : unsel'[i] = bmi
       /\ \A k \in DOMAIN unsel : \E i \in DOMAIN unsel' : unsel'[i] = unsel[k]
  <2>1. unsel \in Seq(FilledBmis)
    BY DEF SoundInv, PackagesKept
  <2>2. CASE NewlyRequired(d) = {}
    BY <1>11, <2>1, <2>2
  <2>3. CASE NewlyRequired(d) # {}
    <3>1. HeapPush(sel, bmi) /\ bmi \in FilledBmis
      BY <1>10, <1>11, <2>3
    <3> QED
      BY <2>1, <3>1, HeapPushType
  <2> QED
    BY <2>2, <2>3
<1>13. \A p \in d.pl : \/ \E k \in DOMAIN deps[d.id.pr] : p \in deps[d.id.pr][k].dep.pl
                       \/ \E i \in DOMAIN unsel' : unsel'[i].id.pr = d.id.pr /\ p \in unsel'[i].pl
  BY <1>9, <1>10, <1>12
<1>14. PushDep(x) /\ todo' = todo \ {d} /\ UNCHANGED <<w, pc, sel, awp>>
  BY <1>1
<1>15. pc = "selectAtom" /\ x = [depender |-> awp.a, dep |-> d]
  BY <1>1
<1> HIDE DEF x
<1> QED
  BY <1>5, <1>12, <1>13, <1>14, <1>15, PushKeeps

-----------------------------------------------------------------------------
(* Selecting an atom *)

(* Pushing a selection that passed its checks keeps SoundInv. *)
LEMMA SelectAtomSound ==
  ASSUME w \in Worlds, IInv, SoundInv, NEW a \in DepAtoms, NEW pl \in SUBSET Packages,
         NEW first \in BOOLEAN, pl # {},
         pc \in {"solve", "findValidVersion"},
         Owned(a.id.pr, pl), ImportsOk(a, pl),
         SelectAtom(a, pl, first), UNCHANGED <<w, deps, foldRoots>>,
         \A d \in DepsOf(a, pl) : DepOk(d)
  PROVE  SoundInv'
<1> DEFINE e == [a |-> a, pl |-> WithInternal(a, pl), first |-> first]
           n == Len(sel)
           s == Append(sel, e)
<1>1. /\ RemoveBmi(a.id, pl) /\ sel' = s /\ awp' = e
      /\ todo' = {d \in DepsOf(a, pl) : d.id.pr # Root}
      /\ pc' = "selectAtom"
  BY DEF SelectAtom
<1>2. /\ WithInternal(a, pl) \in SUBSET Packages
      /\ Owned(a.id.pr, WithInternal(a, pl))
      /\ DepsOf(a, pl) \subseteq CompleteDeps
      /\ \A d \in DepsOf(a, pl) : Owned(d.id.pr, d.pl) /\ d.id.pr # a.id.pr
  BY ImportsFacts
<1>3. e \in Selecteds /\ e.a = a /\ e.first = first /\ e.pl = WithInternal(a, pl)
  BY <1>2, DepAtomType DEF Selecteds
<1>4. /\ Reached(a, WithInternal(a, pl)) = Reached(a, pl)
      /\ WithInternal(a, WithInternal(a, pl)) \subseteq WithInternal(a, pl)
  BY InternalImportsNothing
<1> HIDE DEF e
<1>5. /\ \A pr : Imports(w, e, pr) => DepOn(w, e, pr) \in DepsOf(a, pl)
      /\ \A d \in DepsOf(a, pl) :
           Imports(w, e, d.id.pr) /\ d = DepOn(w, e, d.id.pr) /\ d.pl # {}
  BY <1>3, <1>4, DepsOfAtom
<1>6. sel \in Seq(Selecteds) /\ n \in Nat /\ DOMAIN sel = 1..n /\ n > 0
  BY LenProperties DEF IInv, TypeOK, SelectionSane
<1>7. /\ s \in Seq(Selecteds) /\ Len(s) = n + 1 /\ s[n + 1] = e
      /\ \A i \in 1..n : s[i] = sel[i]
  BY <1>3, <1>6, AppendProperties
<1>8. DOMAIN s = 1..(n + 1)
  BY <1>7, LenProperties
<1> HIDE DEF s, n
<1>9. \A i \in 2..(n + 1) : i = n + 1 \/ (i \in 2..n /\ i \in 1..n)
  BY <1>6
<1>10. /\ unsel' \in Seq(FilledBmis)
       /\ \A k \in DOMAIN unsel : \/ Eq(unsel[k].id, a.id) /\ unsel[k].pl = pl
                                  \/ \E i \in DOMAIN unsel' : unsel'[i] = unsel[k]
  BY <1>1, RemoveBmiType DEF SoundInv, PackagesKept
<1>11. todo = {}
  BY DEF SoundInv, TodoKept
<1>12. pl \subseteq e.pl
  BY <1>3 DEF WithInternal
<1>13. PackagesKept'
  <2>1. \A p \in e.pl : w.reach[p][e.a.v].in \subseteq e.pl
    BY <1>3, <1>4 DEF WithInternal
  <2>2. ASSUME NEW i \in 2..(n + 1)
        PROVE  s[i].pl # {} /\ \A p \in s[i].pl : w.reach[p][s[i].a.v].in \subseteq s[i].pl
    <3>1. CASE i = n + 1
      BY <1>7, <1>12, <2>1, <3>1
    <3>2. CASE i \in 2..n /\ i \in 1..n
      BY <1>7, <3>2 DEF SoundInv, PackagesKept, n
    <3> QED
      BY <1>9, <3>1, <3>2
  <2>3. \A d \in todo' : d.pl # {}
    BY <1>1, <1>5
  <2> QED
    BY <1>1, <1>7, <1>10, <2>2, <2>3 DEF PackagesKept
<1>14. TodoKept'
  <2>1. Len(s) > 1 /\ Last(s) = e
    BY <1>6, <1>7 DEF Last
  <2> QED
    BY <1>1, <1>5, <2>1 DEF TodoKept
<1>15. NothingLeft'
  BY <1>1 DEF NothingLeft
<1>16. RootKept'
  <2> SUFFICES ASSUME NEW i \in 2..(n + 1), Imports(w, s[i], Root)
               PROVE  /\ RootVersion \in DepOn(w, s[i], Root).c
                      /\ DepOn(w, s[i], Root).pl \subseteq w.rootPkgs
    BY <1>1, <1>7 DEF RootKept
  <2>1. CASE i \in 2..n /\ i \in 1..n
    BY <1>7, <2>1 DEF SoundInv, RootKept, n
  <2>2. CASE i = n + 1
    <3> DEFINE d == DepOn(w, e, Root)
    <3>1. d \in DepsOf(a, pl) /\ d.id.pr = Root
      <4>1. d \in DepsOf(a, pl)
        BY <1>5, <1>7, <2>2
      <4> QED
        BY <4>1 DEF DepOn
    <3> HIDE DEF d
    <3>2. DepOk(d)
      BY <3>1
    <3>3. IsSelected(sel, Root) /\ sel[1].a.id.pr = Root
      BY <1>6 DEF IsSelected, IInv, SelectionSane, RootSelected, RootAtom
    <3>4. SelectedVersion(sel, Root) = RootVersion
      <4>1. PICK j \in 1..Len(sel) : sel[j].a.id.pr = Root /\ SelectedVersion(sel, Root) = sel[j].a.v
        BY <1>6, <3>3, SelectedVersionOnStack
      <4>2. sel[j].a.v = sel[1].a.v
        BY <1>6, <3>3, <4>1 DEF IInv, OneVersion, n
      <4> QED
        BY <4>1, <4>2 DEF IInv, SelectionSane, RootSelected, RootAtom
    <3>5. RootVersion \in d.c /\ d.pl \subseteq w.rootPkgs
      BY <3>1, <3>2, <3>3, <3>4 DEF DepOk, DepsAllowsSelected, PackageImportsExist
    <3> QED
      BY <1>7, <2>2, <3>5 DEF d
  <2> QED
    BY <1>9, <2>1, <2>2
<1>17. \A d \in todo' : DepOk(d)
  BY <1>1
<1>18. SourcesAgree'
  <2>1. \A d \in todo' : IdentMatches(d)'
    BY <1>17 DEF DepOk, IdentMatches, HasIdent, GetIdentFor
  <2> QED
    BY <1>1, <2>1 DEF SoundInv, SourcesAgree
<1>19. CasesAgree'
  <2>1. \A d \in todo' : ~CaseConflict(d.id.pr)'
    BY <1>17 DEF DepOk, CaseConflict
  <2> QED
    BY <1>1, <2>1 DEF SoundInv, CasesAgree
<1>20. Covered'
  <2> SUFFICES ASSUME NEW pr \in Projects, NEW k \in DOMAIN deps[pr], NEW p \in deps[pr][k].dep.pl
               PROVE  /\ p[1] = pr
                      /\ \/ \E i \in DOMAIN s : p \in s[i].pl
                         \/ \E i \in DOMAIN unsel' : unsel'[i].id.pr = pr /\ p \in unsel'[i].pl
    BY <1>1 DEF Covered
  <2>1. /\ p[1] = pr
        /\ \/ \E i \in DOMAIN sel : p \in sel[i].pl
           \/ \E i \in DOMAIN unsel : unsel[i].id.pr = pr /\ p \in unsel[i].pl
    BY DEF SoundInv, Covered
  <2>2. CASE \E i \in DOMAIN sel : p \in sel[i].pl
    <3>1. PICK i \in 1..n : p \in sel[i].pl
      BY <1>6, <2>2
    <3>2. i \in 1..(n + 1) /\ s[i] = sel[i]
      BY <1>6, <1>7
    <3> QED
      BY <1>8, <2>1, <3>1, <3>2
  <2>3. CASE \E i \in DOMAIN unsel : unsel[i].id.pr = pr /\ p \in unsel[i].pl
    <3>1. PICK i \in DOMAIN unsel : unsel[i].id.pr = pr /\ p \in unsel[i].pl
      BY <2>3
    <3>2. CASE \E j \in DOMAIN unsel' : unsel'[j] = unsel[i]
      BY <2>1, <3>1, <3>2
    <3>3. CASE unsel[i].pl = pl
      <4>1. n + 1 \in DOMAIN s /\ p \in s[n + 1].pl
        BY <1>6, <1>7, <1>8, <1>12, <3>1, <3>3
      <4> QED
        BY <2>1, <4>1
    <3> QED
      BY <1>10, <3>2, <3>3
  <2> QED
    BY <2>1, <2>2, <2>3
<1>21. DepsMirrored'
  <2> SUFFICES ASSUME NEW pr \in Projects
               PROVE  /\ Mirrors(w, deps[pr], RootCount(pr)',
                                 Importers(w, s, pr) \
                                   (IF Pending(pr)' THEN {n + 1} ELSE {}), s, pr)
                      /\ \A d \in w.root : d.id.pr = pr /\ RootCount(pr)' = 1 =>
                           deps[pr][1] = [depender |-> RootAtom, dep |-> d]
    BY <1>1, <1>7 DEF DepsMirrored
  <2>1. ~Pending(pr)
    BY <1>11 DEF Pending
  <2>2. RootCount(pr)' = RootCount(pr)
    BY <1>1, <2>1 DEF RootCount
  <2>3. /\ Mirrors(w, deps[pr], RootCount(pr), Importers(w, sel, pr) \ {}, sel, pr)
        /\ \A d \in w.root : d.id.pr = pr /\ RootCount(pr) = 1 =>
             deps[pr][1] = [depender |-> RootAtom, dep |-> d]
    BY <2>1 DEF SoundInv, DepsMirrored
  <2>4. pr # Root
    BY SolverAssumption
  <2>5. Pending(pr)' <=> Imports(w, e, pr)
    <3>1. ASSUME Pending(pr)' PROVE Imports(w, e, pr)
      BY <1>1, <1>5, <3>1 DEF Pending
    <3>2. ASSUME Imports(w, e, pr) PROVE Pending(pr)'
      <4>1. DepOn(w, e, pr) \in DepsOf(a, pl) /\ DepOn(w, e, pr).id.pr = pr
        BY <1>5, <3>2 DEF DepOn
      <4> QED
        BY <1>1, <2>4, <4>1 DEF Pending
    <3> QED
      BY <3>1, <3>2
  <2> DEFINE I == Importers(w, sel, pr)
             J == Importers(w, s, pr) \ (IF Pending(pr)' THEN {n + 1} ELSE {})
  <2>6. \A i \in 2..n : s[i] = sel[i]
    BY <1>6, <1>7
  <2>7. I = {i \in 2..n : Imports(w, sel[i], pr)}
    BY DEF Importers, n
  <2>8. Importers(w, s, pr) = {i \in 2..(n + 1) : Imports(w, s[i], pr)}
    BY <1>7 DEF Importers
  <2>9. J = I
    <3>1. \A i : i \in J => i \in I
      BY <1>7, <1>9, <2>5, <2>6, <2>7, <2>8
    <3>2. \A i : i \in I => i \in J
      <4>1. \A i \in 2..n : i \in 2..(n + 1) /\ i # n + 1
        BY <1>6
      <4> QED
        BY <2>6, <2>7, <2>8, <4>1
    <3> HIDE DEF I, J
    <3> QED
      BY <3>1, <3>2
  <2>10. Mirrors(w, deps[pr], RootCount(pr), I, sel, pr)
    BY <2>3
  <2>11. \A i \in I : s[i] = sel[i]
    BY <2>6, <2>7
  <2> HIDE DEF I, J
  <2>12. Mirrors(w, deps[pr], RootCount(pr), I, s, pr)
    <3> DEFINE m == RootCount(pr)
               ds == deps[pr]
    <3> HIDE DEF m, ds
    <3>1. Mirrors(w, ds, m, I, sel, pr)
      BY <2>10 DEF m, ds
    <3>2. Mirrors(w, ds, m, I, s, pr)
      BY <2>11, <3>1, MirrorsSame
    <3> QED
      BY <3>2 DEF m, ds
  <2> QED
    BY <2>2, <2>3, <2>9, <2>12 DEF J
<1> QED
  BY <1>13, <1>14, <1>15, <1>16, <1>18, <1>19, <1>20, <1>21 DEF SoundInv

(* Selecting the version that passed its checks keeps SoundInv. *)
LEMMA ValidVersionSound ==
  ASSUME w \in Worlds, IInv, SoundInv, ValidVersion
  PROVE  SoundInv'
<1> DEFINE a == Candidate
<1>1. /\ pc = "findValidVersion" /\ Checks(a, awp.pl, FALSE)
      /\ SelectAtom(a, awp.pl, TRUE) /\ UNCHANGED <<w, deps, foldRoots>>
  BY DEF ValidVersion
<1>2. awp.pl \in SUBSET Packages /\ a \in DepAtoms /\ a.id = awp.a.id
  BY <1>1, SearchedQueueFacts
<1>3. Owned(a.id.pr, awp.pl) /\ awp.pl # {}
  BY <1>1, <1>2 DEF IInv, PackagesOwned, SoundInv, PackagesKept
<1>4. ImportsOk(a, awp.pl) /\ \A d \in DepsOf(a, awp.pl) : DepOk(d)
  BY <1>1 DEF Checks
<1> HIDE DEF a
<1> QED
  BY <1>1, <1>2, <1>3, <1>4, SelectAtomSound

(* Adding packages to a selected project, or failing to, keeps SoundInv.   *)
LEMMA AddPackagesSound ==
  ASSUME w \in Worlds, IInv, SoundInv, AddPackages
  PROVE  SoundInv'
<1> DEFINE bmi == unsel[1]
           a == [id |-> bmi.id, v |-> SelectedVersion(sel, bmi.id.pr)]
<1>1. /\ pc = "solve" /\ unsel # <<>> /\ IsSelected(sel, bmi.id.pr)
      /\ UNCHANGED <<w, deps, foldRoots, newq, retry>>
      /\ \/ Checks(a, bmi.pl, TRUE) /\ SelectAtom(a, bmi.pl, FALSE)
         \/ pc' = "backtrack" /\ UNCHANGED <<sel, unsel, awp, todo>>
  BY DEF AddPackages
<1>2. bmi \in FilledBmis
  <2>1. unsel \in Seq(FilledBmis)
    BY DEF SoundInv, PackagesKept
  <2>2. Len(unsel) \in Nat /\ Len(unsel) > 0
    BY <1>1, <2>1, FrontProperties
  <2>3. 1 \in 1..Len(unsel)
    BY <2>2
  <2> QED
    BY <2>1, <2>3, ElementOfSeq
<1>3. /\ bmi.id \in DepIdents /\ bmi.pl \in SUBSET Packages /\ bmi.id.pr # Root
      /\ Owned(bmi.id.pr, bmi.pl) /\ bmi.pl # {}
  BY <1>2, SolverAssumption DEF FilledBmis, OwnedBmis, Bmis, DepIdents
<1>4. sel \in Seq(Selecteds) /\ Len(sel) \in Nat
  BY LenProperties DEF IInv, TypeOK
<1>5. PICK j \in 1..Len(sel) : sel[j].a.id.pr = bmi.id.pr /\ a.v = sel[j].a.v
  BY <1>1, <1>4, SelectedVersionOnStack
<1>6. j \in 2..Len(sel)
  <2>1. j # 1
    BY <1>3, <1>5 DEF IInv, SelectionSane, RootSelected, RootAtom
  <2> QED
    BY <1>4, <2>1
<1>7. a \in DepAtoms /\ a.id.pr = bmi.id.pr
  <2>1. sel[j].a \in DepAtoms
    BY <1>6 DEF IInv, SelectionSane
  <2> QED
    BY <1>3, <1>5, <2>1, DepAtomType DEF DepAtoms
<1> HIDE DEF a, bmi
<1>8. CASE Checks(a, bmi.pl, TRUE) /\ SelectAtom(a, bmi.pl, FALSE)
  <2>1. ImportsOk(a, bmi.pl) /\ \A d \in DepsOf(a, bmi.pl) : DepOk(d)
    BY <1>8 DEF Checks
  <2> QED
    BY <1>1, <1>3, <1>7, <1>8, <2>1, SelectAtomSound
<1>9. CASE pc' = "backtrack" /\ UNCHANGED <<sel, unsel, awp, todo>>
  BY <1>9, FrameSteps
<1> QED
  BY <1>1, <1>8, <1>9

-----------------------------------------------------------------------------
(* Backtracking *)

(* Popping the selection keeps SoundInv. *)
LEMMA UnselectLastSound ==
  ASSUME w \in Worlds, IInv, SoundInv, UnselectLast
  PROVE  SoundInv'
<1> DEFINE top == Last(sel)
           rest == Front(sel)
           n == Len(sel)
           bmi == [id |-> top.a.id, pl |-> top.pl, prefv |-> None, fromRoot |-> FALSE]
<1>1. /\ pc = "unselectLast" /\ awp' = top /\ sel' = rest
      /\ HeapPush(rest, bmi)
      /\ todo' = {d \in DepsOf(top.a, top.pl) : d.id.pr # Root}
      /\ pc' = Unless(ImportsOk(top.a, top.pl), "popDeps", "panic: imports")
      /\ UNCHANGED <<w, deps, foldRoots, vqs, newq, retry>>
  BY DEF UnselectLast
<1>2. sel \in Seq(Selecteds) /\ n > 1 /\ n \in Nat
  BY <1>1, RootNotPopped DEF IInv, TypeOK
<1>3. sel # <<>>
  BY <1>2, EmptySeq
<1>4. /\ rest \in Seq(Selecteds) /\ Len(rest) = n - 1 /\ top = sel[n] /\ top \in Selecteds
      /\ \A i \in 1..(n - 1) : rest[i] = sel[i]
  BY <1>2, <1>3, FrontProperties
<1>5. DOMAIN sel = 1..n /\ DOMAIN rest = 1..(n - 1) /\ n \in 2..n /\ n \in 1..n
  BY <1>2, <1>4, LenProperties
<1>6. /\ top.a \in DepAtoms /\ ImportsOk(top.a, top.pl) /\ Owned(top.a.id.pr, top.pl)
      /\ top.pl # {}
  BY <1>4, <1>5 DEF IInv, SelectionSane, PackagesOwned, SoundInv, PackagesKept
<1>7. pc' = "popDeps"
  BY <1>1, <1>6 DEF Unless
<1>8. top.pl \in SUBSET Packages
  BY <1>4 DEF Selecteds
<1>9. bmi \in FilledBmis /\ bmi.id.pr = top.a.id.pr /\ bmi.pl = top.pl
  BY <1>6, <1>8, DepAtomType DEF FilledBmis, OwnedBmis, Bmis
<1> HIDE DEF bmi, rest
<1>10. /\ unsel' \in Seq(FilledBmis)
       /\ \E i \in DOMAIN unsel' : unsel'[i] = bmi
       /\ \A k \in DOMAIN unsel : \E i \in DOMAIN unsel' : unsel'[i] = unsel[k]
  BY <1>1, <1>9, HeapPushType DEF SoundInv, PackagesKept
<1> HIDE DEF top, n
<1>11. /\ \A pr : Imports(w, top, pr) => DepOn(w, top, pr) \in DepsOf(top.a, top.pl)
       /\ \A d \in DepsOf(top.a, top.pl) :
            Imports(w, top, d.id.pr) /\ d = DepOn(w, top, d.id.pr) /\ d.pl # {}
  BY DepsOfAtom
<1>12. \A i \in 2..(n - 1) : i \in 2..n /\ i \in 1..(n - 1) /\ rest[i] = sel[i]
  BY <1>2, <1>4
<1>13. todo = {}
  BY <1>1 DEF SoundInv, TodoKept
<1>14. PackagesKept'
  <2>1. ASSUME NEW i \in 2..(n - 1)
        PROVE  rest[i].pl # {} /\ \A p \in rest[i].pl : w.reach[p][rest[i].a.v].in \subseteq rest[i].pl
    BY <1>12 DEF SoundInv, PackagesKept, n
  <2>2. \A d \in todo' : d.pl # {}
    BY <1>1, <1>11
  <2> QED
    BY <1>1, <1>4, <1>6, <1>10, <2>1, <2>2 DEF PackagesKept
<1>15. TodoKept' /\ NothingLeft'
  BY <1>1, <1>7, <1>11 DEF TodoKept, NothingLeft
<1>16. RootKept'
  <2> SUFFICES ASSUME NEW i \in 2..(n - 1), Imports(w, rest[i], Root)
               PROVE  /\ RootVersion \in DepOn(w, rest[i], Root).c
                      /\ DepOn(w, rest[i], Root).pl \subseteq w.rootPkgs
    BY <1>1, <1>4 DEF RootKept
  <2> QED
    BY <1>12 DEF SoundInv, RootKept, n
<1>17. SourcesAgree' /\ CasesAgree'
  BY <1>1, <1>7 DEF SoundInv, SourcesAgree, CasesAgree
<1>18. Covered'
  <2> SUFFICES ASSUME NEW pr \in Projects, NEW k \in DOMAIN deps[pr], NEW p \in deps[pr][k].dep.pl
               PROVE  /\ p[1] = pr
                      /\ \/ \E i \in DOMAIN rest : p \in rest[i].pl
                         \/ \E i \in DOMAIN unsel' : unsel'[i].id.pr = pr /\ p \in unsel'[i].pl
    BY <1>1 DEF Covered
  <2>1. /\ p[1] = pr
        /\ \/ \E i \in DOMAIN sel : p \in sel[i].pl
           \/ \E i \in DOMAIN unsel : unsel[i].id.pr = pr /\ p \in unsel[i].pl
    BY DEF SoundInv, Covered
  <2>2. CASE \E i \in DOMAIN unsel : unsel[i].id.pr = pr /\ p \in unsel[i].pl
    BY <1>10, <2>1, <2>2
  <2>3. CASE \E i \in DOMAIN sel : p \in sel[i].pl
    <3>1. PICK i \in 1..n : p \in sel[i].pl
      BY <1>5, <2>3
    <3>2. CASE i \in 1..(n - 1)
      BY <1>4, <1>5, <2>1, <3>1, <3>2
    <3>3. CASE i = n
      <4>1. p \in bmi.pl /\ bmi.id.pr = pr
        BY <1>4, <1>6, <1>9, <2>1, <3>1, <3>3 DEF Owned
      <4> QED
        BY <1>10, <2>1, <4>1
    <3>4. i \in 1..(n - 1) \/ i = n
      BY <1>2
    <3> QED
      BY <3>2, <3>3, <3>4
  <2> QED
    BY <2>1, <2>2, <2>3
<1>19. DepsMirrored'
  <2> SUFFICES ASSUME NEW pr \in Projects
               PROVE  /\ Mirrors(w, IF Pending(pr)' THEN Front(deps[pr]) ELSE deps[pr],
                                 RootCount(pr)', Importers(w, rest, pr) \ {}, rest, pr)
                      /\ \A d \in w.root : d.id.pr = pr /\ RootCount(pr)' = 1 =>
                           deps[pr][1] = [depender |-> RootAtom, dep |-> d]
    BY <1>1, <1>7 DEF DepsMirrored
  <2>1. ~Pending(pr)
    BY <1>13 DEF Pending
  <2>2. RootCount(pr)' = RootCount(pr) /\ RootCount(pr) \in Nat
    BY <1>1, <1>7, <2>1 DEF RootCount
  <2>3. /\ Mirrors(w, deps[pr], RootCount(pr), Importers(w, sel, pr) \ {}, sel, pr)
        /\ \A d \in w.root : d.id.pr = pr /\ RootCount(pr) = 1 =>
             deps[pr][1] = [depender |-> RootAtom, dep |-> d]
    BY <2>1 DEF SoundInv, DepsMirrored
  <2>4. pr # Root /\ pr \in ProjectRoots
    BY SolverAssumption DEF ProjectRoots
  <2>5. Pending(pr)' <=> Imports(w, top, pr)
    <3>1. ASSUME Pending(pr)' PROVE Imports(w, top, pr)
      BY <1>1, <1>11, <3>1 DEF Pending
    <3>2. ASSUME Imports(w, top, pr) PROVE Pending(pr)'
      <4>1. DepOn(w, top, pr) \in DepsOf(top.a, top.pl) /\ DepOn(w, top, pr).id.pr = pr
        BY <1>11, <3>2 DEF DepOn
      <4> QED
        BY <1>1, <2>4, <4>1 DEF Pending
    <3> QED
      BY <3>1, <3>2
  <2> DEFINE I == Importers(w, sel, pr)
             J == Importers(w, rest, pr)
             ds == deps[pr]
             m == RootCount(pr)
  <2>6. I = {i \in 2..n : Imports(w, sel[i], pr)} /\ J = {i \in 2..(n - 1) : Imports(w, rest[i], pr)}
    BY <1>4 DEF Importers, n
  <2>7. J = I \ {n}
    <3>1. \A i \in 2..n : i = n \/ i \in 2..(n - 1)
      BY <1>2
    <3>2. n \notin 2..(n - 1)
      BY <1>2
    <3>3. \A i : i \in J <=> i \in I /\ i # n
      BY <1>12, <2>6, <3>1, <3>2
    <3> HIDE DEF I, J
    <3> QED
      BY <3>3
  <2>8. n \in I <=> Pending(pr)'
    BY <1>4, <1>5, <2>5, <2>6
  <2>9. I \in SUBSET (2..n) /\ ds \in Seq(Dependencies)
    BY <2>4, <2>6 DEF IInv, TypeOK
  <2>10. Mirrors(w, ds, m, I, sel, pr) /\ m \in Nat
    BY <2>2, <2>3
  <2>11. \A i \in 2..(n - 1) : rest[i] = sel[i]
    BY <1>12
  <2>12. J \ {} = J
    OBVIOUS
  <2> HIDE DEF I, J, ds, m
  <2>13. CASE Pending(pr)'
    <3>1. Mirrors(w, Front(ds), m, I \ {n}, rest, pr)
      BY <1>2, <2>8, <2>9, <2>10, <2>11, <2>13, MirrorsFront
    <3>2. Mirrors(w, IF Pending(pr)' THEN Front(ds) ELSE ds, m, J, rest, pr)
      BY <2>7, <2>13, <3>1
    <3> QED
      BY <2>2, <2>3, <2>12, <3>2 DEF J, ds, m
  <2>14. CASE ~Pending(pr)'
    <3>1. J = I /\ n \notin I
      BY <2>7, <2>8, <2>14
    <3>2. \A i \in I : rest[i] = sel[i]
      <4>1. \A i \in I : i \in 2..(n - 1)
        BY <1>2, <2>9, <3>1
      <4> QED
        BY <2>11, <4>1
    <3>3. Mirrors(w, ds, m, J, rest, pr)
      BY <2>10, <3>1, <3>2, MirrorsSame
    <3>4. Mirrors(w, IF Pending(pr)' THEN Front(ds) ELSE ds, m, J, rest, pr)
      BY <2>14, <3>3
    <3> QED
      BY <2>2, <2>3, <2>12, <3>4 DEF J, ds, m
  <2> QED
    BY <2>13, <2>14
<1> QED
  BY <1>14, <1>15, <1>16, <1>17, <1>18, <1>19 DEF SoundInv

(* Popping a dependency of an unselected atom keeps SoundInv: the entry    *)
(* that popDep() drops is that atom's.                                     *)
LEMMA UnselectDepSound ==
  ASSUME w \in Worlds, IInv, SoundInv, UnselectDep
  PROVE  SoundInv'
<1>1. PICK d \in todo :
        /\ pc = "popDeps"
        /\ PopDep(d.id.pr)
        /\ IF Len(deps[d.id.pr]) = 1 THEN RemoveBmi(d.id, d.pl) ELSE UNCHANGED unsel
        /\ todo' = todo \ {d}
        /\ UNCHANGED <<w, pc, sel, vqs, newq, awp, retry>>
  BY DEF UnselectDep
<1> DEFINE q == d.id.pr
           ds == deps[q]
           es == Front(ds)
<1>2. d \in CompleteDeps /\ q \in Projects /\ q \in ProjectRoots
  BY DEF IInv, TypeOK, TodoSane, ProjectRoots
<1>3. /\ ds \in Seq(Dependencies) /\ deps \in [ProjectRoots -> Seq(Dependencies)]
      /\ foldRoots \in [ProjectRoots -> ProjectRoots \cup {None}]
  BY <1>2 DEF IInv, TypeOK
<1>4. /\ es \in Seq(Dependencies)
      /\ ds # <<>> => Len(ds) > 0 /\ Len(es) = Len(ds) - 1
      /\ ds = <<>> => Len(es) = 0
      /\ \A i \in 1..Len(es) : es[i] = ds[i]
  BY <1>3, FrontProperties
<1>5. /\ Len(ds) \in Nat /\ DOMAIN ds = 1..Len(ds) /\ (ds = <<>> => Len(ds) = 0)
      /\ Len(es) \in Nat /\ DOMAIN es = 1..Len(es)
      /\ (es = <<>> => Len(es) = 0) /\ (es # <<>> => Len(es) # 0)
  <2> HIDE DEF ds, es
  <2> QED
    BY <1>3, <1>4, LenProperties, EmptySeq
<1>6. deps' = [deps EXCEPT ![q] = es]
  BY <1>1 DEF PopDep
<1>7. \A pr \in ProjectRoots : deps'[pr] = IF pr = q THEN es ELSE deps[pr]
  BY <1>3, <1>6
<1>8. foldRoots' = IF Len(ds) = 1 THEN [foldRoots EXCEPT ![CaseFold[q]] = None] ELSE foldRoots
  BY <1>1 DEF PopDep
<1> HIDE DEF es
<1>9. Projects \subseteq ProjectRoots
  BY DEF ProjectRoots
<1>10. \A e \in todo' : e \in todo /\ e.id.pr # q
  BY <1>1, TodoDistinct
<1>11. ~Pending(q)' /\ Pending(q) /\ \A pr : pr # q => Pending(pr)' = Pending(pr)
  <2>1. ~Pending(q)' /\ Pending(q)
    BY <1>10 DEF Pending
  <2>2. ASSUME NEW pr, pr # q PROVE Pending(pr)' = Pending(pr)
    <3>1. Pending(pr)' => Pending(pr)
      BY <1>1 DEF Pending
    <3>2. Pending(pr) => Pending(pr)'
      BY <1>1, <2>2 DEF Pending
    <3> QED
      BY <3>1, <3>2 DEF Pending
  <2> QED
    BY <2>1, <2>2
<1>12. \A pr \in Projects : \A k \in DOMAIN deps'[pr] :
         k \in DOMAIN deps[pr] /\ deps'[pr][k] = deps[pr][k] /\ deps'[pr][1] = deps[pr][1]
  <2> SUFFICES ASSUME NEW pr \in Projects, NEW k \in DOMAIN deps'[pr]
               PROVE  k \in DOMAIN deps[pr] /\ deps'[pr][k] = deps[pr][k]
                      /\ deps'[pr][1] = deps[pr][1]
    OBVIOUS
  <2>1. CASE pr # q
    BY <1>7, <1>9, <2>1
  <2>2. CASE pr = q
    <3>1. deps'[pr] = es /\ k \in 1..Len(es)
      BY <1>2, <1>5, <1>7, <2>2
    <3>2. ds # <<>>
      BY <1>4, <3>1
    <3>3. k \in 1..Len(ds) /\ 1 \in 1..Len(es)
      BY <1>4, <1>5, <3>1, <3>2
    <3> QED
      BY <1>4, <1>5, <2>2, <3>1, <3>3
  <2> QED
    BY <2>1, <2>2
<1>13. /\ unsel' \in Seq(FilledBmis)
       /\ \A k \in DOMAIN unsel :
            \/ Len(ds) = 1 /\ unsel[k].id.pr = q
            \/ \E i \in DOMAIN unsel' : unsel'[i] = unsel[k]
  <2>1. unsel \in Seq(FilledBmis)
    BY DEF SoundInv, PackagesKept
  <2>2. CASE Len(ds) = 1
    <3>1. RemoveBmi(d.id, d.pl)
      BY <1>1, <2>2
    <3> QED
      BY <2>1, <2>2, <3>1, RemoveBmiType DEF Eq
  <2>3. CASE Len(ds) # 1
    BY <1>1, <2>1, <2>3
  <2> QED
    BY <2>2, <2>3
<1>14. PackagesKept'
  BY <1>1, <1>13 DEF SoundInv, PackagesKept
<1>15. TodoKept' /\ NothingLeft' /\ RootKept'
  BY <1>1, <1>10 DEF SoundInv, TodoKept, NothingLeft, RootKept
<1>16. SourcesAgree'
  <2>1. \A pr \in Projects : \A k \in DOMAIN deps'[pr] :
          Equiv(deps'[pr][1].dep.id, deps'[pr][k].dep.id)
    BY <1>12 DEF SoundInv, SourcesAgree
  <2> QED
    BY <1>1, <2>1 DEF SourcesAgree
<1>17. CasesAgree'
  <2> SUFFICES ASSUME SpeltOnce(w)
               PROVE  \A pr \in Projects : deps'[pr] # <<>> <=> foldRoots'[CaseFold[pr]] = pr
    BY <1>1 DEF CasesAgree
  <2>1. \A pr \in Projects : deps[pr] # <<>> <=> foldRoots[CaseFold[pr]] = pr
    BY DEF SoundInv, CasesAgree
  <2>2. \A pr \in ProjectRoots : CaseFold[pr] \in ProjectRoots
    BY SolverAssumption
  <2>3. None \notin ProjectRoots
    <3>1. Projects \subseteq Nat
      BY SolverAssumption
    <3> QED
      BY <3>1 DEF ProjectRoots
  <2>4. CASE Len(ds) = 1
    <3>1. \A f \in ProjectRoots : foldRoots'[f] = IF f = CaseFold[q] THEN None ELSE foldRoots[f]
      BY <1>3, <1>8, <2>4
    <3>2. ds # <<>> /\ es = <<>>
      <4>1. ds # <<>>
        BY <1>5, <2>4
      <4>2. Len(es) = 0
        BY <1>4, <2>4, <4>1
      <4> QED
        BY <1>5, <4>1, <4>2
    <3>3. foldRoots[CaseFold[q]] = q
      BY <1>2, <2>1, <3>2
    <3> SUFFICES ASSUME NEW pr \in Projects
                 PROVE  deps'[pr] # <<>> <=> foldRoots'[CaseFold[pr]] = pr
      OBVIOUS
    <3>4. CASE CaseFold[pr] = CaseFold[q]
      <4>1. deps'[pr] = <<>>
        BY <1>7, <1>9, <2>1, <3>2, <3>3, <3>4
      <4> QED
        BY <1>9, <2>2, <2>3, <3>1, <3>4, <4>1
    <3>5. CASE CaseFold[pr] # CaseFold[q]
      BY <1>7, <1>9, <2>1, <2>2, <3>1, <3>5
    <3> QED
      BY <3>4, <3>5
  <2>5. CASE Len(ds) # 1
    <3>1. foldRoots' = foldRoots
      BY <1>8, <2>5
    <3>2. es # <<>> <=> ds # <<>>
      <4> HIDE DEF ds
      <4>1. CASE ds = <<>>
        BY <1>4, <1>5, <4>1
      <4>2. CASE ds # <<>>
        BY <1>4, <1>5, <2>5, <4>2
      <4> QED
        BY <4>1, <4>2
    <3> QED
      BY <1>2, <1>7, <1>9, <2>1, <3>1, <3>2
  <2> QED
    BY <2>4, <2>5
<1>18. Covered'
  <2> SUFFICES ASSUME NEW pr \in Projects, NEW k \in DOMAIN deps'[pr],
                      NEW p \in deps'[pr][k].dep.pl
               PROVE  /\ p[1] = pr
                      /\ \/ \E i \in DOMAIN sel : p \in sel[i].pl
                         \/ \E i \in DOMAIN unsel' : unsel'[i].id.pr = pr /\ p \in unsel'[i].pl
    BY <1>1 DEF Covered
  <2>1. k \in DOMAIN deps[pr] /\ p \in deps[pr][k].dep.pl
    BY <1>12
  <2>2. /\ p[1] = pr
        /\ \/ \E i \in DOMAIN sel : p \in sel[i].pl
           \/ \E i \in DOMAIN unsel : unsel[i].id.pr = pr /\ p \in unsel[i].pl
    BY <2>1 DEF SoundInv, Covered
  <2>3. ~(Len(ds) = 1 /\ pr = q)
    <3> SUFFICES ASSUME Len(ds) = 1, pr = q PROVE FALSE
      OBVIOUS
    <3>1. ds # <<>>
      BY <1>5
    <3>2. Len(es) = 0 /\ deps'[pr] = es
      BY <1>2, <1>4, <1>7, <3>1
    <3> QED
      BY <1>5, <3>2
  <2> QED
    BY <1>13, <2>2, <2>3
<1>19. DepsMirrored'
  <2> SUFFICES ASSUME NEW pr \in Projects
               PROVE  /\ Mirrors(w, IF Pending(pr)' THEN Front(deps'[pr]) ELSE deps'[pr],
                                 RootCount(pr)', Importers(w, sel, pr) \ {}, sel, pr)
                      /\ \A e \in w.root : e.id.pr = pr /\ RootCount(pr)' = 1 =>
                           deps'[pr][1] = [depender |-> RootAtom, dep |-> e]
    BY <1>1 DEF DepsMirrored
  <2>1. /\ Mirrors(w, IF Pending(pr) THEN Front(deps[pr]) ELSE deps[pr],
                   RootCount(pr), Importers(w, sel, pr) \ {}, sel, pr)
        /\ \A e \in w.root : e.id.pr = pr /\ RootCount(pr) = 1 =>
             deps[pr][1] = [depender |-> RootAtom, dep |-> e]
    BY <1>1 DEF SoundInv, DepsMirrored
  <2>2. RootCount(pr)' = RootCount(pr)
    BY <1>1 DEF RootCount
  <2>3. CASE pr # q
    BY <1>7, <1>9, <1>11, <2>1, <2>2, <2>3
  <2>4. CASE pr = q
    <3>1. Mirrors(w, es, RootCount(pr), Importers(w, sel, pr) \ {}, sel, pr)
      BY <1>11, <2>1, <2>4 DEF es
    <3>2. deps'[pr] = es
      BY <1>2, <1>7, <2>4
    <3>3. ASSUME RootCount(pr) = 1 PROVE es[1] = ds[1]
      <4> DEFINE I == Importers(w, sel, pr) \ {}
      <4>1. I \in SUBSET (2..Len(sel)) /\ Len(sel) \in Nat
        BY LenProperties DEF Importers, IInv, TypeOK
      <4> HIDE DEF I
      <4>2. Cardinality(I) \in Nat
        BY <4>1, CountUpTo
      <4>3. Len(es) = 1 + Cardinality(I)
        BY <3>1, <3>3 DEF Mirrors, I
      <4> QED
        BY <1>4, <4>2, <4>3
    <3> QED
      BY <1>11, <2>1, <2>2, <2>4, <3>1, <3>2, <3>3
  <2> QED
    BY <2>3, <2>4
<1> QED
  BY <1>14, <1>15, <1>16, <1>17, <1>18, <1>19 DEF SoundInv

-----------------------------------------------------------------------------
(* The theorems *)

(* A run starts with SoundInv. *)
LEMMA InitSound ==
  ASSUME Init
  PROVE  SoundInv
<1>1. /\ w \in Worlds /\ pc = "selectRoot" /\ sel = <<RootSelected>>
      /\ deps = [pr \in ProjectRoots |-> <<>>]
      /\ foldRoots = [pr \in ProjectRoots |-> None]
      /\ unsel = <<>> /\ todo = w.root
  BY DEF Init
<1>2. Len(sel) = 1 /\ \A i \in 2..Len(sel) : FALSE
  BY <1>1
<1>3. Projects \subseteq ProjectRoots /\ \A pr \in Projects : pr # None
  <2>1. Projects \subseteq Nat
    BY SolverAssumption
  <2> QED
    BY <2>1 DEF ProjectRoots
<1>4. \A pr \in ProjectRoots : deps[pr] = <<>> /\ foldRoots[CaseFold[pr]] = None
  BY <1>1, SolverAssumption
<1>5. \A d \in todo : d.id.pr \in Projects /\ d.pl # {}
  BY <1>1, SolverAssumption
<1>6. PackagesKept
  <2>1. unsel \in Seq(FilledBmis)
    BY <1>1, EmptySeq
  <2> QED
    BY <1>1, <1>2, <1>5, <2>1 DEF PackagesKept
<1>7. TodoKept /\ NothingLeft /\ RootKept
  BY <1>1, <1>2 DEF TodoKept, NothingLeft, RootKept
<1>8. SourcesAgree
  BY <1>3, <1>4, <1>5 DEF SourcesAgree, IdentMatches, HasIdent
<1>9. CasesAgree
  BY <1>3, <1>4, <1>5 DEF CasesAgree, CaseConflict
<1>10. Covered
  BY <1>3, <1>4 DEF Covered
<1>11. DepsMirrored
  <2> SUFFICES ASSUME NEW pr \in Projects
               PROVE  /\ Mirrors(w, <<>>, RootCount(pr), Importers(w, sel, pr) \ {}, sel, pr)
                      /\ RootCount(pr) # 1
    BY <1>1, <1>3, <1>4 DEF DepsMirrored
  <2>1. RootCount(pr) = 0
    BY <1>1 DEF RootCount, Pending
  <2>2. Importers(w, sel, pr) \ {} = {}
    BY <1>2 DEF Importers
  <2>3. Cardinality({}) = 0 /\ Len(<<>>) = 0
    BY FS_EmptySet
  <2>4. Mirrors(w, <<>>, 0, {}, sel, pr)
    BY <2>3 DEF Mirrors
  <2> QED
    BY <2>1, <2>2, <2>4
<1> QED
  BY <1>6, <1>7, <1>8, <1>9, <1>10, <1>11 DEF SoundInv

(* Through selections, package additions, backjumps and retries, what is   *)
(* recorded of the selections is what they import, in their order, and all *)
(* of it is selected or queued.                                            *)
THEOREM RunStateSound == Spec => [](w \in Worlds /\ IInv /\ SoundInv)
<1> DEFINE Inv == w \in Worlds /\ IInv /\ SoundInv
<1>1. Init => Inv
  BY InitEstablishes, InitSound DEF Init
<1>2. Inv /\ IInv' /\ [Next]_vars => Inv'
  <2> SUFFICES ASSUME w \in Worlds, IInv, SoundInv, IInv', [Next]_vars
               PROVE  w' \in Worlds /\ SoundInv'
    OBVIOUS
  <2>0. w' = w
    BY DEF Next, Step, vars, SelectRoot, SelectAtomDep, DepsPushed, CreateVersionQueue,
           AddPackages, ValidVersion, NextVersion, NoVersion, Backtrack, UnselectLast,
           UnselectDep, Unselected, Solved, Canceled
  <2>1. SoundInv'
    BY SelectRootSound, SelectAtomDepSound, AddPackagesSound, ValidVersionSound,
       UnselectLastSound, UnselectDepSound, FrameSteps, SoundStutter DEF Next, Step
  <2> QED
    BY <2>0, <2>1
<1> QED
  BY <1>1, <1>2, RunStateConsistent, PTL DEF Spec

(* In every universe the selection, the dependers, the work queue and the  *)
(* version queues agree, after every selection, package addition, backjump *)
(* and retry of solve() (solver.go:486-618).                               *)
THEOREM SolveInvariant == Spec => []SolveInv
<1>1. w \in Worlds /\ IInv /\ SoundInv => SolveInv
  BY DEF SolveInv
<1> QED
  BY <1>1, RunStateSound, PTL

(* Between iterations nothing is half pushed or half popped. *)
LEMMA MirroredAtRest ==
  ASSUME IInv, SoundInv, pc \notin {"selectRoot", "selectAtom", "popDeps"}, NEW pr \in Projects
  PROVE  /\ Mirrors(w, deps[pr], RootCount(pr), Importers(w, sel, pr), sel, pr)
         /\ RootCount(pr) = IF \E d \in w.root : d.id.pr = pr THEN 1 ELSE 0
         /\ \A d \in w.root : d.id.pr = pr => deps[pr][1] = [depender |-> RootAtom, dep |-> d]
         /\ Importers(w, sel, pr) \in SUBSET (2..Len(sel))
         /\ Len(sel) \in Nat /\ sel \in Seq(Selecteds)
<1>1. ~Pending(pr)
  BY DEF SoundInv, TodoKept, Pending
<1>2. Importers(w, sel, pr) \ {} = Importers(w, sel, pr)
  OBVIOUS
<1>3. Mirrors(w, deps[pr], RootCount(pr), Importers(w, sel, pr), sel, pr)
  BY <1>1, <1>2 DEF SoundInv, DepsMirrored
<1>4. RootCount(pr) = IF \E d \in w.root : d.id.pr = pr THEN 1 ELSE 0
  BY <1>1 DEF RootCount
<1>5. \A d \in w.root : d.id.pr = pr => deps[pr][1] = [depender |-> RootAtom, dep |-> d]
  BY <1>4 DEF SoundInv, DepsMirrored
<1>6. Len(sel) \in Nat /\ sel \in Seq(Selecteds)
  BY LenProperties DEF IInv, TypeOK
<1>7. Importers(w, sel, pr) \in SUBSET (2..Len(sel))
  BY DEF Importers
<1> QED
  BY <1>3, <1>4, <1>5, <1>6, <1>7

(* SoundInv has what DepsMirrorSelection says. *)
LEMMA MirrorsSelection ==
  ASSUME w \in Worlds, IInv, SoundInv
  PROVE  DepsMirrorSelection
<1> SUFFICES ASSUME pc \in {"solve", "backtrack"}, NEW pr \in Projects
             PROVE  LET R == {d \in w.root : d.id.pr = pr}
                        On(i) == {d \in DepsOf(sel[i].a, sel[i].pl) : d.id.pr = pr}
                        E == {i \in 2..Len(sel) : On(i) # {}}
                    IN  /\ Len(deps[pr]) = Cardinality(R) + Cardinality(E)
                        /\ \A i \in E :
                             deps[pr][Cardinality(R) + Cardinality({j \in E : j <= i})] =
                               [depender |-> sel[i].a, dep |-> CHOOSE d \in On(i) : TRUE]
  BY DEF DepsMirrorSelection
<1> DEFINE R == {d \in w.root : d.id.pr = pr}
           On(i) == {d \in DepsOf(sel[i].a, sel[i].pl) : d.id.pr = pr}
           E == {i \in 2..Len(sel) : On(i) # {}}
           I == Importers(w, sel, pr)
<1>1. /\ Mirrors(w, deps[pr], RootCount(pr), I, sel, pr)
      /\ RootCount(pr) = IF \E d \in w.root : d.id.pr = pr THEN 1 ELSE 0
  BY MirroredAtRest
<1>2. Cardinality(R) = RootCount(pr)
  <2>1. CASE R = {}
    <3>1. RootCount(pr) = 0
      BY <1>1, <2>1
    <3> QED
      BY <2>1, <3>1, FS_EmptySet
  <2>2. CASE R # {}
    <3>1. PICK d \in R : TRUE
      BY <2>2
    <3>2. d \in w.root /\ d.id.pr = pr
      OBVIOUS
    <3>3. \A e \in w.root : d.id.pr = e.id.pr => d = e
      BY <3>2, SolverAssumption
    <3>4. R = {d}
      BY <3>2, <3>3
    <3>5. RootCount(pr) = 1
      BY <1>1, <3>2
    <3> QED
      BY <3>4, <3>5, FS_Singleton
  <2> QED
    BY <2>1, <2>2
<1>3. \A i \in 2..Len(sel) :
        /\ On(i) # {} <=> Imports(w, sel[i], pr)
        /\ Imports(w, sel[i], pr) => On(i) = {DepOn(w, sel[i], pr)}
  <2> SUFFICES ASSUME NEW i \in 2..Len(sel)
               PROVE  /\ On(i) # {} <=> Imports(w, sel[i], pr)
                      /\ Imports(w, sel[i], pr) => On(i) = {DepOn(w, sel[i], pr)}
    OBVIOUS
  <2> DEFINE e == sel[i]
             D == DepsOf(e.a, e.pl)
  <2>1. /\ \A q : Imports(w, e, q) => DepOn(w, e, q) \in D
        /\ \A d \in D : Imports(w, e, d.id.pr) /\ d = DepOn(w, e, d.id.pr)
    <3> HIDE DEF e
    <3>1. /\ \A q : Imports(w, e, q) => DepOn(w, e, q) \in DepsOf(e.a, e.pl)
          /\ \A d \in DepsOf(e.a, e.pl) :
               Imports(w, e, d.id.pr) /\ d = DepOn(w, e, d.id.pr) /\ d.pl # {}
      BY DepsOfAtom
    <3> QED
      BY <3>1
  <2>2. DepOn(w, e, pr).id.pr = pr
    BY DEF DepOn
  <2>3. On(i) = {d \in D : d.id.pr = pr}
    OBVIOUS
  <2> HIDE DEF D, e, On
  <2>4. ASSUME Imports(w, e, pr) PROVE On(i) = {DepOn(w, e, pr)}
    BY <2>1, <2>2, <2>3, <2>4
  <2>5. ASSUME On(i) # {} PROVE Imports(w, e, pr)
    BY <2>1, <2>3, <2>5
  <2> QED
    BY <2>4, <2>5 DEF e
<1>4. E = I
  BY <1>3 DEF Importers
<1>5. \A i \in I : [depender |-> sel[i].a, dep |-> CHOOSE d \in On(i) : TRUE] = Record(w, sel[i], pr)
  <2> SUFFICES ASSUME NEW i \in I
               PROVE  (CHOOSE d \in On(i) : TRUE) = DepOn(w, sel[i], pr)
    BY DEF Record
  <2>1. On(i) = {DepOn(w, sel[i], pr)}
    BY <1>3 DEF Importers
  <2> HIDE DEF On
  <2> QED
    BY <2>1
<1> HIDE DEF I, E, R, On
<1>6. /\ Len(deps[pr]) = Cardinality(R) + Cardinality(E)
      /\ \A i \in E : deps[pr][Cardinality(R) + Cardinality({j \in E : j <= i})] =
                        [depender |-> sel[i].a, dep |-> CHOOSE d \in On(i) : TRUE]
  BY <1>1, <1>2, <1>4, <1>5 DEF Mirrors
<1> QED
  BY <1>6 DEF E, R, On

(* Dropping the last entry of s.sel.deps is dropping the entry of the atom *)
(* that is unselected: between iterations the dependers on a project are   *)
(* the root and the selections that import it, in selection order.         *)
THEOREM DepsAlwaysMirrorSelection == Spec => []DepsMirrorSelection
<1>1. w \in Worlds /\ IInv /\ SoundInv => DepsMirrorSelection
  BY MirrorsSelection
<1> QED
  BY <1>1, RunStateSound, PTL

(* Backtracking loses no work: every package somebody requires is selected *)
(* or on the queue.                                                        *)
THEOREM RequiredAlwaysCovered == Spec => []RequiredCovered
<1>1. SoundInv => RequiredCovered
  BY DEF SoundInv, Covered, RequiredCovered
<1> QED
  BY <1>1, RunStateSound, PTL

(* Of the roots that differ only in case at most one has dependers, unless *)
(* one importer spells a root both ways.                                   *)
THEOREM OneCaseVariantAlways == Spec => []OneCaseVariant
<1>1. SoundInv => OneCaseVariant
  BY DEF SoundInv, CasesAgree, OneCaseVariant
<1> QED
  BY <1>1, RunStateSound, PTL

(* The selections of a solved run, and what SolutionPackages and           *)
(* SolutionVersions make of them.                                          *)
LEMMA SolutionFacts ==
  ASSUME w \in Worlds, IInv, SoundInv, NEW i \in 2..Len(sel), NEW p \in sel[i].pl
  PROVE  /\ p \in Packages /\ p[1] = sel[i].a.id.pr /\ p[1] \in Projects
         /\ SolutionVersions[p[1]] = sel[i].a.v
         /\ sel[i].a.v \in Versions /\ IsSelected(sel, p[1]) /\ p \in SolutionPackages
         /\ w.reach[p][sel[i].a.v].ok
         /\ w.reach[p][sel[i].a.v] \in [ok: BOOLEAN, in: SUBSET Packages, ex: SUBSET Packages]
<1>1. /\ sel \in Seq(Selecteds) /\ Len(sel) \in Nat /\ DOMAIN sel = 1..Len(sel)
      /\ i \in 1..Len(sel)
  BY LenProperties DEF IInv, TypeOK
<1>2. sel[i] \in Selecteds /\ sel[i].a \in DepAtoms /\ Owned(sel[i].a.id.pr, sel[i].pl)
      /\ ImportsOk(sel[i].a, sel[i].pl)
  BY <1>1, ElementOfSeq DEF IInv, SelectionSane, PackagesOwned
<1>3. p \in Packages /\ p[1] = sel[i].a.id.pr /\ p[1] \in Projects /\ sel[i].a.v \in Versions
      /\ w.reach[p][sel[i].a.v].ok
  BY <1>2, DepAtomType DEF Selecteds, Owned, ImportsOk
<1>4. IsSelected(sel, p[1])
  BY <1>1, <1>3 DEF IsSelected
<1>5. PICK j \in 1..Len(sel) : sel[j].a.id.pr = p[1] /\ SelectedVersion(sel, p[1]) = sel[j].a.v
  BY <1>1, <1>4, SelectedVersionOnStack
<1>6. sel[j].a.v = sel[i].a.v
  BY <1>1, <1>3, <1>5 DEF IInv, OneVersion
<1>7. SolutionVersions[p[1]] = sel[i].a.v
  BY <1>3, <1>4, <1>5, <1>6 DEF SolutionVersions
<1>8. p \in SolutionPackages
  BY DEF SolutionPackages
<1>9. w.reach[p][sel[i].a.v] \in [ok: BOOLEAN, in: SUBSET Packages, ex: SUBSET Packages]
  BY <1>3, WorldFacts DEF WorldType
<1> QED
  BY <1>3, <1>4, <1>7, <1>8, <1>9

(* Between iterations what the root and the selections import is recorded. *)
LEMMA ImportRecorded ==
  ASSUME IInv, SoundInv, pc \notin {"selectRoot", "selectAtom", "popDeps"}, NEW pr \in Projects
  PROVE  /\ \A d \in w.root : d.id.pr = pr => 1 \in DOMAIN deps[pr] /\ deps[pr][1].dep = d
         /\ \A i \in 2..Len(sel) : Imports(w, sel[i], pr) =>
              \E k \in DOMAIN deps[pr] : deps[pr][k] = Record(w, sel[i], pr)
<1> DEFINE ds == deps[pr]
           I == Importers(w, sel, pr)
           m == RootCount(pr)
           n == Len(sel)
<1>1. /\ Mirrors(w, ds, m, I, sel, pr)
      /\ m = IF \E d \in w.root : d.id.pr = pr THEN 1 ELSE 0
      /\ \A d \in w.root : d.id.pr = pr => ds[1] = [depender |-> RootAtom, dep |-> d]
      /\ I \in SUBSET (2..n) /\ n \in Nat
  BY MirroredAtRest
<1>2. DOMAIN ds = 1..Len(ds) /\ Len(ds) \in Nat
  BY LenProperties DEF ProjectRoots, IInv, TypeOK
<1>3. \A i \in 2..n : Imports(w, sel[i], pr) => i \in I
  BY DEF Importers
<1>4. m \in Nat
  BY <1>1
<1> HIDE DEF ds, I, m, n
<1>5. Cardinality(I) \in Nat
  BY <1>1, CountUpTo
<1>6. Len(ds) = m + Cardinality(I)
  BY <1>1 DEF Mirrors
<1>7. ASSUME NEW d \in w.root, d.id.pr = pr
      PROVE  1 \in DOMAIN ds /\ ds[1].dep = d
  <2>1. m = 1
    BY <1>1, <1>7
  <2>2. 1 \in 1..Len(ds)
    BY <1>5, <1>6, <2>1
  <2>3. ds[1] = [depender |-> RootAtom, dep |-> d]
    BY <1>1, <1>7
  <2>4. ds[1].dep = d
    BY <2>3
  <2> QED
    BY <1>2, <2>2, <2>4
<1>8. ASSUME NEW i \in 2..n, Imports(w, sel[i], pr)
      PROVE  \E k \in DOMAIN ds : ds[k] = Record(w, sel[i], pr)
  <2>1. i \in I
    BY <1>3, <1>8
  <2> DEFINE k == Cardinality({j \in I : j <= i})
  <2>2. k \in 1..Cardinality(I)
    BY <1>1, <2>1, CountUpTo
  <2>3. ds[m + k] = Record(w, sel[i], pr)
    BY <1>1, <2>1 DEF Mirrors
  <2> HIDE DEF k
  <2>4. m + k \in 1..Len(ds)
    BY <1>4, <1>5, <1>6, <2>2
  <2> QED
    BY <1>2, <2>3, <2>4
<1> QED
  BY <1>7, <1>8 DEF ds, n

(* Each rule that the packages of a solution activate is recorded among    *)
(* the dependencies on its project.                                        *)
LEMMA RulesRecorded ==
  ASSUME w \in Worlds, IInv, SoundInv, pc = "solved", NEW pr \in Projects,
         NEW r \in ActiveRules(w, SolutionVersions, SolutionPackages, pr)
  PROVE  \E k \in DOMAIN deps[pr] : /\ r.c = deps[pr][k].dep.c
                                    /\ r.src = deps[pr][k].dep.id.src
<1> DEFINE f == SolutionVersions
           S == SolutionPackages
<1>1. CASE \E d \in w.root : d.id.pr = pr /\ r = [c |-> d.c, src |-> d.id.src]
  <2>1. PICK d \in w.root : d.id.pr = pr /\ r = [c |-> d.c, src |-> d.id.src]
    BY <1>1
  <2>2. 1 \in DOMAIN deps[pr] /\ deps[pr][1].dep = d
    BY <2>1, ImportRecorded
  <2> QED
    BY <2>1, <2>2
<1>2. CASE \E x \in S : /\ \E y \in w.reach[x][f[x[1]]].ex : y[1] = pr
                        /\ r = w.cons[x[1]][f[x[1]]][pr]
  <2>1. PICK x \in S : /\ \E y \in w.reach[x][f[x[1]]].ex : y[1] = pr
                       /\ r = w.cons[x[1]][f[x[1]]][pr]
    BY <1>2
  <2>2. PICK i \in 2..Len(sel) : x \in sel[i].pl
    BY DEF SolutionPackages
  <2>3. x[1] = sel[i].a.id.pr /\ f[x[1]] = sel[i].a.v
    BY <2>2, SolutionFacts
  <2>4. Imports(w, sel[i], pr)
    BY <2>1, <2>2, <2>3 DEF Externals, Imports
  <2>5. PICK k \in DOMAIN deps[pr] : deps[pr][k] = Record(w, sel[i], pr)
    BY <2>4, ImportRecorded
  <2>6. /\ Record(w, sel[i], pr).dep.c = w.cons[sel[i].a.id.pr][sel[i].a.v][pr].c
        /\ Record(w, sel[i], pr).dep.id.src = w.cons[sel[i].a.id.pr][sel[i].a.v][pr].src
    BY DEF Record, DepOn
  <2> QED
    BY <2>1, <2>3, <2>5, <2>6
<1>3. \/ \E d \in w.root : d.id.pr = pr /\ r = [c |-> d.c, src |-> d.id.src]
      \/ \E x \in S : /\ \E y \in w.reach[x][f[x[1]]].ex : y[1] = pr
                      /\ r = w.cons[x[1]][f[x[1]]][pr]
  <2> HIDE DEF f, S
  <2>1. r \in ActiveRules(w, f, S, pr)
    BY DEF f, S
  <2> QED
    BY <2>1 DEF ActiveRules
<1> QED
  BY <1>1, <1>2, <1>3

(* What a solution's packages import is in the solution. *)
LEMMA SolutionClosed ==
  ASSUME w \in Worlds, IInv, SoundInv, pc = "solved"
  PROVE  ImportClosed(w, SolutionVersions, SolutionPackages)
<1> DEFINE f == SolutionVersions
           S == SolutionPackages
<1>1. ASSUME NEW pr \in Projects, NEW k \in DOMAIN deps[pr], NEW p \in deps[pr][k].dep.pl
      PROVE  p \in S
  <2>1. \/ \E i \in DOMAIN sel : p \in sel[i].pl
        \/ \E i \in DOMAIN unsel : unsel[i].id.pr = pr /\ p \in unsel[i].pl
    BY <1>1 DEF SoundInv, Covered
  <2>2. DOMAIN unsel = {}
    BY DEF SoundInv, NothingLeft
  <2>3. PICK i \in DOMAIN sel : p \in sel[i].pl
    BY <2>1, <2>2
  <2>4. DOMAIN sel = 1..Len(sel) /\ Len(sel) \in Nat
    BY LenProperties DEF IInv, TypeOK
  <2>5. i # 1
    BY <2>3 DEF IInv, SelectionSane, RootSelected
  <2>6. i \in 2..Len(sel)
    BY <2>3, <2>4, <2>5
  <2> QED
    BY <2>3, <2>6 DEF SolutionPackages
<1>2. ASSUME NEW d \in w.root PROVE d.pl \subseteq S
  <2>1. d.id.pr \in Projects
    BY SolverAssumption
  <2>2. 1 \in DOMAIN deps[d.id.pr] /\ deps[d.id.pr][1].dep = d
    BY <2>1, ImportRecorded
  <2> QED
    BY <1>1, <2>1, <2>2
<1>3. ASSUME NEW p \in S
      PROVE  /\ p \in w.has[f[p[1]]]
             /\ w.reach[p][f[p[1]]].ok
             /\ w.reach[p][f[p[1]]].in \subseteq S
             /\ {x \in w.reach[p][f[p[1]]].ex : x[1] # Root} \subseteq S
  <2>1. PICK i \in 2..Len(sel) : p \in sel[i].pl
    BY DEF SolutionPackages
  <2> DEFINE v == sel[i].a.v
  <2>2. /\ p \in Packages /\ p[1] = sel[i].a.id.pr /\ p[1] \in Projects /\ f[p[1]] = v
        /\ v \in Versions /\ w.reach[p][v].ok
        /\ w.reach[p][v] \in [ok: BOOLEAN, in: SUBSET Packages, ex: SUBSET Packages]
    BY <2>1, SolutionFacts
  <2>3. p \in w.has[v]
    BY <2>2, SolverAssumption
  <2>4. w.reach[p][v].in \subseteq S
    <3>1. w.reach[p][v].in \subseteq sel[i].pl
      BY <2>1 DEF SoundInv, PackagesKept
    <3> QED
      BY <3>1 DEF SolutionPackages
  <2>5. ASSUME NEW x \in w.reach[p][v].ex, x[1] # Root PROVE x \in S
    <3> DEFINE pr == x[1]
    <3>1. pr \in Projects
      <4>1. x \in Packages
        BY <2>2
      <4> QED
        BY <2>5, <4>1 DEF Packages, ProjectRoots
    <3>2. x \in Externals(w, sel[i])
      BY <2>1 DEF Externals
    <3>3. Imports(w, sel[i], pr)
      BY <3>2 DEF Imports
    <3> HIDE DEF pr
    <3>4. PICK k \in DOMAIN deps[pr] : deps[pr][k] = Record(w, sel[i], pr)
      BY <3>1, <3>3, ImportRecorded
    <3>5. Record(w, sel[i], pr).dep.pl = {y \in Externals(w, sel[i]) : y[1] = pr}
      BY DEF Record, DepOn
    <3>6. x \in deps[pr][k].dep.pl
      BY <3>2, <3>4, <3>5 DEF pr
    <3> QED
      BY <1>1, <3>1, <3>4, <3>6
  <2> QED
    BY <2>2, <2>3, <2>4, <2>5
<1> HIDE DEF f, S
<1>4. ImportClosed(w, f, S)
  BY <1>2, <1>3 DEF ImportClosed
<1> QED
  BY <1>4 DEF f, S

(* A solution breaks no rule that its packages activate. *)
LEMMA SolutionKeepsRules ==
  ASSUME w \in Worlds, IInv, SoundInv, pc = "solved"
  PROVE  RulesKept(w, SolutionVersions, SolutionPackages)
<1> DEFINE f == SolutionVersions
           S == SolutionPackages
<1>1. ASSUME NEW pr \in ProjectsOf(S), NEW r \in ActiveRules(w, f, S, pr)
      PROVE  f[pr] \in r.c
  <2>1. PICK p \in S : p[1] = pr
    BY DEF ProjectsOf
  <2>2. PICK i \in 2..Len(sel) : p \in sel[i].pl
    BY DEF SolutionPackages
  <2>3. pr = sel[i].a.id.pr /\ pr \in Projects /\ f[pr] = sel[i].a.v
    BY <2>1, <2>2, SolutionFacts
  <2>4. PICK k \in DOMAIN deps[pr] : r.c = deps[pr][k].dep.c
    BY <2>3, RulesRecorded
  <2> QED
    BY <2>3, <2>4 DEF IInv, SelectedAllowed
<1>2. ASSUME NEW x \in S, NEW y \in w.reach[x][f[x[1]]].ex, y[1] = Root
      PROVE  RootVersion \in w.cons[x[1]][f[x[1]]][Root].c /\ y \in w.rootPkgs
  <2>1. PICK i \in 2..Len(sel) : x \in sel[i].pl
    BY DEF SolutionPackages
  <2>2. x[1] = sel[i].a.id.pr /\ f[x[1]] = sel[i].a.v
    BY <2>1, SolutionFacts
  <2>3. y \in Externals(w, sel[i])
    BY <2>1, <2>2 DEF Externals
  <2>4. Imports(w, sel[i], Root)
    BY <1>2, <2>3 DEF Imports
  <2>5. /\ RootVersion \in DepOn(w, sel[i], Root).c
        /\ DepOn(w, sel[i], Root).pl \subseteq w.rootPkgs
    BY <2>4 DEF SoundInv, RootKept
  <2>6. /\ DepOn(w, sel[i], Root).c = w.cons[sel[i].a.id.pr][sel[i].a.v][Root].c
        /\ DepOn(w, sel[i], Root).pl = {z \in Externals(w, sel[i]) : z[1] = Root}
    BY DEF DepOn
  <2> QED
    BY <1>2, <2>2, <2>3, <2>5, <2>6
<1> HIDE DEF f, S
<1>3. ASSUME NEW r \in ActiveRules(w, f, S, Root) PROVE RootVersion \in r.c
  <2>1. \A d \in w.root : d.id.pr # Root
    <3>1. Root \notin Projects
      BY SolverAssumption
    <3> QED
      BY <3>1, SolverAssumption
  <2>2. PICK x \in S : /\ \E y \in w.reach[x][f[x[1]]].ex : y[1] = Root
                       /\ r = w.cons[x[1]][f[x[1]]][Root]
    BY <2>1 DEF ActiveRules
  <2> QED
    BY <1>2, <2>2
<1>4. RulesKept(w, f, S)
  <2>1. \A p \in S : {x \in w.reach[p][f[p[1]]].ex : x[1] = Root} \subseteq w.rootPkgs
    BY <1>2
  <2> QED
    BY <1>1, <1>3, <2>1 DEF RulesKept
<1> QED
  BY <1>4 DEF f, S

(* The rules on a project name one source at most. *)
LEMMA SolutionHasOneSource ==
  ASSUME w \in Worlds, IInv, SoundInv, pc = "solved"
  PROVE  OneSource(w, SolutionVersions, SolutionPackages)
<1> DEFINE f == SolutionVersions
           S == SolutionPackages
<1>1. ASSUME NEW pr \in ProjectsOf(S)
      PROVE  Cardinality({r.src : r \in ActiveRules(w, f, S, pr)} \ {NoSource}) <= 1
  <2>1. PICK p \in S : p[1] = pr
    BY DEF ProjectsOf
  <2>2. PICK i \in 2..Len(sel) : p \in sel[i].pl
    BY DEF SolutionPackages
  <2>3. pr \in Projects
    BY <2>1, <2>2, SolutionFacts
  <2> DEFINE A == ActiveRules(w, f, S, pr)
             T == {r.src : r \in A} \ {NoSource}
             src == deps[pr][1].dep.id.src
  <2>4. \A r \in A : r.src \in {src, NoSource}
    <3> SUFFICES ASSUME NEW r \in A PROVE r.src \in {src, NoSource}
      OBVIOUS
    <3>1. PICK k \in DOMAIN deps[pr] : r.src = deps[pr][k].dep.id.src
      BY <2>3, RulesRecorded
    <3>2. Equiv(deps[pr][1].dep.id, deps[pr][k].dep.id)
      BY <2>3 DEF SoundInv, SourcesAgree
    <3> QED
      BY <3>1, <3>2 DEF Equiv
  <2> HIDE DEF A, src
  <2>5. T \subseteq {src}
    BY <2>4
  <2>6. Cardinality(T) <= 1
    <3> HIDE DEF T
    <3>1. IsFiniteSet({src}) /\ Cardinality({src}) = 1
      BY FS_Singleton
    <3>2. Cardinality(T) <= Cardinality({src}) /\ Cardinality(T) \in Nat
      BY <2>5, <3>1, FS_Subset, FS_CardinalityType
    <3> QED
      BY <3>1, <3>2
  <2> QED
    BY <2>6 DEF A
<1> HIDE DEF f, S
<1>2. OneSource(w, f, S)
  BY <1>1 DEF OneSource
<1> QED
  BY <1>2 DEF f, S

(* A solution satisfies every constraint its packages activate, contains   *)
(* every package they import, and has each project from one source and,    *)
(* but for the two exceptions SolutionSound names, in one case: whatever   *)
(* the universe, and however much the run backtracked before it was        *)
(* solved.                                                                 *)
THEOREM SolutionsAreSound == Spec => []SolutionSound
<1>1. ASSUME w \in Worlds, IInv, SoundInv PROVE SolutionSound
  <2> SUFFICES ASSUME pc = "solved" PROVE SolutionSound
    BY DEF SolutionSound
  <2>1. /\ ImportClosed(w, SolutionVersions, SolutionPackages)
        /\ RulesKept(w, SolutionVersions, SolutionPackages)
        /\ OneSource(w, SolutionVersions, SolutionPackages)
    BY <1>1, SolutionClosed, SolutionKeepsRules, SolutionHasOneSource
  <2>2. \A pr \in ProjectsOf(SolutionPackages) : pr \in Projects /\ IsSelected(sel, pr)
    <3> SUFFICES ASSUME NEW p \in SolutionPackages
                 PROVE  p[1] \in Projects /\ IsSelected(sel, p[1])
      BY DEF ProjectsOf
    <3>1. PICK i \in 2..Len(sel) : p \in sel[i].pl
      BY DEF SolutionPackages
    <3> QED
      BY <1>1, <3>1, SolutionFacts
  <2>3. ASSUME SpeltOnce(w), \A pr \in ProjectsOf(SolutionPackages) : deps[pr] # <<>>
        PROVE  OneCase(SolutionPackages)
    <3>1. \A pr \in ProjectsOf(SolutionPackages) : foldRoots[CaseFold[pr]] = pr
      BY <1>1, <2>2, <2>3 DEF SoundInv, CasesAgree
    <3> QED
      BY <3>1 DEF OneCase
  <2>4. ASSUME NEW pr \in Projects, IsSelected(sel, pr)
        PROVE  pr \in ProjectsOf(SolutionPackages)
    <3>1. DOMAIN sel = 1..Len(sel) /\ Len(sel) \in Nat
      BY <1>1, LenProperties DEF IInv, TypeOK
    <3>2. PICK i \in 1..Len(sel) : sel[i].a.id.pr = pr
      BY <2>4, <3>1 DEF IsSelected
    <3>3. pr # Root
      BY SolverAssumption
    <3>4. i # 1
      BY <1>1, <3>2, <3>3 DEF IInv, SelectionSane, RootSelected, RootAtom
    <3>5. i \in 2..Len(sel)
      BY <3>1, <3>4
    <3>6. PICK p \in sel[i].pl : TRUE
      BY <1>1, <3>5 DEF SoundInv, PackagesKept
    <3>7. p[1] = pr /\ p \in SolutionPackages
      BY <1>1, <3>2, <3>5, SolutionFacts
    <3> QED
      BY <3>7 DEF ProjectsOf
  <2>5. ProjectsOf(SolutionPackages) = {p \in Projects : IsSelected(sel, p)}
    BY <2>2, <2>4
  <2> QED
    BY <2>1, <2>3, <2>5 DEF SolutionSound
<1> QED
  BY <1>1, RunStateSound, PTL
=============================================================================
