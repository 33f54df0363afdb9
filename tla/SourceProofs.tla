---------------------------- MODULE SourceProofs ----------------------------
(***************************************************************************)
(* The coordinator, for any number of threads and any names, foldings and  *)
(* URLs: getSourceGatewayFor() reaches none of its panics, and nobody      *)
(* waits for an answer that no thread is at work on.  If the names asked   *)
(* for differ in case where their URLs do, a source has one gateway.       *)
(*                                                                         *)
(* The gateway it hands out, for any versions, revisions and kinds of      *)
(* source, and any number of pushes, failing commands and restarts: its    *)
(* bits are true, its version list is upstream's, what it has cached for a *)
(* revision was read from it, and what upstream has all the time is        *)
(* answered.                                                               *)
(***************************************************************************)
EXTENDS SourceCoordinator, SourceGateway, TLAPS

-----------------------------------------------------------------------------
(* The coordinator. *)

(* Every URL that is recorded, or about to be, has its gateway.            *)
MapsAgree ==
  /\ \A n \in Names : nameToURL[n] # None => srcs[nameToURL[n]] # None
  /\ \A t \in Threads : pc[t] = "upgrade" => url[t] \in Names /\ srcs[url[t]] # None
  /\ \A t \in Threads : pc[t] = "register" => url[t] \in Names
  /\ NoPanic

(* protoSrcs holds the folded names that one thread each is at work on.    *)
ProtoOwned ==
  /\ \A n \in protoSrcs : \E w \in Threads : pc[w] \in Working /\ Folded(w) = n
  /\ \A w \in Threads : pc[w] \in Working => Folded(w) \in protoSrcs
  /\ \A v, w \in Threads :
       pc[v] \in Working /\ pc[w] \in Working /\ Folded(v) = Folded(w) => v = w

(* Whoever waits is on the list of a folded name that is worked on.        *)
Listed ==
  \A t \in Threads : pc[t] = "await" /\ got[t] = None =>
    Folded(t) \in protoSrcs /\ t \in waiting[Folded(t)]

CoordInv == TypeOK /\ MapsAgree /\ ProtoOwned /\ Listed

-----------------------------------------------------------------------------
(* The folded name a thread asks for is a name. *)
LEMMA FoldedType ==
  ASSUME TypeOK, NEW t \in Threads
  PROVE  Folded(t) \in Names
  BY SourceCoordinatorAssumption DEF TypeOK, Folded

(* newSourceCoordinator() starts with empty maps. *)
LEMMA CoordInit == CoordinatorInit => CoordInv
  BY SourceCoordinatorAssumption
     DEF CoordinatorInit, CoordInv, TypeOK, MapsAgree, NoPanic, ProtoOwned, Listed, Working

(* A thread that is neither at work nor going to work nor going to wait    *)
(* leaves the work in progress as it is.                                   *)
LEMMA WorkKept ==
  ASSUME CoordInv, TypeOK', NEW t \in Threads,
         NEW there \in {"start", "upgrade", "proto", "done", "panic"},
         pc[t] \notin Working, GoTo(t, there),
         UNCHANGED <<protoSrcs, waiting, name>>,
         \A x \in Threads \ {t} : got'[x] = got[x]
  PROVE  ProtoOwned' /\ Listed'
<1>1. /\ pc'[t] = there
      /\ \A x \in Threads \ {t} : pc'[x] = pc[x]
  BY DEF GoTo, CoordInv, TypeOK
<1>2. \A x \in Threads : Folded(x)' = Folded(x)
  BY DEF Folded
<1>3. \A x \in Threads : pc'[x] \in Working <=> pc[x] \in Working
  BY <1>1 DEF Working
<1>4. ProtoOwned'
  BY <1>2, <1>3 DEF CoordInv, ProtoOwned
<1>5. Listed'
  BY <1>1, <1>2 DEF CoordInv, Listed
<1> QED BY <1>4, <1>5

(* A thread that goes on with its work. *)
LEMMA WorkGoesOn ==
  ASSUME CoordInv, NEW t \in Threads, NEW there \in Working,
         pc[t] \in Working, GoTo(t, there),
         UNCHANGED <<protoSrcs, waiting, name, got>>
  PROVE  ProtoOwned' /\ Listed'
<1>1. /\ pc'[t] = there
      /\ \A x \in Threads \ {t} : pc'[x] = pc[x]
  BY DEF GoTo, CoordInv, TypeOK
<1>2. \A x \in Threads : Folded(x)' = Folded(x)
  BY DEF Folded
<1>3. \A x \in Threads : pc'[x] \in Working <=> pc[x] \in Working
  BY <1>1
<1>4. ProtoOwned'
  BY <1>2, <1>3 DEF CoordInv, ProtoOwned
<1>5. Listed'
  BY <1>1, <1>2 DEF CoordInv, Listed, Working
<1> QED BY <1>4, <1>5

(* doReturn() answers everybody on the list before the list is dropped.    *)
LEMMA DoReturnKeeps ==
  ASSUME CoordInv, NEW t \in Threads, NEW answer \in Threads \cup {"error"},
         pc[t] \in Working, DoReturn(t, answer), UNCHANGED name
  PROVE  /\ ProtoOwned' /\ Listed'
         /\ protoSrcs' \subseteq Names
         /\ waiting' \in [Names -> SUBSET Threads]
         /\ got' \in [Threads -> Threads \cup {None, "error"}]
<1>1. /\ pc'[t] = "done"
      /\ \A x \in Threads \ {t} : pc'[x] = pc[x]
  BY DEF DoReturn, GoTo, CoordInv, TypeOK
<1>2. \A x \in Threads : Folded(x)' = Folded(x) /\ Folded(x) \in Names
  BY FoldedType DEF Folded, CoordInv
<1>3. \A x \in Threads : pc'[x] \in Working <=> pc[x] \in Working /\ x # t
  BY <1>1 DEF Working
<1>4. ProtoOwned'
  <2>1. \A n \in protoSrcs' : \E w \in Threads : pc'[w] \in Working /\ Folded(w)' = n
    BY <1>2, <1>3 DEF CoordInv, ProtoOwned, DoReturn
  <2>2. \A w \in Threads : pc'[w] \in Working => Folded(w)' \in protoSrcs'
    BY <1>2, <1>3 DEF CoordInv, ProtoOwned, DoReturn
  <2>3. \A v, w \in Threads :
          pc'[v] \in Working /\ pc'[w] \in Working /\ Folded(v)' = Folded(w)' => v = w
    BY <1>2, <1>3 DEF CoordInv, ProtoOwned
  <2> QED BY <2>1, <2>2, <2>3 DEF ProtoOwned
<1>5. Listed'
  <2>1. SUFFICES ASSUME NEW x \in Threads, pc'[x] = "await", got'[x] = None
                 PROVE  Folded(x)' \in protoSrcs' /\ x \in waiting'[Folded(x)']
    BY DEF Listed
  <2>2. x # t /\ pc[x] = "await"
    BY <1>1, <2>1
  <2>3. answer # None
    BY SourceCoordinatorAssumption
  <2>4. x \notin waiting[Folded(t)] /\ got[x] = None
    BY <2>1, <2>2, <2>3 DEF DoReturn
  <2>5. Folded(x) \in protoSrcs /\ x \in waiting[Folded(x)]
    BY <2>2, <2>4 DEF CoordInv, Listed
  <2> QED BY <1>2, <2>4, <2>5 DEF DoReturn, CoordInv, TypeOK
<1> QED BY <1>2, <1>4, <1>5 DEF DoReturn, CoordInv, TypeOK

(* The maps do not change, and no URL is picked up. *)
LEMMA MapsKept ==
  ASSUME CoordInv, NEW t \in Threads,
         NEW there \in {"proto", "await", "deduce", "recheck", "try", "done"},
         GoTo(t, there), UNCHANGED <<maps, url>>
  PROVE  MapsAgree'
  BY DEF CoordInv, TypeOK, MapsAgree, NoPanic, GoTo, maps

(* A URL from nameToURL has its gateway, so that gateway is returned.      *)
LEMMA FoundReturns ==
  ASSUME CoordInv, NEW t \in Threads, NEW u \in Names, srcs[u] # None, Found(t, u)
  PROVE  /\ GoTo(t, "done")
         /\ got' = [got EXCEPT ![t] = srcs[u]]
         /\ srcs[u] \in Threads
  BY DEF Found, CoordInv, TypeOK

(* The first look at the maps. *)
LEMMA LookupKeeps ==
  ASSUME CoordInv, NEW t \in Threads, Lookup(t)
  PROVE  CoordInv'
<1>1. name[t] \in Names /\ Folded(t) \in Names /\ pc[t] = "start"
  BY FoldedType DEF CoordInv, TypeOK, Lookup
<1>2. CASE GoTo(t, "done") /\ got' = [got EXCEPT ![t] = "error"] /\ UNCHANGED url
  <2>1. TypeOK'
    BY <1>2 DEF Lookup, CoordInv, TypeOK, GoTo, maps
  <2>2. MapsAgree'
    BY <1>2, MapsKept DEF Lookup
  <2>3. ProtoOwned' /\ Listed'
    BY <1>1, <1>2, <2>1, WorkKept DEF Lookup, CoordInv, TypeOK, Working
  <2> QED BY <2>1, <2>2, <2>3 DEF CoordInv
<1>3. CASE nameToURL[name[t]] # None /\ Found(t, nameToURL[name[t]]) /\ UNCHANGED url
  <2>1. /\ GoTo(t, "done")
        /\ got' = [got EXCEPT ![t] = srcs[nameToURL[name[t]]]]
        /\ srcs[nameToURL[name[t]]] \in Threads
    <3>1. nameToURL[name[t]] \in Names /\ srcs[nameToURL[name[t]]] # None
      BY <1>1, <1>3 DEF CoordInv, TypeOK, MapsAgree
    <3> QED BY <1>3, <3>1, FoundReturns
  <2>2. TypeOK'
    BY <1>3, <2>1 DEF Lookup, CoordInv, TypeOK, GoTo, maps
  <2>3. MapsAgree'
    BY <1>3, <2>1, MapsKept DEF Lookup
  <2>4. ProtoOwned' /\ Listed'
    BY <1>1, <1>3, <2>1, <2>2, WorkKept DEF Lookup, CoordInv, TypeOK, Working
  <2> QED BY <2>2, <2>3, <2>4 DEF CoordInv
<1>4. CASE /\ nameToURL[Folded(t)] # None
           /\ url' = [url EXCEPT ![t] = nameToURL[Folded(t)]]
           /\ GoTo(t, "upgrade") /\ UNCHANGED got
  <2>1. nameToURL[Folded(t)] \in Names /\ srcs[nameToURL[Folded(t)]] # None
    BY <1>1, <1>4 DEF CoordInv, TypeOK, MapsAgree
  <2>2. TypeOK'
    BY <1>4, <2>1 DEF Lookup, CoordInv, TypeOK, GoTo, maps
  <2>3. MapsAgree'
    BY <1>4, <2>1 DEF Lookup, CoordInv, TypeOK, MapsAgree, NoPanic, GoTo, maps
  <2>4. ProtoOwned' /\ Listed'
    BY <1>1, <1>4, <2>2, WorkKept DEF Lookup, Working
  <2> QED BY <2>2, <2>3, <2>4 DEF CoordInv
<1>5. CASE GoTo(t, "proto") /\ UNCHANGED <<got, url>>
  <2>1. TypeOK'
    BY <1>5 DEF Lookup, CoordInv, TypeOK, GoTo, maps
  <2>2. MapsAgree'
    BY <1>5, MapsKept DEF Lookup
  <2>3. ProtoOwned' /\ Listed'
    BY <1>1, <1>5, <2>1, WorkKept DEF Lookup, Working
  <2> QED BY <2>1, <2>2, <2>3 DEF CoordInv
<1> QED BY <1>2, <1>3, <1>4, <1>5 DEF Lookup

(* The URL found before the write lock still has its gateway under it.     *)
LEMMA UpgradeKeeps ==
  ASSUME CoordInv, NEW t \in Threads, Upgrade(t)
  PROVE  CoordInv'
<1>1. url[t] \in Names /\ srcs[url[t]] # None /\ name[t] \in Names
  BY DEF Upgrade, CoordInv, MapsAgree, TypeOK
<1>2. GoTo(t, "done") /\ got' = [got EXCEPT ![t] = srcs[url[t]]] /\ srcs[url[t]] \in Threads
  BY <1>1, FoundReturns DEF Upgrade
<1>3. TypeOK'
  BY <1>1, <1>2 DEF Upgrade, CoordInv, TypeOK, GoTo
<1>4. MapsAgree'
  BY <1>1, <1>2 DEF Upgrade, CoordInv, TypeOK, MapsAgree, NoPanic, GoTo
<1>5. ProtoOwned' /\ Listed'
  BY <1>2, <1>3, WorkKept DEF Upgrade, CoordInv, TypeOK, Working
<1> QED BY <1>3, <1>4, <1>5 DEF CoordInv

(* A thread joins the one at work, or is the only one to start.            *)
LEMMA ProtoKeeps ==
  ASSUME CoordInv, NEW t \in Threads, Proto(t)
  PROVE  CoordInv'
<1>1. Folded(t) \in Names /\ pc[t] = "proto"
  BY FoldedType DEF CoordInv, Proto
<1>2. \A x \in Threads : Folded(x)' = Folded(x)
  BY DEF Proto, Folded
<1>3. PICK there \in {"await", "deduce"} : GoTo(t, there)
  BY DEF Proto
<1>4. TypeOK'
  BY <1>1, <1>3 DEF Proto, CoordInv, TypeOK, maps, GoTo, Working
<1>5. MapsAgree'
  BY <1>3, MapsKept DEF Proto
<1>6. \A x \in Threads \ {t} : pc'[x] = pc[x]
  BY <1>3 DEF GoTo, CoordInv, TypeOK
<1>7. CASE Folded(t) \in protoSrcs
  <2>1. /\ pc'[t] = "await"
        /\ waiting' = [waiting EXCEPT ![Folded(t)] = @ \cup {t}]
        /\ UNCHANGED <<protoSrcs, got>>
    BY <1>7 DEF Proto, GoTo, CoordInv, TypeOK
  <2>2. \A x \in Threads : pc'[x] \in Working <=> pc[x] \in Working
    BY <1>1, <1>6, <2>1 DEF Working
  <2>3. ProtoOwned'
    BY <1>2, <2>1, <2>2 DEF CoordInv, ProtoOwned
  <2>4. Listed'
    BY <1>1, <1>2, <1>6, <1>7, <2>1 DEF CoordInv, Listed, TypeOK
  <2> QED BY <1>4, <1>5, <2>3, <2>4 DEF CoordInv
<1>8. CASE Folded(t) \notin protoSrcs
  <2>1. /\ pc'[t] = "deduce"
        /\ protoSrcs' = protoSrcs \cup {Folded(t)}
        /\ UNCHANGED <<waiting, got>>
    BY <1>8 DEF Proto, GoTo, CoordInv, TypeOK
  <2>2. \A x \in Threads : pc'[x] \in Working <=> pc[x] \in Working \/ x = t
    BY <1>6, <2>1 DEF Working
  <2>3. ProtoOwned'
    BY <1>2, <1>8, <2>1, <2>2 DEF CoordInv, ProtoOwned
  <2>4. Listed'
    BY <1>2, <1>6, <2>1 DEF CoordInv, Listed
  <2> QED BY <1>4, <1>5, <2>3, <2>4 DEF CoordInv
<1> QED BY <1>7, <1>8

(* An answered thread returns. *)
LEMMA AwaitKeeps ==
  ASSUME CoordInv, NEW t \in Threads, Await(t)
  PROVE  CoordInv'
<1>1. TypeOK'
  BY DEF Await, CoordInv, TypeOK, GoTo, maps
<1>2. MapsAgree'
  BY MapsKept DEF Await
<1>3. ProtoOwned' /\ Listed'
  BY <1>1, WorkKept DEF Await, Working
<1> QED BY <1>1, <1>2, <1>3 DEF CoordInv

(* doReturn() after a step that leaves the maps alone. *)
LEMMA ReturnKeeps ==
  ASSUME CoordInv, NEW t \in Threads, NEW answer \in Threads \cup {"error"},
         pc[t] \in Working, DoReturn(t, answer), UNCHANGED <<maps, name, url>>
  PROVE  CoordInv'
<1>1. TypeOK'
  BY DoReturnKeeps DEF CoordInv, TypeOK, DoReturn, GoTo, maps
<1>2. MapsAgree'
  BY MapsKept DEF DoReturn
<1> QED BY <1>1, <1>2, DoReturnKeeps DEF CoordInv

(* The deduction succeeds, or its error is passed on. *)
LEMMA DeduceKeeps ==
  ASSUME CoordInv, NEW t \in Threads, Deduce(t)
  PROVE  CoordInv'
<1>1. CASE DoReturn(t, "error")
  BY <1>1, ReturnKeeps DEF Deduce, Working
<1>2. CASE GoTo(t, "recheck") /\ UNCHANGED <<protoSrcs, waiting, got>>
  <2>1. TypeOK'
    BY <1>2 DEF Deduce, CoordInv, TypeOK, GoTo, maps, Working
  <2>2. MapsAgree'
    BY <1>2, MapsKept DEF Deduce
  <2>3. ProtoOwned' /\ Listed'
    BY <1>2, WorkGoesOn DEF Deduce, Working
  <2> QED BY <2>1, <2>2, <2>3 DEF CoordInv
<1> QED BY <1>1, <1>2 DEF Deduce

(* A gateway that slid in is returned to everybody who waits. *)
LEMMA RecheckKeeps ==
  ASSUME CoordInv, NEW t \in Threads, Recheck(t)
  PROVE  CoordInv'
<1>1. Folded(t) \in Names
  BY FoldedType DEF CoordInv
<1>2. CASE nameToURL[Folded(t)] = None
  <2>0. GoTo(t, "try") /\ UNCHANGED <<protoSrcs, waiting, got>>
    BY <1>2 DEF Recheck
  <2>1. TypeOK'
    BY <2>0 DEF Recheck, CoordInv, TypeOK, GoTo, maps, Working
  <2>2. MapsAgree'
    BY <2>0, MapsKept DEF Recheck
  <2>3. ProtoOwned' /\ Listed'
    BY <2>0, WorkGoesOn DEF Recheck, Working
  <2> QED BY <2>1, <2>2, <2>3 DEF CoordInv
<1>3. CASE nameToURL[Folded(t)] # None
  <2>1. /\ srcs[nameToURL[Folded(t)]] # None
        /\ srcs[nameToURL[Folded(t)]] \in Threads
    BY <1>1, <1>3 DEF CoordInv, MapsAgree, TypeOK
  <2>2. DoReturn(t, srcs[nameToURL[Folded(t)]]) /\ pc[t] \in Working
    BY <1>3, <2>1 DEF Recheck, Working
  <2> QED BY <2>1, <2>2, ReturnKeeps DEF Recheck
<1> QED BY <1>2, <1>3

(* The gateway settles on a URL, or its error is passed on. *)
LEMMA TryKeeps ==
  ASSUME CoordInv, NEW t \in Threads, Try(t)
  PROVE  CoordInv'
<1>1. CASE DoReturn(t, "error") /\ UNCHANGED url
  BY <1>1, ReturnKeeps DEF Try, Working
<1>2. CASE /\ url' = [url EXCEPT ![t] = sourceURL[name[t]]]
           /\ GoTo(t, "register") /\ UNCHANGED <<protoSrcs, waiting, got>>
  <2>0. sourceURL[name[t]] \in Names
    BY SourceCoordinatorAssumption DEF CoordInv, TypeOK
  <2>1. TypeOK'
    BY <1>2, <2>0 DEF Try, CoordInv, TypeOK, GoTo, maps, Working
  <2>2. MapsAgree'
    BY <1>2, <2>0 DEF Try, CoordInv, TypeOK, MapsAgree, NoPanic, GoTo, maps
  <2>3. ProtoOwned' /\ Listed'
    BY <1>2, WorkGoesOn DEF Try, Working
  <2> QED BY <2>1, <2>2, <2>3 DEF CoordInv
<1> QED BY <1>1, <1>2 DEF Try

(* The names are entered together with the gateway of their URL. *)
LEMMA RegisterKeeps ==
  ASSUME CoordInv, NEW t \in Threads, Register(t)
  PROVE  CoordInv'
<1>1. url[t] \in Names /\ pc[t] \in Working
  BY DEF Register, CoordInv, MapsAgree, Working
<1>2. URLKey(t) \in Names
  BY <1>1, SourceCoordinatorAssumption DEF URLKey
<1>3. PICK g \in Threads : /\ srcs' = [srcs EXCEPT ![URLKey(t)] = g]
                           /\ DoReturn(t, g)
                           /\ srcs[URLKey(t)] \in {None, g}
  <2>1. CASE srcs[URLKey(t)] = None
    BY <2>1 DEF Register
  <2>2. CASE srcs[URLKey(t)] # None
    BY <1>2, <2>2 DEF Register, CoordInv, TypeOK
  <2> QED BY <2>1, <2>2
<1>4. TypeOK'
  <2>1. nameToURL' \in [Names -> Names \cup {None}]
    BY <1>2 DEF Register, CoordInv, TypeOK
  <2>2. srcs' \in [Names -> Threads \cup {None}]
    BY <1>3 DEF CoordInv, TypeOK
  <2>3. /\ protoSrcs' \subseteq Names
        /\ waiting' \in [Names -> SUBSET Threads]
        /\ got' \in [Threads -> Threads \cup {None, "error"}]
    BY <1>1, <1>3, DoReturnKeeps DEF Register
  <2>4. pc' = [pc EXCEPT ![t] = "done"] /\ UNCHANGED <<name, url>>
    BY <1>3 DEF DoReturn, GoTo, Register
  <2> QED BY <2>1, <2>2, <2>3, <2>4 DEF CoordInv, TypeOK
<1>5. MapsAgree'
  <2>1. g # None
    BY SourceCoordinatorAssumption
  <2>2. \A u \in Names : srcs[u] # None => srcs'[u] # None
    BY <1>3, <2>1 DEF CoordInv, TypeOK
  <2>3. srcs'[URLKey(t)] # None
    BY <1>2, <1>3, <2>1 DEF CoordInv, TypeOK
  <2>4. \A n \in Names : nameToURL'[n] \in {nameToURL[n], URLKey(t)}
    BY DEF Register
  <2>5. \A n \in Names : nameToURL'[n] # None => srcs'[nameToURL'[n]] # None
    BY <2>2, <2>3, <2>4 DEF CoordInv, MapsAgree, TypeOK
  <2>6. pc'[t] = "done" /\ \A x \in Threads \ {t} : pc'[x] = pc[x]
    BY <1>3 DEF DoReturn, GoTo, CoordInv, TypeOK
  <2> QED BY <2>2, <2>5, <2>6 DEF Register, CoordInv, MapsAgree, NoPanic
<1>6. ProtoOwned' /\ Listed'
  BY <1>1, <1>3, DoReturnKeeps DEF Register
<1> QED BY <1>4, <1>5, <1>6 DEF CoordInv

(* No step of any thread breaks the invariant. *)
LEMMA CoordStep == CoordInv /\ [CoordinatorNext]_coordinatorVars => CoordInv'
<1> SUFFICES ASSUME CoordInv, [CoordinatorNext]_coordinatorVars
             PROVE  CoordInv'
  OBVIOUS
<1>1. CASE UNCHANGED coordinatorVars
  BY <1>1 DEF coordinatorVars, CoordInv, TypeOK, MapsAgree, NoPanic, ProtoOwned, Listed, Folded
<1>2. ASSUME NEW t \in Threads, ThreadStep(t)
      PROVE  CoordInv'
  BY <1>2, LookupKeeps, UpgradeKeeps, ProtoKeeps, AwaitKeeps, DeduceKeeps, RecheckKeeps,
     TryKeeps, RegisterKeeps DEF ThreadStep
<1> QED BY <1>1, <1>2 DEF CoordinatorNext

(* Whatever names are asked for by however many threads at once, the URL   *)
(* recorded for a name always has its gateway: the panics of               *)
(* getSourceGatewayFor() are unreachable.                                  *)
THEOREM GatewayAlwaysThere == CoordinatorSpec => []NoPanic
<1>1. CoordInv => NoPanic
  BY DEF CoordInv, MapsAgree
<1> QED BY <1>1, CoordInit, CoordStep, PTL DEF CoordinatorSpec

(* No thread waits for an answer nobody is at work on, and no two threads  *)
(* are at work on the same folded name.                                    *)
THEOREM NobodyForgotten == CoordinatorSpec => []WaitedFor
<1>1. CoordInv => WaitedFor
  BY DEF CoordInv, ProtoOwned, Listed, WaitedFor
<1> QED BY <1>1, CoordInit, CoordStep, PTL DEF CoordinatorSpec

-----------------------------------------------------------------------------
(* A name in lower case leads to a URL in lower case.  It does when the URL is made
   of the name, as for the hosts the deducer knows; a vanity import path may
   lead anywhere. *)
URLsFolded == \A n \in Asked : toFold[n] = n => toFold[sourceURL[n]] = sourceURL[n]

(* A gateway is entered under the folded URL of the name it was made for, and
   everyone who was handed one got it from there. *)
Entered ==
  /\ \A t \in Threads : name[t] \in Asked
  /\ \A t \in Threads : pc[t] = "register" => url[t] = sourceURL[name[t]]
  /\ \A u \in Names : srcs[u] # None => u = toFold[sourceURL[name[srcs[u]]]]
  /\ \A t \in Threads : got[t] \in Threads => \E u \in Names : srcs[u] = got[t]

LEMMA EnteredInit == CoordinatorInit => Entered
  BY SourceCoordinatorAssumption DEF CoordinatorInit, Entered

(* A step that hands out only what is there, and changes no map of gateways. *)
LEMMA EnteredKept ==
  ASSUME Entered, CoordInv, NEW t \in Threads, UNCHANGED <<srcs, name>>,
         \A x \in Threads : \/ got'[x] = got[x] \/ got'[x] \notin Threads
                            \/ \E u \in Names : srcs[u] = got'[x],
         \A x \in Threads : pc'[x] = "register" => url'[x] = sourceURL[name[x]]
  PROVE  Entered'
  BY DEF Entered

LEMMA DoReturnEnters ==
  ASSUME NEW t \in Threads, NEW answer, DoReturn(t, answer)
  PROVE  \A x \in Threads : got'[x] \in {got[x], answer}
  BY DEF DoReturn

LEMMA EnteredStep ==
  ASSUME URLsFolded, CoordInv, Entered, NEW t \in Threads, ThreadStep(t)
  PROVE  Entered'
<1>1. name[t] \in Names /\ Folded(t) \in Names /\ \A x \in Threads : name[x] \in Asked
  BY FoldedType DEF CoordInv, TypeOK, Entered
<1> DEFINE OnlyThere == \A x \in Threads : \/ got'[x] = got[x] \/ got'[x] \notin Threads
                                           \/ \E u \in Names : srcs[u] = got'[x]
           At == \A x \in Threads : pc'[x] = "register" => url'[x] = sourceURL[name[x]]
<1>2. ASSUME NEW there, GoTo(t, there), there # "register",
             \A x \in Threads \ {t} : url'[x] = url[x]
      PROVE  At
  BY <1>2 DEF GoTo, CoordInv, TypeOK, Entered
<1>3. ASSUME NEW u \in Names, Found(t, u)
      PROVE  OnlyThere /\ \E there \in {"panic", "done"} : GoTo(t, there)
  BY <1>3 DEF Found, CoordInv, TypeOK
<1>4. CASE Lookup(t)
  <2>1. UNCHANGED <<srcs, name>>
    BY <1>4 DEF Lookup, maps
  <2>2. CASE GoTo(t, "done") /\ got' = [got EXCEPT ![t] = "error"] /\ UNCHANGED url
    <3>1. OnlyThere
      BY <2>2, SourceCoordinatorAssumption DEF CoordInv, TypeOK
    <3> QED BY <1>2, <2>1, <2>2, <3>1, EnteredKept
  <2>3. CASE nameToURL[name[t]] # None /\ Found(t, nameToURL[name[t]]) /\ UNCHANGED url
    <3>1. nameToURL[name[t]] \in Names
      BY <1>1, <2>3 DEF CoordInv, TypeOK
    <3> QED BY <1>2, <1>3, <2>1, <2>3, <3>1, EnteredKept
  <2>4. CASE url' = [url EXCEPT ![t] = nameToURL[Folded(t)]] /\ GoTo(t, "upgrade") /\ UNCHANGED got
    <3>1. \A x \in Threads \ {t} : url'[x] = url[x]
      BY <2>4 DEF CoordInv, TypeOK
    <3> QED BY <1>2, <2>1, <2>4, <3>1, EnteredKept
  <2>5. CASE GoTo(t, "proto") /\ UNCHANGED <<got, url>>
    BY <1>2, <2>1, <2>5, EnteredKept
  <2> QED BY <1>4, <2>2, <2>3, <2>4, <2>5 DEF Lookup
<1>5. CASE Upgrade(t)
  <2>1. UNCHANGED <<srcs, name, url>> /\ Found(t, url[t]) /\ url[t] \in Names
    BY <1>5 DEF Upgrade, CoordInv, MapsAgree
  <2> QED BY <1>2, <1>3, <2>1, EnteredKept
<1>6. CASE Proto(t) \/ Await(t)
  <2>1. UNCHANGED <<srcs, name, url, got>> /\ \E there \in {"await", "deduce", "done"} : GoTo(t, there)
    BY <1>6 DEF Proto, Await, maps
  <2> QED BY <1>2, <2>1, EnteredKept
<1>7. CASE Deduce(t) \/ Recheck(t)
  <2>1. UNCHANGED <<srcs, name, url>>
    BY <1>7 DEF Deduce, Recheck, maps
  <2>2. \/ /\ got' = got /\ \E there \in {"recheck", "try", "panic"} : GoTo(t, there)
        \/ DoReturn(t, "error")
        \/ nameToURL[Folded(t)] # None /\ DoReturn(t, srcs[nameToURL[Folded(t)]])
    BY <1>7 DEF Deduce, Recheck
  <2>3. OnlyThere
    BY <1>1, <2>2, DoReturnEnters, SourceCoordinatorAssumption DEF CoordInv, TypeOK
  <2>4. \E there \in {"recheck", "try", "panic", "done"} : GoTo(t, there)
    BY <2>2 DEF DoReturn
  <2> QED BY <1>2, <2>1, <2>3, <2>4, EnteredKept
<1>8. CASE Try(t)
  <2>1. UNCHANGED <<srcs, name>>
    BY <1>8 DEF Try, maps
  <2>2. CASE DoReturn(t, "error") /\ UNCHANGED url
    <3>1. OnlyThere
      BY <2>2, DoReturnEnters, SourceCoordinatorAssumption
    <3> QED BY <1>2, <2>1, <2>2, <3>1, EnteredKept DEF DoReturn
  <2>3. CASE url' = [url EXCEPT ![t] = sourceURL[name[t]]] /\ GoTo(t, "register") /\ UNCHANGED got
    <3>1. At
      BY <2>3 DEF GoTo, CoordInv, TypeOK, Entered
    <3> QED BY <2>1, <2>3, <3>1, EnteredKept
  <2> QED BY <1>8, <2>2, <2>3 DEF Try
<1>9. CASE Register(t)
  <2> DEFINE K == URLKey(t)
  <2>1. pc[t] = "register" /\ url[t] = sourceURL[name[t]] /\ UNCHANGED <<name, url>>
    BY <1>9 DEF Register, Entered
  <2>2. K = toFold[sourceURL[name[t]]] /\ K \in Names
    BY <1>1, <2>1, SourceCoordinatorAssumption DEF URLsFolded, URLKey, Folded
  <2> HIDE DEF K
  <2>3. PICK g \in Threads : /\ srcs' = [srcs EXCEPT ![K] = g] /\ DoReturn(t, g)
                             /\ g = IF srcs[K] = None THEN t ELSE srcs[K]
    BY <1>9, <2>2 DEF Register, CoordInv, TypeOK, K
  <2>4. K = toFold[sourceURL[name[g]]] /\ srcs'[K] = g
    BY <2>2, <2>3 DEF Entered, CoordInv, TypeOK
  <2>5. \A u \in Names : srcs'[u] = IF u = K THEN g ELSE srcs[u]
    BY <2>2, <2>3 DEF CoordInv, TypeOK
  <2>6. \A u \in Names : srcs[u] # None => srcs'[u] = srcs[u]
    BY <2>3, <2>5
  <2>7. \A u \in Names : srcs'[u] # None => u = toFold[sourceURL[name'[srcs'[u]]]]
    BY <2>1, <2>4, <2>5 DEF Entered
  <2>8. \A x \in Threads : got'[x] \in Threads => \E u \in Names : srcs'[u] = got'[x]
    <3>1. \A x \in Threads : got'[x] \in {got[x], g}
      BY <2>3, DoReturnEnters
    <3>2. None \notin Threads
      BY SourceCoordinatorAssumption
    <3> QED BY <2>2, <2>4, <2>6, <3>1, <3>2 DEF Entered
  <2>9. \A x \in Threads : pc'[x] = "register" => url'[x] = sourceURL[name'[x]]
    BY <2>1, <2>3 DEF DoReturn, GoTo, Entered, CoordInv, TypeOK
  <2> QED BY <1>1, <2>1, <2>7, <2>8, <2>9 DEF Entered
<1> QED BY <1>4, <1>5, <1>6, <1>7, <1>8, <1>9 DEF ThreadStep

(* No two gateways for one source, however the threads' steps mix and however the
   source is spelt, if names in lower case have URLs in lower case: every source
   that getSourceGatewayFor() hands out is the one entered under the folded
   URL. *)
THEOREM OneForEachSource ==
  ASSUME URLsFolded
  PROVE  CoordinatorSpec => []OneGateway
<1>1. CoordInv /\ Entered /\ [CoordinatorNext]_coordinatorVars => Entered'
  <2> SUFFICES ASSUME CoordInv, Entered, [CoordinatorNext]_coordinatorVars PROVE Entered'
    OBVIOUS
  <2>1. CASE UNCHANGED coordinatorVars
    BY <2>1 DEF coordinatorVars, Entered
  <2>2. CASE CoordinatorNext
    BY <2>2, EnteredStep DEF CoordinatorNext
  <2> QED BY <2>1, <2>2
<1>2. CoordInv /\ Entered => OneGateway
  <2> SUFFICES ASSUME CoordInv, Entered, NEW g \in Gateways, NEW h \in Gateways,
                      toFold[sourceURL[name[g]]] = toFold[sourceURL[name[h]]]
               PROVE  g = h
    BY DEF OneGateway
  <2>1. None \notin Threads
    BY SourceCoordinatorAssumption
  <2>2. PICK u \in Names : srcs[u] = g /\ u = toFold[sourceURL[name[g]]]
    BY <2>1 DEF Gateways, Entered
  <2>3. PICK v \in Names : srcs[v] = h /\ v = toFold[sourceURL[name[h]]]
    BY <2>1 DEF Gateways, Entered
  <2> QED BY <2>2, <2>3
<1> QED BY <1>1, <1>2, CoordInit, CoordStep, EnteredInit, PTL DEF CoordinatorSpec

-----------------------------------------------------------------------------
(* The gateway. *)

CacheFields == {"listed", "vMap", "rMap", "ptrees", "infos"}
CloneFields == {"exists", "valid", "vers", "revs", "copy"}
CallFields  == {"op", "v", "root", "r", "pc", "todo", "then", "res"}

Getting == {"export", "manifest", "packages"}

Places == {"idle", "require", "convert", "convertAgain", "work", "workAgain",
           "revisionPresentIn", "disambiguate"}

(* A version list, whatever versions are in it. *)
IsList(f) == \A u \in DOMAIN f : f[u] \in Revs

Typed ==
  /\ kind \in {"git", "gopkgin", "bzr", "hg"}
  /\ IsList(upstream.vers) /\ upstream.revs \subseteq Revs
  /\ DOMAIN clone = CloneFields
  /\ IsList(clone.vers) /\ clone.revs \subseteq Revs
  /\ srcState \subseteq AllBits
  /\ DOMAIN cache = CacheFields
  /\ IsList(cache.vMap)
  /\ DOMAIN since = {"mapped", "lacked", "hurt"}
  /\ past \in BOOLEAN

(* What the history variables remember includes what is so now. *)
Remembered ==
  /\ Revs \ upstream.revs \subseteq since.lacked
  /\ Mapping(upstream) \subseteq since.mapped
  /\ Soiled(clone) => past

(* The bits a call can rely on where it is. *)
Held(place, op) ==
  CASE place = "workAgain" -> {"isSetUp", "existsLocally", "hasLatestLocally"}
    [] place = "work" -> {"isSetUp", "existsLocally"}
    [] place = "convert" /\ op = "export" -> {"isSetUp", "existsLocally"}
    [] place = "convertAgain" /\ op = "export" -> {"isSetUp", "existsLocally", "hasLatestVersionList"}
    [] place = "convertAgain" /\ op # "export" -> {"hasLatestVersionList"}
    [] OTHER -> {}

(* The revision in hand is the one asked for, until it is converted. *)
RequestAt(c, place) ==
  /\ place \in {"convert", "convertAgain"} => c.r = c.v.r /\ (c.r = Miss => c.v.u \in Versions)
  /\ place \in {"work", "workAgain"} => c.r # Miss
  /\ place \in {"revisionPresentIn", "disambiguate"} => c.op = place

(* require() is never in need of a bit that others rest on and that it has
   passed over. *)
CallSound ==
  /\ DOMAIN call = CallFields
  /\ call.pc \in Places /\ call.then \in (Places \ {"require"}) \union {"answer"}
  /\ call.r \in Revs \union {Miss} /\ call.v.r \in Revs \union {Miss}
  /\ call.pc = "idle" => call.op = "none"
  /\ call.pc # "require" => Held(call.pc, call.op) \subseteq srcState /\ RequestAt(call, call.pc)
  /\ call.pc = "require" =>
       /\ call.todo # {} /\ call.todo \subseteq AllBits \ srcState
       /\ "isSetUp" \in call.todo \union srcState
       /\ "hasLatestLocally" \in call.todo => "existsLocally" \in call.todo \union srcState
       /\ call.then # "idle"
       /\ Held(call.then, call.op) \subseteq call.todo \union srcState
       /\ RequestAt(call, call.then)

(* What being set up and not having failed since give. *)
SetUpSound ==
  "isSetUp" \in srcState =>
    /\ kind \in {"git", "gopkgin"} => "hasLatestVersionList" \in srcState
    /\ ~ since.hurt => clone.valid
    /\ kind = "git" /\ ~ since.hurt => ~ Soiled(clone)

GatewayInv ==
  /\ Typed /\ Remembered /\ CallSound /\ SetUpSound
  /\ BitsTrue /\ ListFresh /\ TreesTrue

-----------------------------------------------------------------------------
(* Steps of a call *)

LEMMA BitNames ==
  AllBits = {"isSetUp", "existsUpstream", "existsLocally", "hasLatestVersionList", "hasLatestLocally"}
  BY DEF AllBits, Bits, Range

(* require() goes through the bits in their order. *)
LEMMA FlagFirst ==
  ASSUME call.todo # {}, call.todo \subseteq AllBits
  PROVE  /\ Flag \in call.todo
         /\ Flag # "isSetUp" => "isSetUp" \notin call.todo
         /\ Flag \in {"hasLatestVersionList", "hasLatestLocally"} => "existsLocally" \notin call.todo
<1> DEFINE First(i) == Bits[i] \in call.todo /\ \A j \in 1..(i - 1) : Bits[j] \notin call.todo
<1>1. DOMAIN Bits = 1..5
  BY DEF Bits
<1>2. \E i \in 1..5 : First(i)
  <2>1. Bits[1] \in call.todo \/ Bits[2] \in call.todo \/ Bits[3] \in call.todo \/ Bits[4] \in call.todo
        \/ Bits[5] \in call.todo
    BY BitNames DEF Bits
  <2> QED BY <2>1
<1>3. PICK i \in 1..5 : First(i) /\ Flag = Bits[i]
  BY <1>1, <1>2 DEF Flag
<1> QED BY <1>3 DEF Bits

(* What is known when require() comes to a bit. *)
LEMMA FlagSound ==
  ASSUME CallSound, BitsTrue, NEW bit, AtFlag(bit)
  PROVE  /\ bit \in call.todo /\ bit \notin srcState
         /\ bit = "isSetUp" => srcState = {}
         /\ bit # "isSetUp" => "isSetUp" \in srcState
         /\ bit = "hasLatestLocally" => "existsLocally" \in srcState
<1>1. /\ Flag = bit
      /\ call.todo # {} /\ call.todo \subseteq AllBits \ srcState
      /\ "isSetUp" \in call.todo \union srcState
      /\ "hasLatestLocally" \in call.todo => "existsLocally" \in call.todo \union srcState
  BY DEF AtFlag, CallSound
<1> QED BY <1>1, FlagFirst DEF BitsTrue

LEMMA ReturnSound ==
  ASSUME NEW res, Return(res)
  PROVE  CallSound' /\ call'.pc = "idle"
  BY DEF Return, Idle, Nothing, CallSound, CallFields, Places, Held, RequestAt

(* Requiring(): with these bits to see to, the call is sound. *)
LEMMA RequiringSound ==
  ASSUME NEW c, NEW todo, Requiring(c, todo),
         DOMAIN c = CallFields,
         c.then \in (Places \ {"require", "idle"}) \union {"answer"},
         c.r \in Revs \union {Miss}, c.v.r \in Revs \union {Miss},
         todo \subseteq AllBits \ srcState',
         "isSetUp" \in todo \union srcState',
         "hasLatestLocally" \in todo => "existsLocally" \in todo \union srcState',
         Held(c.then, c.op) \subseteq todo \union srcState',
         RequestAt(c, c.then)
  PROVE  CallSound'
<1>1. CASE todo # {}
  <2>1. call' = [c EXCEPT !.pc = "require", !.todo = todo]
    BY <1>1 DEF Requiring
  <2>2. /\ DOMAIN call' = CallFields
        /\ call'.pc = "require" /\ call'.todo = todo
        /\ call'.then = c.then /\ call'.op = c.op /\ call'.r = c.r /\ call'.v = c.v
    BY <2>1 DEF CallFields
  <2> QED BY <1>1, <2>2 DEF CallSound, Places, RequestAt
<1>2. CASE todo = {} /\ c.then = "answer"
  BY <1>2, ReturnSound DEF Requiring
<1>3. CASE todo = {} /\ c.then # "answer"
  <2>1. call' = [c EXCEPT !.pc = c.then, !.todo = {}]
    BY <1>3 DEF Requiring
  <2>2. /\ DOMAIN call' = CallFields
        /\ call'.pc = c.then
        /\ call'.then = c.then /\ call'.op = c.op /\ call'.r = c.r /\ call'.v = c.v
    BY <2>1 DEF CallFields
  <2> QED BY <1>3, <2>2 DEF CallSound, Places, RequestAt
<1> QED BY <1>1, <1>2, <1>3

LEMMA CheckedSound ==
  ASSUME CallSound, call.pc = "require", srcState \subseteq AllBits,
         NEW bits, bits \subseteq AllBits, "isSetUp" \in srcState \union bits, Checked(bits)
  PROVE  /\ CallSound'
         /\ srcState' = srcState \union bits
         /\ srcState' \subseteq AllBits
<1>1. srcState' = srcState \union bits /\ Requiring(call, call.todo \ bits)
  BY DEF Checked
<1>2. CallSound'
  <2> DEFINE todo == call.todo \ bits
  <2>1. /\ DOMAIN call = CallFields
        /\ call.then \in (Places \ {"require", "idle"}) \union {"answer"}
        /\ call.r \in Revs \union {Miss} /\ call.v.r \in Revs \union {Miss}
        /\ RequestAt(call, call.then)
    BY DEF CallSound
  <2>2. /\ todo \subseteq AllBits \ srcState'
        /\ "isSetUp" \in todo \union srcState'
        /\ "hasLatestLocally" \in todo => "existsLocally" \in todo \union srcState'
        /\ Held(call.then, call.op) \subseteq todo \union srcState'
    BY <1>1 DEF CallSound
  <2> HIDE DEF todo
  <2> QED BY <1>1, <2>1, <2>2, RequiringSound DEF todo
<1> QED BY <1>1, <1>2

-----------------------------------------------------------------------------
(* The memory cache *)

LEMMA ListCached ==
  ASSUME NEW c, DOMAIN c = CacheFields, NEW list
  PROVE  /\ DOMAIN SetVersionMap(c, list) = CacheFields
         /\ SetVersionMap(c, list).listed = TRUE
         /\ SetVersionMap(c, list).vMap = list
         /\ SetVersionMap(c, list).ptrees = c.ptrees
         /\ SetVersionMap(c, list).infos = c.infos
  BY DEF SetVersionMap, CacheFields

LEMMA MarkCached ==
  ASSUME NEW c, DOMAIN c = CacheFields, NEW r
  PROVE  /\ DOMAIN MarkRevisionExists(c, r) = CacheFields
         /\ MarkRevisionExists(c, r).listed = c.listed
         /\ MarkRevisionExists(c, r).vMap = c.vMap
         /\ MarkRevisionExists(c, r).ptrees = c.ptrees
         /\ MarkRevisionExists(c, r).infos = c.infos
  BY DEF MarkRevisionExists, CacheFields

LEMMA TreeCached ==
  ASSUME NEW c, DOMAIN c = CacheFields, NEW r, NEW tree
  PROVE  /\ DOMAIN SetPackageTree(c, r, tree) = CacheFields
         /\ SetPackageTree(c, r, tree).listed = c.listed
         /\ SetPackageTree(c, r, tree).vMap = c.vMap
         /\ SetPackageTree(c, r, tree).ptrees = Set(c.ptrees, r, tree)
         /\ SetPackageTree(c, r, tree).infos = c.infos
<1> DEFINE d == [c EXCEPT !.ptrees = Set(@, r, tree)]
<1>1. /\ DOMAIN d = CacheFields /\ d.listed = c.listed /\ d.vMap = c.vMap
      /\ d.ptrees = Set(c.ptrees, r, tree) /\ d.infos = c.infos
  BY DEF CacheFields
<1>2. SetPackageTree(c, r, tree) = MarkRevisionExists(d, r)
  BY DEF SetPackageTree
<1> HIDE DEF d
<1> QED BY <1>1, <1>2, MarkCached

LEMMA InfoCached ==
  ASSUME NEW c, DOMAIN c = CacheFields, NEW r, NEW an, NEW ml
  PROVE  /\ DOMAIN SetManifestAndLock(c, r, an, ml) = CacheFields
         /\ SetManifestAndLock(c, r, an, ml).listed = c.listed
         /\ SetManifestAndLock(c, r, an, ml).vMap = c.vMap
         /\ SetManifestAndLock(c, r, an, ml).ptrees = c.ptrees
         /\ SetManifestAndLock(c, r, an, ml).infos = Set(c.infos, <<r, an>>, ml)
<1> DEFINE d == [c EXCEPT !.infos = Set(@, <<r, an>>, ml)]
<1>1. /\ DOMAIN d = CacheFields /\ d.listed = c.listed /\ d.vMap = c.vMap
      /\ d.infos = Set(c.infos, <<r, an>>, ml) /\ d.ptrees = c.ptrees
  BY DEF CacheFields
<1>2. SetManifestAndLock(c, r, an, ml) = MarkRevisionExists(d, r)
  BY DEF SetManifestAndLock
<1> HIDE DEF d
<1> QED BY <1>1, <1>2, MarkCached

-----------------------------------------------------------------------------
(* Upstream and the clone *)

LEMMA UpstreamTyped ==
  ASSUME NEW up \in Upstreams
  PROVE  /\ IsList(up.vers) /\ up.revs \subseteq Revs /\ up.revs # {}
<1>1. PICK revs \in (SUBSET Revs) \ {{}} : up \in [vers : VersionMaps(revs), revs : {revs}]
  BY DEF Upstreams
<1>2. up.vers \in VersionMaps(revs) /\ up.revs = revs
  BY <1>1
<1>3. PICK S \in (SUBSET Versions) \ {{}} : up.vers \in [S -> revs]
  BY <1>2 DEF VersionMaps
<1>4. \A u \in DOMAIN up.vers : up.vers[u] \in revs
  BY <1>3
<1> QED BY <1>2, <1>4 DEF IsList

LEMMA CloneTyped ==
  ASSUME NEW up, IsList(up.vers), up.revs \subseteq Revs, NEW c \in Clones(up)
  PROVE  /\ DOMAIN c = CloneFields
         /\ c.exists /\ c.valid /\ c.vers = up.vers /\ c.revs = up.revs
         /\ ~ Soiled(c)
  BY SourceGatewayAssumption DEF Clones, CloneFields, Soiled

LEMMA NoCloneTyped ==
  /\ DOMAIN NoClone = CloneFields
  /\ ~ NoClone.exists /\ NoClone.valid /\ IsList(NoClone.vers) /\ NoClone.revs = {}
  /\ ~ Soiled(NoClone)
  BY DEF NoClone, CloneFields, NoVersions, IsList, Soiled

LEMMA RemainsTyped ==
  ASSUME NEW c \in Remains
  PROVE  DOMAIN c = CloneFields /\ IsList(c.vers) /\ c.revs = {}
<1>1. CASE c = NoClone
  BY <1>1, NoCloneTyped
<1>2. CASE c = [NoClone EXCEPT !.exists = TRUE, !.valid = FALSE]
  BY <1>2, NoCloneTyped DEF CloneFields
<1>3. CASE c = [NoClone EXCEPT !.exists = TRUE]
  BY <1>3, NoCloneTyped DEF CloneFields
<1> QED BY <1>1, <1>2, <1>3 DEF Remains

(* newCtxRepo() leaves a repository or nothing. *)
LEMMA NewRepoTyped ==
  ASSUME Typed
  PROVE  /\ DOMAIN AfterNewRepo = CloneFields
         /\ IsList(AfterNewRepo.vers) /\ AfterNewRepo.revs \subseteq Revs
         /\ AfterNewRepo.valid
         /\ Soiled(AfterNewRepo) => AfterNewRepo = clone
  BY NoCloneTyped DEF AfterNewRepo, Typed

-----------------------------------------------------------------------------
(* A step that keeps the cache keeps what is true of it, unless a new process
   begins. *)
LEMMA CacheKept ==
  ASSUME Typed, ListFresh, TreesTrue, cache' = cache, kind' = kind,
         since.mapped \subseteq since'.mapped, since.hurt => since'.hurt, past => past'
  PROVE  ListFresh' /\ TreesTrue'
<1>1. ListFresh'
  BY DEF ListFresh
<1>2. TreesTrue'
  BY DEF TreesTrue, Spoiling
<1> QED BY <1>1, <1>2

(* A command that fails is remembered, and little else. *)
LEMMA FailRemembered ==
  ASSUME Typed, Fail
  PROVE  /\ DOMAIN since' = {"mapped", "lacked", "hurt"}
         /\ since'.mapped = since.mapped /\ since'.lacked = since.lacked /\ since'.hurt
  BY DEF Fail, Typed

(* An error of require() leaves all as it was but for the disk. *)
LEMMA RequireFailsKeeps ==
  ASSUME GatewayInv, RequireFails, NEW c, Disk(c),
         DOMAIN c = CloneFields, IsList(c.vers), c.revs \subseteq Revs,
         "existsLocally" \in srcState => c.exists,
         "hasLatestLocally" \in srcState => clone.revs \subseteq c.revs
  PROVE  GatewayInv'
<1>1. /\ UNCHANGED <<kind, upstream, srcState, cache>>
      /\ clone' = c /\ past' = (past \/ Soiled(c))
  BY DEF RequireFails, Disk, world, known
<1>2. /\ DOMAIN since' = {"mapped", "lacked", "hurt"}
      /\ since'.mapped = since.mapped /\ since'.lacked = since.lacked /\ since'.hurt
  BY FailRemembered DEF RequireFails, GatewayInv
<1>3. Typed'
  BY <1>1, <1>2 DEF Typed, GatewayInv
<1>4. Remembered'
  BY <1>1, <1>2 DEF Remembered, GatewayInv, Mapping, Soiled
<1>5. CallSound'
  BY ReturnSound DEF RequireFails
<1>6. SetUpSound'
  BY <1>1, <1>2 DEF SetUpSound, GatewayInv
<1>7. BitsTrue'
  BY <1>1, <1>2 DEF BitsTrue, GatewayInv
<1>8. ListFresh' /\ TreesTrue'
  BY <1>1, <1>2, CacheKept DEF GatewayInv
<1> QED BY <1>3, <1>4, <1>5, <1>6, <1>7, <1>8 DEF GatewayInv

(* maybeSource.try() succeeds, with a list or without. *)
LEMMA TrySucceeds ==
  ASSUME GatewayInv, AtFlag("isSetUp"), Succeed, UNCHANGED world,
         NEW c, Disk(c), DOMAIN c = CloneFields, IsList(c.vers), c.revs \subseteq Revs,
         c.exists = AfterNewRepo.exists, c.valid,
         kind = "git" => ~ Soiled(c),
         NEW bits, Checked(bits),
         bits \in {{"isSetUp", "existsUpstream"} \union LocalBit, GitBits},
         IF "hasLatestVersionList" \in bits
         THEN \E list : /\ cache' = SetVersionMap(cache, list)
                        /\ IsList(list)
                        /\ \A u \in Versions : \/ <<u, Get(list, u)>> \in Mapping(upstream)
                                               \/ /\ kind = "gopkgin" /\ u \notin GopkginMajor
                                                  /\ Get(list, u) = Miss
         ELSE kind \in {"bzr", "hg"} /\ UNCHANGED cache
  PROVE  GatewayInv'
<1>1. /\ UNCHANGED <<kind, upstream, since>>
      /\ clone' = c /\ past' = (past \/ Soiled(c))
  BY DEF Succeed, Disk, world
<1>2. srcState = {} /\ call.pc = "require"
  BY FlagSound DEF GatewayInv, AtFlag
<1>3. /\ bits \subseteq AllBits
      /\ "isSetUp" \in bits /\ "existsUpstream" \in bits
      /\ "existsLocally" \in bits => AfterNewRepo.exists
      /\ "hasLatestLocally" \notin bits
  BY BitNames DEF GitBits, LocalBit
<1>4. CallSound' /\ srcState' = bits
  BY <1>2, <1>3, CheckedSound DEF GatewayInv
<1>5. /\ DOMAIN cache' = CacheFields /\ IsList(cache'.vMap)
      /\ cache'.ptrees = cache.ptrees /\ cache'.infos = cache.infos
      /\ "hasLatestVersionList" \in bits <=> cache'.listed
  <2>1. CASE "hasLatestVersionList" \in bits
    <3>1. PICK list : cache' = SetVersionMap(cache, list) /\ IsList(list)
      BY <2>1
    <3>2. DOMAIN cache = CacheFields
      BY DEF GatewayInv, Typed
    <3>3. /\ DOMAIN cache' = CacheFields /\ cache'.listed = TRUE /\ cache'.vMap = list
          /\ cache'.ptrees = cache.ptrees /\ cache'.infos = cache.infos
      BY <3>1, <3>2, ListCached
    <3> QED BY <2>1, <3>1, <3>3
  <2>2. CASE "hasLatestVersionList" \notin bits
    BY <1>2, <2>2 DEF GatewayInv, Typed, BitsTrue
  <2> QED BY <2>1, <2>2
<1>6. Typed'
  BY <1>1, <1>3, <1>4, <1>5 DEF Typed, GatewayInv
<1>7. Remembered'
  BY <1>1 DEF Remembered, GatewayInv, Mapping, Soiled
<1>8. SetUpSound'
  BY <1>1, <1>3, <1>4 DEF SetUpSound, Soiled, GatewayInv, Typed
<1>9. BitsTrue'
  BY <1>1, <1>3, <1>4, <1>5 DEF BitsTrue
<1>10. ListFresh'
  <2>1. CASE "hasLatestVersionList" \in bits
    <3>1. PICK list : /\ cache' = SetVersionMap(cache, list)
                      /\ \A u \in Versions : \/ <<u, Get(list, u)>> \in Mapping(upstream)
                                             \/ /\ kind = "gopkgin" /\ u \notin GopkginMajor
                                                /\ Get(list, u) = Miss
      BY <2>1
    <3>2. cache'.vMap = list
      BY <3>1, ListCached DEF GatewayInv, Typed
    <3> QED BY <1>1, <3>1, <3>2 DEF ListFresh, GatewayInv, Remembered
  <2>2. CASE "hasLatestVersionList" \notin bits
    BY <1>1, <2>2 DEF ListFresh
  <2> QED BY <2>1, <2>2
<1>11. TreesTrue'
  BY <1>1, <1>5 DEF TreesTrue, Spoiling, GatewayInv
<1> QED BY <1>4, <1>6, <1>7, <1>8, <1>9, <1>10, <1>11 DEF GatewayInv

-----------------------------------------------------------------------------
(* The actions *)

LEMMA InitKeeps == Init => GatewayInv
<1> SUFFICES ASSUME Init PROVE GatewayInv
  OBVIOUS
<1>1. /\ srcState = {} /\ past = FALSE
      /\ call = Idle /\ cache = NewMemoryCache /\ since = Fresh(upstream)
  BY DEF Init
<1>2. /\ IsList(upstream.vers) /\ upstream.revs \subseteq Revs
  BY UpstreamTyped DEF Init
<1>3. DOMAIN clone = CloneFields /\ IsList(clone.vers) /\ clone.revs \subseteq Revs /\ ~ Soiled(clone)
  <2>1. CASE clone = NoClone
    BY <2>1, NoCloneTyped
  <2>2. CASE clone # NoClone
    <3>1. PICK up \in Upstreams : clone \in Clones(up)
      BY <2>2 DEF Init
    <3> QED BY <3>1, UpstreamTyped, CloneTyped
  <2> QED BY <2>1, <2>2
<1>4. /\ DOMAIN cache = CacheFields /\ cache.listed = FALSE /\ IsList(cache.vMap)
      /\ DOMAIN cache.ptrees = {} /\ DOMAIN cache.infos = {}
  BY <1>1 DEF NewMemoryCache, NoVersions, CacheFields, IsList
<1>5. /\ DOMAIN since = {"mapped", "lacked", "hurt"}
      /\ since.mapped = Mapping(upstream) /\ since.lacked = Revs \ upstream.revs
  BY <1>1 DEF Fresh
<1>6. Typed
  BY <1>1, <1>2, <1>3, <1>4, <1>5, SourceGatewayAssumption DEF Init, Typed
<1>7. Remembered
  BY <1>3, <1>5 DEF Remembered
<1>8. CallSound
  BY <1>1 DEF Idle, Nothing, CallSound, CallFields, Places, Held, RequestAt
<1>9. SetUpSound /\ BitsTrue /\ ListFresh /\ TreesTrue
  BY <1>1, <1>4 DEF SetUpSound, BitsTrue, ListFresh, TreesTrue
<1> QED BY <1>6, <1>7, <1>8, <1>9 DEF GatewayInv

(* A step inside the process that touches neither the disk nor what is known. *)
LEMMA QuietStep ==
  ASSUME GatewayInv, UNCHANGED <<world, disk, known, since>>, CallSound'
  PROVE  GatewayInv'
<1>1. UNCHANGED <<kind, upstream, clone, past, srcState, cache, since>>
  BY DEF world, disk, known
<1>2. Typed' /\ Remembered'
  BY <1>1 DEF GatewayInv, Typed, Remembered, Mapping, Soiled
<1>3. SetUpSound' /\ BitsTrue'
  BY <1>1 DEF GatewayInv, SetUpSound, BitsTrue, Soiled
<1>4. ListFresh' /\ TreesTrue'
  BY <1>1, CacheKept DEF GatewayInv
<1> QED BY <1>2, <1>3, <1>4 DEF GatewayInv

LEMMA BeginKeeps ==
  ASSUME GatewayInv, NEW op \in Ops, NEW v \in Args(op), NEW root \in Roots, Begin(op, v, root)
  PROVE  GatewayInv'
<1> DEFINE new == [Idle EXCEPT !.op = op, !.v = v, !.root = root, !.r = v.r, !.then = After(op)]
<1>1. /\ DOMAIN new = CallFields
      /\ new.op = op /\ new.v = v /\ new.r = v.r /\ new.then = After(op)
  BY DEF Idle, CallFields
<1>2. v.r \in Revs \union {Miss}
  BY DEF Args, VersionArgs, RevisionArgs, Ops
<1>3. srcState' = srcState
  BY DEF Begin, known
<1>4. op \in Getting => v \in VersionArgs
  BY DEF Args, Getting
<1>5. v \in VersionArgs => (v.r = Miss => v.u \in Versions)
  BY DEF VersionArgs
<1>6. CASE op \in {"manifest", "packages"}
  <2>1. call' = [new EXCEPT !.pc = "convert"]
    BY <1>6 DEF Begin
  <2> HIDE DEF new
  <2>2. /\ DOMAIN call' = CallFields /\ call'.pc = "convert"
        /\ call'.op = op /\ call'.v = v /\ call'.r = v.r /\ call'.then = After(op)
    BY <1>1, <2>1 DEF CallFields
  <2>3. CallSound'
    BY <1>2, <1>4, <1>5, <1>6, <2>2 DEF CallSound, Places, After, Held, RequestAt, Getting
  <2> QED BY <2>3, QuietStep DEF Begin
<1>7. CASE op \notin {"manifest", "packages"}
  <2> DEFINE todo == Wanted(op) \ srcState
  <2>1. Requiring(new, todo)
    BY <1>7 DEF Begin
  <2>2. /\ todo \subseteq AllBits \ srcState'
        /\ "isSetUp" \in todo \union srcState'
        /\ "hasLatestLocally" \in todo => "existsLocally" \in todo \union srcState'
    BY <1>3, BitNames DEF Wanted
  <2>3. After(op) \in {"convert", "revisionPresentIn", "disambiguate", "answer"}
    BY DEF After
  <2>4. Held(After(op), op) \subseteq todo \union srcState'
    BY <1>3, <1>7 DEF After, Held, Wanted
  <2>5. RequestAt(new, new.then)
    BY <1>1, <1>4, <1>5 DEF RequestAt, After, Getting
  <2> HIDE DEF new, todo
  <2>6. CallSound'
    BY <1>1, <1>2, <2>1, <2>2, <2>3, <2>4, <2>5, RequiringSound DEF Places
  <2> QED BY <2>6, QuietStep DEF Begin
<1> QED BY <1>6, <1>7

LEMMA UpstreamListed ==
  ASSUME Typed
  PROVE  /\ \A u \in Versions : <<u, Get(upstream.vers, u)>> \in Mapping(upstream)
         /\ IsList(GopkginVersions)
         /\ \A u \in Versions :
              \/ <<u, Get(GopkginVersions, u)>> \in Mapping(upstream)
              \/ u \notin GopkginMajor /\ Get(GopkginVersions, u) = Miss
<1>1. \A u \in Versions : <<u, Get(upstream.vers, u)>> \in Mapping(upstream)
  BY DEF Mapping
<1>2. /\ DOMAIN GopkginVersions = DOMAIN upstream.vers \cap GopkginMajor
      /\ \A u \in DOMAIN GopkginVersions : GopkginVersions[u] = upstream.vers[u]
  BY DEF GopkginVersions, Restrict
<1>3. IsList(GopkginVersions)
  BY <1>2 DEF IsList, Typed
<1>4. \A u \in Versions : u \in GopkginMajor => Get(GopkginVersions, u) = Get(upstream.vers, u)
  BY <1>2 DEF Get
<1>5. \A u \in Versions : u \notin GopkginMajor => Get(GopkginVersions, u) = Miss
  BY <1>2 DEF Get
<1> QED BY <1>1, <1>3, <1>4, <1>5

LEMMA TryFails ==
  ASSUME GatewayInv, AtFlag("isSetUp"), RequireFails, Disk(AfterNewRepo)
  PROVE  GatewayInv'
<1>1. srcState = {}
  BY FlagSound DEF GatewayInv
<1>2. DOMAIN AfterNewRepo = CloneFields /\ IsList(AfterNewRepo.vers) /\ AfterNewRepo.revs \subseteq Revs
  BY NewRepoTyped DEF GatewayInv
<1> QED BY <1>1, <1>2, RequireFailsKeeps

LEMMA TryGitKeeps ==
  ASSUME GatewayInv, TryGit
  PROVE  GatewayInv'
<1>1. AtFlag("isSetUp") /\ kind = "git" /\ UNCHANGED world
  BY DEF TryGit
<1>2. CASE RequireFails /\ Disk(AfterNewRepo)
  BY <1>1, <1>2, TryFails
<1>3. CASE /\ Succeed /\ cache' = SetVersionMap(cache, upstream.vers) /\ Checked(GitBits)
           /\ IF Soiled(AfterNewRepo)
              THEN \E r \in IF clone.revs = {} THEN {"empty"} ELSE clone.revs : Disk([clone EXCEPT !.copy = r])
              ELSE Disk(AfterNewRepo)
  <2>1. \E c : /\ Disk(c) /\ DOMAIN c = CloneFields /\ IsList(c.vers) /\ c.revs \subseteq Revs
               /\ c.exists = AfterNewRepo.exists /\ c.valid /\ ~ Soiled(c)
    <3>1. CASE ~ Soiled(AfterNewRepo)
      BY <1>3, <3>1, NewRepoTyped DEF GatewayInv
    <3>2. CASE Soiled(AfterNewRepo)
      <4>1. PICK r \in IF clone.revs = {} THEN {"empty"} ELSE clone.revs : Disk([clone EXCEPT !.copy = r])
        BY <1>3, <3>2
      <4>2. r # Miss
        BY SourceGatewayAssumption DEF GatewayInv, Typed
      <4>3. AfterNewRepo = clone /\ clone.valid
        BY <3>2, NewRepoTyped DEF GatewayInv
      <4> DEFINE c == [clone EXCEPT !.copy = r]
      <4>4. /\ DOMAIN c = CloneFields /\ c.vers = clone.vers /\ c.revs = clone.revs
            /\ c.exists = clone.exists /\ c.valid = clone.valid /\ c.copy = r
        BY DEF GatewayInv, Typed, CloneFields
      <4> HIDE DEF c
      <4>5. Disk(c)
        BY <4>1 DEF c
      <4> QED BY <4>2, <4>3, <4>4, <4>5 DEF GatewayInv, Typed, Soiled
    <3> QED BY <3>1, <3>2
  <2>2. /\ IsList(upstream.vers)
        /\ \A u \in Versions : <<u, Get(upstream.vers, u)>> \in Mapping(upstream)
    BY UpstreamListed DEF GatewayInv, Typed
  <2>3. "hasLatestVersionList" \in GitBits
    BY DEF GitBits
  <2> QED BY <1>1, <1>3, <2>1, <2>2, <2>3, TrySucceeds
<1> QED BY <1>2, <1>3 DEF TryGit

LEMMA TryGopkginKeeps ==
  ASSUME GatewayInv, TryGopkgin
  PROVE  GatewayInv'
<1>1. AtFlag("isSetUp") /\ kind = "gopkgin" /\ UNCHANGED world /\ Disk(AfterNewRepo)
  BY DEF TryGopkgin
<1>2. CASE RequireFails
  BY <1>1, <1>2, TryFails
<1>3. CASE Succeed /\ cache' = SetVersionMap(cache, GopkginVersions) /\ Checked(GitBits)
  <2>1. /\ DOMAIN AfterNewRepo = CloneFields /\ IsList(AfterNewRepo.vers)
        /\ AfterNewRepo.revs \subseteq Revs /\ AfterNewRepo.valid
    BY NewRepoTyped DEF GatewayInv
  <2>2. /\ IsList(GopkginVersions)
        /\ \A u \in Versions : \/ <<u, Get(GopkginVersions, u)>> \in Mapping(upstream)
                               \/ u \notin GopkginMajor /\ Get(GopkginVersions, u) = Miss
    BY UpstreamListed DEF GatewayInv
  <2>3. "hasLatestVersionList" \in GitBits
    BY DEF GitBits
  <2> QED BY <1>1, <1>3, <2>1, <2>2, <2>3, TrySucceeds
<1> QED BY <1>2, <1>3 DEF TryGopkgin

LEMMA TryOtherKeeps ==
  ASSUME GatewayInv, TryOther
  PROVE  GatewayInv'
<1>1. AtFlag("isSetUp") /\ kind \in {"bzr", "hg"} /\ UNCHANGED world /\ Disk(AfterNewRepo)
  BY DEF TryOther
<1>2. CASE RequireFails
  BY <1>1, <1>2, TryFails
<1>3. CASE Succeed /\ Checked({"isSetUp", "existsUpstream"} \union LocalBit) /\ UNCHANGED cache
  <2>1. /\ DOMAIN AfterNewRepo = CloneFields /\ IsList(AfterNewRepo.vers)
        /\ AfterNewRepo.revs \subseteq Revs /\ AfterNewRepo.valid
    BY NewRepoTyped DEF GatewayInv
  <2>2. "hasLatestVersionList" \notin {"isSetUp", "existsUpstream"} \union LocalBit
    BY DEF LocalBit
  <2> QED BY <1>1, <1>3, <2>1, <2>2, TrySucceeds
<1> QED BY <1>2, <1>3 DEF TryOther

(* A bit after the first is seen to: on a disk like this one, with these bits. *)
LEMMA CheckedKeeps ==
  ASSUME GatewayInv, call.pc = "require", "isSetUp" \in srcState, Succeed, UNCHANGED world, UNCHANGED cache,
         NEW c, Disk(c), DOMAIN c = CloneFields, IsList(c.vers), c.revs \subseteq Revs,
         c.exists, clone.valid => c.valid, Soiled(c) => Soiled(clone),
         NEW bits, bits \subseteq {"existsLocally", "hasLatestLocally"}, Checked(bits),
         "existsLocally" \in srcState \union bits,
         "hasLatestLocally" \in srcState => clone.revs \subseteq c.revs,
         "hasLatestLocally" \in bits => upstream.revs \subseteq c.revs
  PROVE  GatewayInv'
<1>1. /\ UNCHANGED <<kind, upstream, since, cache>>
      /\ clone' = c /\ past' = (past \/ Soiled(c))
  BY DEF Succeed, Disk, world
<1>2. CallSound' /\ srcState' = srcState \union bits /\ srcState' \subseteq AllBits
  <2>1. bits \subseteq AllBits /\ srcState \subseteq AllBits
    BY BitNames DEF GatewayInv, Typed
  <2> QED BY <2>1, CheckedSound DEF GatewayInv
<1>3. Typed'
  BY <1>1, <1>2 DEF GatewayInv, Typed
<1>4. Remembered'
  BY <1>1 DEF GatewayInv, Remembered, Mapping
<1>5. SetUpSound'
  BY <1>1, <1>2 DEF GatewayInv, SetUpSound
<1>6. BitsTrue'
  BY <1>1, <1>2 DEF GatewayInv, BitsTrue, Remembered
<1>7. ListFresh' /\ TreesTrue'
  BY <1>1, CacheKept DEF GatewayInv
<1> QED BY <1>2, <1>3, <1>4, <1>5, <1>6, <1>7 DEF GatewayInv

LEMMA RequireLocallyKeeps ==
  ASSUME GatewayInv, RequireLocally
  PROVE  GatewayInv'
<1>1. /\ AtFlag("existsLocally") /\ UNCHANGED world
      /\ "isSetUp" \in srcState /\ "existsLocally" \notin srcState /\ call.pc = "require"
      /\ "hasLatestLocally" \notin srcState
  BY FlagSound DEF RequireLocally, GatewayInv, AtFlag, BitsTrue
<1>2. CASE clone.exists /\ Checked({"existsLocally"}) /\ Succeed /\ UNCHANGED <<disk, cache>>
  <2>1. Disk(clone)
    BY <1>2 DEF Disk, disk, GatewayInv, Remembered, Typed
  <2>2. DOMAIN clone = CloneFields /\ IsList(clone.vers) /\ clone.revs \subseteq Revs
    BY DEF GatewayInv, Typed
  <2> QED BY <1>1, <1>2, <2>1, <2>2, CheckedKeeps
<1>3. CASE /\ \E c \in Clones(upstream) : Disk(c)
           /\ Checked({"existsLocally", "hasLatestLocally"}) /\ Succeed /\ UNCHANGED cache
  <2>1. PICK c \in Clones(upstream) : Disk(c)
    BY <1>3
  <2>2. IsList(upstream.vers) /\ upstream.revs \subseteq Revs
    BY DEF GatewayInv, Typed
  <2>3. /\ DOMAIN c = CloneFields /\ c.exists /\ c.valid /\ IsList(c.vers) /\ c.revs = upstream.revs
        /\ ~ Soiled(c)
    BY <2>2, CloneTyped
  <2> QED BY <1>1, <1>3, <2>1, <2>2, <2>3, CheckedKeeps
<1>4. CASE RequireFails /\ \E c \in Remains : Disk(c)
  <2>1. PICK c \in Remains : Disk(c)
    BY <1>4
  <2>2. DOMAIN c = CloneFields /\ IsList(c.vers) /\ c.revs = {}
    BY RemainsTyped
  <2> QED BY <1>1, <1>4, <2>1, <2>2, RequireFailsKeeps
<1> QED BY <1>2, <1>3, <1>4 DEF RequireLocally

LEMMA RequireVersionListKeeps ==
  ASSUME GatewayInv, RequireVersionList
  PROVE  GatewayInv'
<1>1. /\ AtFlag("hasLatestVersionList") /\ UNCHANGED world
      /\ "isSetUp" \in srcState /\ "hasLatestVersionList" \notin srcState /\ call.pc = "require"
  BY FlagSound DEF RequireVersionList, GatewayInv, AtFlag
<1>2. kind \in {"bzr", "hg"}
  BY <1>1 DEF GatewayInv, SetUpSound, Typed
<1>3. /\ DOMAIN clone = CloneFields /\ IsList(clone.vers) /\ clone.revs \subseteq Revs
      /\ IsList(upstream.vers) /\ upstream.revs \subseteq Revs
      /\ DOMAIN cache = CacheFields
  BY DEF GatewayInv, Typed
<1>4. ~ clone.exists => "existsLocally" \notin srcState /\ "hasLatestLocally" \notin srcState
  BY DEF GatewayInv, BitsTrue
<1>5. CASE /\ \E c \in IF clone.exists THEN {clone} ELSE Clones(upstream) :
                /\ Disk(c)
                /\ cache' = SetVersionMap(cache, LocalVersions(c))
           /\ Checked({"hasLatestVersionList"}) /\ Succeed
  <2>1. PICK c \in IF clone.exists THEN {clone} ELSE Clones(upstream) :
               Disk(c) /\ cache' = SetVersionMap(cache, LocalVersions(c))
    BY <1>5
  <2>2. /\ DOMAIN c = CloneFields /\ c.exists /\ IsList(c.vers) /\ c.revs \subseteq Revs
        /\ clone.valid => c.valid
        /\ clone.exists => c = clone
    BY <1>3, <2>1, CloneTyped
  <2>3. /\ UNCHANGED <<kind, upstream, since>>
        /\ clone' = c /\ past' = (past \/ Soiled(c))
    BY <1>1, <1>5, <2>1 DEF Succeed, Disk, world
  <2>4. /\ CallSound' /\ srcState' = srcState \union {"hasLatestVersionList"}
        /\ srcState' \subseteq AllBits
    <3>1. {"hasLatestVersionList"} \subseteq AllBits /\ srcState \subseteq AllBits
      BY BitNames DEF GatewayInv, Typed
    <3> QED BY <1>1, <1>5, <3>1, CheckedSound DEF GatewayInv
  <2>5. /\ DOMAIN cache' = CacheFields /\ cache'.listed = TRUE /\ cache'.vMap = c.vers
        /\ cache'.ptrees = cache.ptrees /\ cache'.infos = cache.infos
    BY <1>3, <2>1, ListCached DEF LocalVersions
  <2>6. Typed'
    BY <2>2, <2>3, <2>4, <2>5 DEF GatewayInv, Typed
  <2>7. Remembered'
    BY <2>3 DEF GatewayInv, Remembered, Mapping
  <2>8. SetUpSound'
    BY <1>2, <2>2, <2>3, <2>4 DEF GatewayInv, SetUpSound
  <2>9. BitsTrue'
    BY <1>1, <1>4, <2>2, <2>3, <2>4, <2>5 DEF GatewayInv, BitsTrue
  <2>10. ListFresh' /\ TreesTrue'
    BY <1>2, <2>3, <2>5 DEF GatewayInv, ListFresh, TreesTrue, Spoiling
  <2> QED BY <2>4, <2>6, <2>7, <2>8, <2>9, <2>10 DEF GatewayInv
<1>6. CASE RequireFails /\ \E c \in IF clone.exists THEN {clone} ELSE Remains : Disk(c)
  <2>1. PICK c \in IF clone.exists THEN {clone} ELSE Remains : Disk(c)
    BY <1>6
  <2>2. /\ DOMAIN c = CloneFields /\ IsList(c.vers) /\ c.revs \subseteq Revs
        /\ clone.exists => c = clone
    BY <1>3, <2>1, RemainsTyped
  <2> QED BY <1>4, <1>6, <2>1, <2>2, RequireFailsKeeps
<1> QED BY <1>5, <1>6 DEF RequireVersionList

LEMMA RequireLatestKeeps ==
  ASSUME GatewayInv, RequireLatest
  PROVE  GatewayInv'
<1>1. /\ AtFlag("hasLatestLocally") /\ UNCHANGED world /\ call.pc = "require"
      /\ "isSetUp" \in srcState /\ "hasLatestLocally" \notin srcState /\ "existsLocally" \in srcState
  BY FlagSound DEF RequireLatest, GatewayInv, AtFlag
<1>2. clone.exists
  BY <1>1 DEF GatewayInv, BitsTrue
<1>3. CASE /\ clone.valid /\ Disk(Fetched) /\ Checked({"hasLatestLocally"})
           /\ Succeed /\ UNCHANGED cache
  <2>1. /\ DOMAIN Fetched = CloneFields /\ Fetched.vers = upstream.vers
        /\ Fetched.revs = clone.revs \union upstream.revs
        /\ Fetched.exists = clone.exists /\ Fetched.valid = clone.valid /\ Fetched.copy = clone.copy
    BY DEF Fetched, GatewayInv, Typed, CloneFields
  <2>2. IsList(Fetched.vers) /\ Fetched.revs \subseteq Revs
    BY <2>1 DEF GatewayInv, Typed
  <2>3. Soiled(Fetched) => Soiled(clone)
    BY <2>1 DEF Soiled
  <2> QED BY <1>1, <1>2, <1>3, <2>1, <2>2, <2>3, CheckedKeeps
<1>4. CASE RequireFails /\ UNCHANGED disk
  <2>1. Disk(clone)
    BY <1>4 DEF Disk, disk, GatewayInv, Remembered, Typed
  <2> QED BY <1>2, <1>4, <2>1, RequireFailsKeeps DEF GatewayInv, Typed
<1>5. CASE ~ clone.valid /\ Return("error") /\ UNCHANGED <<disk, known, since, faults>>
  BY <1>1, <1>5, ReturnSound, QuietStep
<1> QED BY <1>3, <1>4, <1>5 DEF RequireLatest

(* A revision that a version is converted to. *)
LEMMA RevisionTyped ==
  ASSUME Typed, CallSound
  PROVE  ToRevision(cache, call.v) \in Revs \union {Miss}
  BY DEF Typed, CallSound, IsList, ToRevision, GetRevisionFor, Get

LEMMA ConvertedSound ==
  ASSUME GatewayInv, call.pc \in {"convert", "convertAgain"}, srcState' = srcState,
         NEW r \in Revs, Converted(r)
  PROVE  CallSound'
<1> DEFINE c == [call EXCEPT !.r = r, !.then = "work"]
<1>1. /\ DOMAIN c = CallFields /\ c.r = r /\ c.then = "work" /\ c.op = call.op /\ c.v = call.v
  BY DEF GatewayInv, CallSound, CallFields
<1>2. r # Miss
  BY SourceGatewayAssumption
<1>3. c.v.r \in Revs \union {Miss} /\ RequestAt(c, c.then)
  BY <1>1, <1>2 DEF GatewayInv, CallSound, RequestAt
<1>4. CASE call.op = "export"
  <2>1. Requiring(c, {})
    BY <1>4 DEF Converted
  <2>2. {"isSetUp", "existsLocally"} \subseteq srcState
    BY <1>4 DEF GatewayInv, CallSound, Held
  <2> HIDE DEF c
  <2>3. Held("work", c.op) \subseteq srcState'
    BY <2>2 DEF Held
  <2> QED BY <1>1, <1>3, <2>1, <2>2, <2>3, RequiringSound DEF Places
<1>5. CASE call.op # "export" /\ Cached(r) # Miss
  BY <1>5, ReturnSound DEF Converted
<1>6. CASE call.op # "export" /\ Cached(r) = Miss
  <2> DEFINE todo == {"isSetUp", "existsLocally"} \ srcState
  <2>1. Requiring(c, todo)
    BY <1>6 DEF Converted
  <2> HIDE DEF c
  <2>2. Held("work", c.op) \subseteq todo \union srcState'
    BY DEF Held
  <2>3. /\ todo \subseteq AllBits \ srcState'
        /\ "isSetUp" \in todo \union srcState'
        /\ "hasLatestLocally" \notin todo
    BY BitNames
  <2> HIDE DEF todo
  <2> QED BY <1>1, <1>3, <2>1, <2>2, <2>3, RequiringSound DEF Places
<1> QED BY <1>4, <1>5, <1>6

LEMMA ConvertKeeps ==
  ASSUME GatewayInv, Convert
  PROVE  GatewayInv'
<1> DEFINE r == ToRevision(cache, call.v)
<1>1. /\ call.pc \in {"convert", "convertAgain"}
      /\ srcState' = srcState /\ UNCHANGED <<world, disk, known, since, faults>>
  BY DEF Convert, known
<1>2. CASE r # Miss
  <2>1. r \in Revs /\ Converted(r)
    BY <1>2, RevisionTyped DEF Convert, GatewayInv
  <2> QED BY <1>1, <2>1, ConvertedSound, QuietStep
<1>3. CASE r = Miss /\ (call.pc = "convertAgain" \/ "hasLatestVersionList" \in srcState)
  BY <1>1, <1>3, ReturnSound, QuietStep DEF Convert
<1>4. CASE r = Miss /\ call.pc # "convertAgain" /\ "hasLatestVersionList" \notin srcState
  <2> DEFINE c == [call EXCEPT !.then = "convertAgain"]
             todo == {"isSetUp", "hasLatestVersionList"} \ srcState
  <2>1. Requiring(c, todo)
    BY <1>4 DEF Convert, Demand
  <2>2. /\ DOMAIN c = CallFields /\ c.then = "convertAgain"
        /\ c.op = call.op /\ c.r = call.r /\ c.v = call.v
    BY DEF GatewayInv, CallSound, CallFields
  <2>3. /\ call.pc = "convert" /\ call.r = call.v.r /\ call.r \in Revs \union {Miss}
        /\ Held("convert", call.op) \subseteq srcState
        /\ call.r = Miss => call.v.u \in Versions
    BY <1>1, <1>4 DEF GatewayInv, CallSound, RequestAt
  <2> HIDE DEF c
  <2>4. RequestAt(c, c.then)
    BY <2>2, <2>3 DEF RequestAt
  <2>5. Held(c.then, c.op) \subseteq todo \union srcState'
    BY <1>1, <2>2, <2>3 DEF Held
  <2>6. /\ todo \subseteq AllBits \ srcState'
        /\ "isSetUp" \in todo \union srcState'
        /\ "hasLatestLocally" \notin todo
    BY <1>1, BitNames
  <2> HIDE DEF todo
  <2>7. CallSound'
    BY <2>1, <2>2, <2>3, <2>4, <2>5, <2>6, RequiringSound DEF Places
  <2> QED BY <1>1, <2>7, QuietStep
<1> QED BY <1>2, <1>3, <1>4

(* The second try finds the bits it needs. *)
LEMMA RetrySound ==
  ASSUME GatewayInv, call.pc \in {"work", "workAgain"}, srcState' = srcState, Retry
  PROVE  CallSound'
<1>1. CASE call.pc = "work" /\ "hasLatestLocally" \notin srcState
  <2> DEFINE c == [call EXCEPT !.then = "workAgain"]
             todo == {"hasLatestLocally"} \ srcState
  <2>1. Requiring(c, todo)
    BY <1>1 DEF Retry, Demand
  <2>2. /\ DOMAIN c = CallFields /\ c.then = "workAgain"
        /\ c.op = call.op /\ c.r = call.r /\ c.v = call.v
    BY DEF GatewayInv, CallSound, CallFields
  <2>3. /\ call.r # Miss /\ call.r \in Revs \union {Miss} /\ call.v.r \in Revs \union {Miss}
        /\ {"isSetUp", "existsLocally"} \subseteq srcState
    BY <1>1 DEF GatewayInv, CallSound, RequestAt, Held
  <2> HIDE DEF c
  <2>4. RequestAt(c, c.then)
    BY <2>2, <2>3 DEF RequestAt
  <2>5. Held(c.then, c.op) \subseteq todo \union srcState'
    BY <2>2, <2>3 DEF Held
  <2>6. /\ todo \subseteq AllBits \ srcState'
        /\ "isSetUp" \in todo \union srcState'
        /\ "hasLatestLocally" \in todo => "existsLocally" \in todo \union srcState'
    BY <2>3, BitNames
  <2> HIDE DEF todo
  <2> QED BY <2>1, <2>2, <2>3, <2>4, <2>5, <2>6, RequiringSound DEF Places
<1>2. CASE ~(call.pc = "work" /\ "hasLatestLocally" \notin srcState)
  BY <1>2, ReturnSound DEF Retry
<1> QED BY <1>1, <1>2

(* A working copy that is checked out anew, or spoilt by a command that fails. *)
LEMMA CopyKeeps ==
  ASSUME GatewayInv, UNCHANGED <<world, srcState, cache>>, CallSound',
         NEW x, Disk([clone EXCEPT !.copy = x]),
         \/ since' = since /\ (x = Miss => Soiled(clone))
         \/ Fail
  PROVE  GatewayInv'
<1> DEFINE c == [clone EXCEPT !.copy = x]
<1>1. /\ DOMAIN c = CloneFields /\ c.exists = clone.exists /\ c.valid = clone.valid
      /\ c.vers = clone.vers /\ c.revs = clone.revs /\ c.copy = x
  BY DEF GatewayInv, Typed, CloneFields
<1>2. clone' = c /\ past' = (past \/ Soiled(c)) /\ UNCHANGED <<kind, upstream>>
  BY DEF Disk, world
<1>3. /\ DOMAIN since' = {"mapped", "lacked", "hurt"}
      /\ since'.mapped = since.mapped /\ since'.lacked = since.lacked
      /\ since.hurt => since'.hurt
      /\ ~ since'.hurt => (Soiled(c) => Soiled(clone))
  BY <1>1, FailRemembered DEF GatewayInv, Typed, Soiled
<1> HIDE DEF c
<1>4. Typed' /\ Remembered'
  BY <1>1, <1>2, <1>3 DEF GatewayInv, Typed, Remembered, Mapping
<1>5. SetUpSound' /\ BitsTrue'
  BY <1>1, <1>2, <1>3 DEF GatewayInv, SetUpSound, BitsTrue
<1>6. ListFresh' /\ TreesTrue'
  BY <1>2, <1>3, CacheKept DEF GatewayInv
<1> QED BY <1>4, <1>5, <1>6 DEF GatewayInv

(* A command that fails and leaves the working copy alone or spoils it. *)
LEMMA FailKeeps ==
  ASSUME GatewayInv, Fail, UNCHANGED <<world, known>>, CallSound',
         NEW c \in {clone, Spoilt}, Disk(c)
  PROVE  GatewayInv'
<1>1. UNCHANGED <<kind, upstream, srcState, cache>>
  BY DEF world, known
<1>2. CASE c = clone
  <2>1. clone' = clone /\ past' = past
    BY <1>2 DEF Disk, GatewayInv, Remembered, Typed
  <2>2. /\ DOMAIN since' = {"mapped", "lacked", "hurt"}
        /\ since'.mapped = since.mapped /\ since'.lacked = since.lacked /\ since'.hurt
    BY FailRemembered DEF GatewayInv
  <2>3. Typed' /\ Remembered'
    BY <1>1, <2>1, <2>2 DEF GatewayInv, Typed, Remembered, Mapping, Soiled
  <2>4. SetUpSound' /\ BitsTrue'
    BY <1>1, <2>1, <2>2 DEF GatewayInv, SetUpSound, BitsTrue
  <2>5. ListFresh' /\ TreesTrue'
    BY <1>1, <2>1, <2>2, CacheKept DEF GatewayInv
  <2> QED BY <2>3, <2>4, <2>5 DEF GatewayInv
<1>3. CASE c = Spoilt
  BY <1>1, <1>3, CopyKeeps DEF Spoilt
<1> QED BY <1>2, <1>3

(* The source had no answer: another try, or an error. *)
LEMMA RetryKeeps ==
  ASSUME GatewayInv, call.pc \in {"work", "workAgain"}, Retry, Succeed, UNCHANGED <<world, disk, known>>
  PROVE  GatewayInv'
<1>1. srcState' = srcState /\ since' = since
  BY DEF known, Succeed
<1> QED BY <1>1, RetrySound, QuietStep

LEMMA RetryAfterFailure ==
  ASSUME GatewayInv, call.pc \in {"work", "workAgain"}, Retry, Fail, UNCHANGED <<world, known>>,
         NEW c \in {clone, Spoilt}, Disk(c)
  PROVE  GatewayInv'
<1>1. srcState' = srcState
  BY DEF known
<1> QED BY <1>1, RetrySound, FailKeeps

(* What is read after a checkout of r. *)
LEMMA StoreTrue ==
  ASSUME GatewayInv, call.pc \in {"work", "workAgain"}, NEW c \in CheckedOut(call.r),
         cache' = Store(cache, c.copy), UNCHANGED <<kind, since, srcState>>, past => past', Disk(c)
  PROVE  /\ DOMAIN cache' = CacheFields /\ cache'.listed = cache.listed /\ cache'.vMap = cache.vMap
         /\ TreesTrue'
<1>1. DOMAIN cache = CacheFields
  BY DEF GatewayInv, Typed
<1>2. "isSetUp" \in srcState
  BY DEF GatewayInv, CallSound, Held
<1>3. ~ Spoiling' => ~ Soiled(clone)
  BY <1>2 DEF Spoiling, GatewayInv, SetUpSound, Remembered
<1>4. ~ Spoiling' => c.copy = call.r
  <2>1. PICK x \in IF Soiled(clone) THEN {call.r, Miss} ELSE {call.r} : c = [clone EXCEPT !.copy = x]
    BY DEF CheckedOut
  <2>2. c.copy = x
    BY <2>1 DEF GatewayInv, Typed, CloneFields
  <2> QED BY <1>3, <2>1, <2>2
<1>5. ~ Spoiling' => ~ Spoiling
  BY DEF Spoiling
<1>6. CASE call.op = "packages"
  <2>1. cache' = SetPackageTree(cache, call.r, Read(call.root, c.copy))
    BY <1>6 DEF Store
  <2>2. /\ DOMAIN cache' = CacheFields /\ cache'.listed = cache.listed /\ cache'.vMap = cache.vMap
        /\ cache'.ptrees = Set(cache.ptrees, call.r, Read(call.root, c.copy))
        /\ cache'.infos = cache.infos
    BY <1>1, <2>1, TreeCached
  <2>3. TreesTrue'
    BY <1>4, <1>5, <2>2 DEF TreesTrue, GatewayInv, Set, Read
  <2> QED BY <2>2, <2>3
<1>7. CASE call.op # "packages"
  <2>1. cache' = SetManifestAndLock(cache, call.r, Analyzer, Read(call.root, c.copy))
    BY <1>7 DEF Store
  <2>2. /\ DOMAIN cache' = CacheFields /\ cache'.listed = cache.listed /\ cache'.vMap = cache.vMap
        /\ cache'.infos = Set(cache.infos, <<call.r, Analyzer>>, Read(call.root, c.copy))
        /\ cache'.ptrees = cache.ptrees
    BY <1>1, <2>1, InfoCached
  <2>3. TreesTrue'
    BY <1>4, <1>5, <2>2 DEF TreesTrue, GatewayInv, Set, Read
  <2> QED BY <2>2, <2>3
<1> QED BY <1>6, <1>7

LEMMA WorkReadKeeps ==
  ASSUME GatewayInv, WorkRead
  PROVE  GatewayInv'
<1>1. call.pc \in {"work", "workAgain"} /\ UNCHANGED world
  BY DEF WorkRead, AtWork
<1>2. CASE /\ \E c \in CheckedOut(call.r) : Disk(c) /\ cache' = Store(cache, c.copy)
           /\ Return("ok") /\ Succeed /\ UNCHANGED srcState
  <2>1. PICK c \in CheckedOut(call.r) : Disk(c) /\ cache' = Store(cache, c.copy)
    BY <1>2
  <2>2. PICK x \in IF Soiled(clone) THEN {call.r, Miss} ELSE {call.r} : c = [clone EXCEPT !.copy = x]
    BY DEF CheckedOut
  <2>3. /\ DOMAIN c = CloneFields /\ c.exists = clone.exists /\ c.valid = clone.valid
        /\ c.vers = clone.vers /\ c.revs = clone.revs /\ c.copy = x
    BY <2>2 DEF GatewayInv, Typed, CloneFields
  <2>4. Soiled(c) => Soiled(clone)
    BY <1>1, <2>2, <2>3 DEF Soiled, GatewayInv, CallSound, RequestAt
  <2>5. /\ UNCHANGED <<kind, upstream, since, srcState>>
        /\ clone' = c /\ past' = (past \/ Soiled(c))
    BY <1>1, <1>2, <2>1 DEF world, Succeed, Disk
  <2>6. /\ DOMAIN cache' = CacheFields /\ cache'.listed = cache.listed /\ cache'.vMap = cache.vMap
        /\ TreesTrue'
    BY <1>1, <2>1, <2>5, StoreTrue
  <2>7. Typed' /\ Remembered'
    BY <2>3, <2>5, <2>6 DEF GatewayInv, Typed, Remembered, Mapping
  <2>8. SetUpSound' /\ BitsTrue'
    BY <2>3, <2>4, <2>5, <2>6 DEF GatewayInv, SetUpSound, BitsTrue
  <2>9. ListFresh'
    BY <2>5, <2>6 DEF GatewayInv, ListFresh
  <2>10. CallSound'
    BY <1>2, ReturnSound
  <2> QED BY <2>6, <2>7, <2>8, <2>9, <2>10 DEF GatewayInv
<1>3. CASE Retry /\ Succeed /\ UNCHANGED <<disk, known>>
  BY <1>1, <1>3, RetryKeeps
<1>4. CASE Fail /\ Retry /\ (\E c \in {clone, Spoilt} : Disk(c)) /\ UNCHANGED known
  BY <1>1, <1>4, RetryAfterFailure
<1> QED BY <1>2, <1>3, <1>4 DEF WorkRead

LEMMA SameDisk ==
  ASSUME GatewayInv, UNCHANGED disk
  PROVE  Disk(clone)
  BY DEF Disk, disk, GatewayInv, Remembered, Typed

LEMMA WorkExportGitKeeps ==
  ASSUME GatewayInv, WorkExportGit
  PROVE  GatewayInv'
<1>1. call.pc \in {"work", "workAgain"} /\ UNCHANGED <<world, known>>
  BY DEF WorkExportGit, AtWork
<1>2. CASE Return("ok") /\ Succeed /\ UNCHANGED disk
  BY <1>1, <1>2, ReturnSound, QuietStep DEF Succeed
<1>3. CASE Retry /\ Succeed /\ UNCHANGED disk
  BY <1>1, <1>3, RetryKeeps
<1>4. CASE Fail /\ Retry /\ UNCHANGED disk
  BY <1>1, <1>4, SameDisk, RetryAfterFailure
<1>5. CASE Fail /\ Return("ok") /\ Disk(Spoilt)
  BY <1>1, <1>5, ReturnSound, FailKeeps
<1> QED BY <1>2, <1>3, <1>4, <1>5 DEF WorkExportGit

LEMMA WorkExportCopyKeeps ==
  ASSUME GatewayInv, WorkExportCopy
  PROVE  GatewayInv'
<1>1. call.pc \in {"work", "workAgain"} /\ UNCHANGED <<world, known>>
  BY DEF WorkExportCopy, AtWork
<1>2. CASE (\E c \in CheckedOut(call.r) : Disk(c)) /\ Return("ok") /\ Succeed
  <2>1. PICK x \in IF Soiled(clone) THEN {call.r, Miss} ELSE {call.r} : Disk([clone EXCEPT !.copy = x])
    BY <1>2 DEF CheckedOut
  <2>2. x = Miss => Soiled(clone)
    BY <1>1, <2>1 DEF GatewayInv, CallSound, RequestAt
  <2>3. UNCHANGED <<world, srcState, cache>> /\ since' = since
    BY <1>1, <1>2 DEF known, Succeed
  <2> QED BY <1>2, <2>1, <2>2, <2>3, ReturnSound, CopyKeeps
<1>3. CASE Retry /\ Succeed /\ UNCHANGED disk
  BY <1>1, <1>3, RetryKeeps
<1>4. CASE Fail /\ Retry /\ (\E c \in {clone, Spoilt} : Disk(c))
  BY <1>1, <1>4, RetryAfterFailure
<1> QED BY <1>2, <1>3, <1>4 DEF WorkExportCopy

LEMMA RevisionPresentInKeeps ==
  ASSUME GatewayInv, RevisionPresentIn
  PROVE  GatewayInv'
<1>1. UNCHANGED <<kind, upstream, clone, past, srcState, since>>
  BY DEF RevisionPresentIn, world, disk
<1>2. CallSound'
  BY ReturnSound DEF RevisionPresentIn
<1>3. cache' = cache \/ cache' = MarkRevisionExists(cache, call.r)
  BY DEF RevisionPresentIn
<1>4. /\ DOMAIN cache' = CacheFields /\ cache'.listed = cache.listed /\ cache'.vMap = cache.vMap
      /\ cache'.ptrees = cache.ptrees /\ cache'.infos = cache.infos
  BY <1>3, MarkCached DEF GatewayInv, Typed
<1>5. Typed' /\ Remembered'
  BY <1>1, <1>4 DEF GatewayInv, Typed, Remembered, Mapping, Soiled
<1>6. SetUpSound' /\ BitsTrue'
  BY <1>1, <1>4 DEF GatewayInv, SetUpSound, BitsTrue, Soiled
<1>7. ListFresh' /\ TreesTrue'
  BY <1>1, <1>4 DEF GatewayInv, ListFresh, TreesTrue, Spoiling
<1> QED BY <1>2, <1>5, <1>6, <1>7 DEF GatewayInv

LEMMA UpstreamChangesKeeps ==
  ASSUME GatewayInv, UpstreamChanges
  PROVE  GatewayInv'
<1>1. PICK up \in Upstreams :
        /\ upstream' = up
        /\ since' = [since EXCEPT !.mapped = @ \union Mapping(up), !.lacked = @ \union (Revs \ up.revs)]
  BY DEF UpstreamChanges
<1>2. UNCHANGED <<kind, clone, past, srcState, cache, call>>
  BY DEF UpstreamChanges, disk, known
<1>3. IsList(up.vers) /\ up.revs \subseteq Revs
  BY UpstreamTyped
<1>4. /\ DOMAIN since' = {"mapped", "lacked", "hurt"} /\ since'.hurt = since.hurt
      /\ since'.mapped = since.mapped \union Mapping(up)
      /\ since'.lacked = since.lacked \union (Revs \ up.revs)
  BY <1>1 DEF GatewayInv, Typed
<1>5. Typed' /\ Remembered'
  BY <1>1, <1>2, <1>3, <1>4 DEF GatewayInv, Typed, Remembered, Mapping, Soiled
<1>6. CallSound'
  BY <1>2 DEF GatewayInv, CallSound
<1>7. SetUpSound' /\ BitsTrue'
  BY <1>2, <1>4 DEF GatewayInv, SetUpSound, BitsTrue, Soiled
<1>8. ListFresh' /\ TreesTrue'
  BY <1>2, <1>4, CacheKept DEF GatewayInv
<1> QED BY <1>5, <1>6, <1>7, <1>8 DEF GatewayInv

LEMMA RestartKeeps ==
  ASSUME GatewayInv, Restart
  PROVE  GatewayInv'
<1>1. /\ srcState' = {} /\ call' = Idle /\ cache' = NewMemoryCache /\ since' = Fresh(upstream)
      /\ UNCHANGED <<kind, upstream>>
  BY DEF Restart
<1>2. PICK c \in Interrupted : Disk(c)
  BY DEF Restart
<1>3. DOMAIN c = CloneFields /\ IsList(c.vers) /\ c.revs \subseteq Revs
  <2>1. c \in {clone, Spoilt} \union Remains
    BY <1>2 DEF Interrupted
  <2>2. /\ DOMAIN Spoilt = CloneFields /\ Spoilt.vers = clone.vers /\ Spoilt.revs = clone.revs
    BY DEF Spoilt, GatewayInv, Typed, CloneFields
  <2> QED BY <2>1, <2>2, RemainsTyped DEF GatewayInv, Typed
<1>4. clone' = c /\ past' = (past \/ Soiled(c))
  BY <1>2 DEF Disk
<1>5. /\ DOMAIN cache' = CacheFields /\ cache'.listed = FALSE /\ IsList(cache'.vMap)
      /\ DOMAIN cache'.ptrees = {} /\ DOMAIN cache'.infos = {}
  BY <1>1 DEF NewMemoryCache, NoVersions, CacheFields, IsList
<1>6. /\ DOMAIN since' = {"mapped", "lacked", "hurt"}
      /\ since'.mapped = Mapping(upstream) /\ since'.lacked = Revs \ upstream.revs
  BY <1>1 DEF Fresh
<1>7. Typed' /\ Remembered'
  BY <1>1, <1>3, <1>4, <1>5, <1>6 DEF GatewayInv, Typed, Remembered, Mapping
<1>8. CallSound'
  BY <1>1 DEF Idle, Nothing, CallSound, CallFields, Places, Held, RequestAt
<1>9. SetUpSound' /\ BitsTrue' /\ ListFresh' /\ TreesTrue'
  BY <1>1, <1>5 DEF SetUpSound, BitsTrue, ListFresh, TreesTrue
<1> QED BY <1>7, <1>8, <1>9 DEF GatewayInv

LEMMA NextKeeps == GatewayInv /\ [Next]_vars => GatewayInv'
<1> SUFFICES ASSUME GatewayInv, [Next]_vars PROVE GatewayInv'
  OBVIOUS
<1>1. CASE Method
  BY <1>1, BeginKeeps DEF Method
<1>2. CASE Step
  <2>1. CASE DisambiguateRevision
    BY <2>1, ReturnSound, QuietStep DEF DisambiguateRevision
  <2> QED BY <1>2, <2>1, TryGitKeeps, TryGopkginKeeps, TryOtherKeeps, RequireLocallyKeeps,
             RequireVersionListKeeps, RequireLatestKeeps, ConvertKeeps, WorkReadKeeps,
             WorkExportGitKeeps, WorkExportCopyKeeps, RevisionPresentInKeeps DEF Step
<1>3. CASE UpstreamChanges \/ Restart
  BY <1>3, UpstreamChangesKeeps, RestartKeeps
<1>4. CASE UNCHANGED vars
  <2>1. UNCHANGED <<world, disk, known, since, call>>
    BY <1>4 DEF vars, world, disk, known
  <2>2. CallSound'
    BY <2>1 DEF GatewayInv, CallSound, known
  <2> QED BY <2>1, <2>2, QuietStep
<1> QED BY <1>1, <1>2, <1>3, <1>4 DEF Next

-----------------------------------------------------------------------------
(* Errors *)

Erred == call'.res = "error" /\ call'.pc = "idle"

(* Seeing to bits is no error. *)
LEMMA RequiringNoError ==
  ASSUME NEW c, NEW todo, DOMAIN c = CallFields, c.then # "idle", Requiring(c, todo)
  PROVE  ~ Erred
<1>1. CASE todo # {}
  BY <1>1 DEF Requiring, Erred, CallFields
<1>2. CASE todo = {} /\ c.then = "answer"
  BY <1>2 DEF Requiring, Return, Idle, Erred
<1>3. CASE todo = {} /\ c.then # "answer"
  BY <1>3 DEF Requiring, Erred, CallFields
<1> QED BY <1>1, <1>2, <1>3

LEMMA CheckedNoError ==
  ASSUME CallSound, call.pc = "require", NEW bits, Checked(bits)
  PROVE  ~ Erred
  BY RequiringNoError DEF CallSound, Checked

LEMMA OkNoError ==
  ASSUME Return("ok")
  PROVE  ~ Erred
  BY DEF Return, Idle, Erred

LEMMA DemandNoError ==
  ASSUME CallSound, NEW wanted, NEW there, there # "idle", Demand(wanted, there)
  PROVE  ~ Erred
<1> DEFINE c == [call EXCEPT !.then = there]
<1>1. DOMAIN c = CallFields /\ c.then = there
  BY DEF CallSound, CallFields
<1>2. Requiring(c, wanted \ srcState)
  BY DEF Demand
<1> HIDE DEF c
<1> QED BY <1>1, <1>2, RequiringNoError

LEMMA ConvertedNoError ==
  ASSUME CallSound, NEW r, Converted(r)
  PROVE  ~ Erred
<1> DEFINE c == [call EXCEPT !.r = r, !.then = "work"]
<1>1. DOMAIN c = CallFields /\ c.then = "work"
  BY DEF CallSound, CallFields
<1>2. \/ Requiring(c, {}) \/ Return("ok")
      \/ Requiring(c, {"isSetUp", "existsLocally"} \ srcState)
  BY DEF Converted
<1> HIDE DEF c
<1> QED BY <1>1, <1>2, RequiringNoError, OkNoError

(* A version that has no revision is not one upstream had all the time. *)
LEMMA ConvertAnswers ==
  ASSUME GatewayInv, Convert, Erred, Obtainable
  PROVE  FALSE
<1>1. call.pc \in {"convert", "convertAgain"} /\ call.r = call.v.r
  BY DEF Convert, GatewayInv, CallSound, RequestAt
<1>2. ToRevision(cache, call.v) = Miss
  BY ConvertedNoError DEF Convert, GatewayInv
<1>3. "hasLatestVersionList" \in srcState
  <2>1. CASE call.pc = "convertAgain"
    BY <2>1 DEF GatewayInv, CallSound, Held
  <2>2. CASE call.pc = "convert"
    BY <1>2, <2>2, DemandNoError DEF Convert, GatewayInv
  <2> QED BY <1>1, <2>1, <2>2
<1>4. call.r = Miss /\ Get(cache.vMap, call.v.u) = Miss
  BY <1>1, <1>2 DEF ToRevision, GetRevisionFor
<1>5. /\ <<call.v.u, Miss>> \notin since.mapped
      /\ kind \in {"git", "gopkgin"}
      /\ kind = "gopkgin" => call.v.u \in GopkginMajor
  BY <1>4 DEF Obtainable
<1>6. cache.listed
  BY <1>3 DEF GatewayInv, BitsTrue
<1>7. call.v.u \in Versions
  BY <1>1, <1>4 DEF GatewayInv, CallSound, RequestAt
<1> QED BY <1>4, <1>5, <1>6, <1>7 DEF GatewayInv, ListFresh

(* A second try that finds no revision: upstream did not have it all the time,
   or the clone was damaged. *)
LEMMA RetryAnswers ==
  ASSUME GatewayInv, call.pc \in {"work", "workAgain"}, Retry, Erred, Obtainable,
         ~ Has(call.r) \/ Soiled(clone)
  PROVE  since.hurt \/ (kind # "git" /\ past)
<1>1. "hasLatestLocally" \in srcState /\ "isSetUp" \in srcState
  <2>1. ~(call.pc = "work" /\ "hasLatestLocally" \notin srcState)
    BY DemandNoError DEF Retry, GatewayInv
  <2> QED BY <2>1 DEF GatewayInv, CallSound, Held
<1>2. call.r \in Revs /\ call.r # Miss
  BY DEF GatewayInv, CallSound, RequestAt
<1>3. call.r \in clone.revs
  BY <1>1, <1>2 DEF Obtainable, GatewayInv, BitsTrue
<1>4. ~ since.hurt => clone.valid /\ (kind = "git" => ~ Soiled(clone))
  BY <1>1 DEF GatewayInv, SetUpSound
<1>5. Soiled(clone) => past
  BY DEF GatewayInv, Remembered
<1> QED BY <1>3, <1>4, <1>5 DEF Has

LEMMA FailHurts ==
  ASSUME GatewayInv, Fail
  PROVE  since'.hurt
  BY FailRemembered DEF GatewayInv

LEMMA StepAnswers ==
  ASSUME GatewayInv, [Next]_vars, call.op \in Getting, Erred, Obtainable
  PROVE  since'.hurt \/ (kind # "git" /\ past)
<1>1. call.pc # "idle"
  BY DEF GatewayInv, CallSound, Getting
<1>2. CASE TryGit \/ TryGopkgin \/ TryOther \/ RequireLocally \/ RequireVersionList
  <2>1. call.pc = "require"
    BY <1>2 DEF TryGit, TryGopkgin, TryOther, RequireLocally, RequireVersionList, AtFlag
  <2>2. RequireFails
    BY <1>2, <2>1, CheckedNoError
       DEF GatewayInv, TryGit, TryGopkgin, TryOther, RequireLocally, RequireVersionList
  <2> QED BY <2>2, FailHurts DEF RequireFails
<1>3. CASE RequireLatest
  <2>1. call.pc = "require" /\ "isSetUp" \in srcState
    BY <1>3, FlagSound DEF RequireLatest, AtFlag, GatewayInv
  <2>2. RequireFails \/ (~ clone.valid /\ since' = since)
    BY <1>3, <2>1, CheckedNoError DEF GatewayInv, RequireLatest
  <2> QED BY <2>1, <2>2, FailHurts DEF RequireFails, GatewayInv, SetUpSound
<1>4. CASE Convert
  BY <1>4, ConvertAnswers
<1>5. CASE WorkRead \/ WorkExportGit \/ WorkExportCopy
  <2>1. call.pc \in {"work", "workAgain"}
    BY <1>5 DEF WorkRead, WorkExportGit, WorkExportCopy, AtWork
  <2>2. \/ Fail
        \/ Retry /\ Succeed /\ (~ Has(call.r) \/ Soiled(clone))
    BY <1>5, OkNoError DEF WorkRead, WorkExportGit, WorkExportCopy
  <2> QED BY <2>1, <2>2, FailHurts, RetryAnswers DEF Succeed
<1>6. CASE RevisionPresentIn \/ DisambiguateRevision
  <2>1. call.pc \in {"revisionPresentIn", "disambiguate"} /\ call.op = call.pc
    BY <1>6 DEF RevisionPresentIn, DisambiguateRevision, GatewayInv, CallSound, RequestAt
  <2> QED BY <2>1 DEF Getting
<1>7. CASE Method
  BY <1>1, <1>7 DEF Method, Begin
<1>8. CASE UpstreamChanges \/ UNCHANGED vars
  BY <1>1, <1>8 DEF UpstreamChanges, vars, Erred
<1>9. CASE Restart
  BY <1>9 DEF Restart, Idle, Erred
<1> QED BY <1>2, <1>3, <1>4, <1>5, <1>6, <1>7, <1>8, <1>9 DEF Next, Step

-----------------------------------------------------------------------------
(* The inductive invariant holds: of every gateway, whatever its source, and of
   every one that a later process makes for the same clone. *)
THEOREM GatewayInvariant == Spec => []GatewayInv
<1>1. Init => GatewayInv
  BY InitKeeps
<1> QED BY <1>1, NextKeeps, PTL DEF Spec

(* require() of gps/source.go may rely on its bits: what they say is so, whatever
   was on disk before and whichever commands failed. *)
THEOREM BitsAlwaysTrue == Spec => []BitsTrue
<1>1. GatewayInv => BitsTrue
  BY DEF GatewayInv
<1> QED BY <1>1, GatewayInvariant, PTL

(* The version list of a git gateway is one that upstream had while the process
   ran (listVersions() of gps/vcs_source.go); for gopkg.in, restricted to the
   major version. *)
THEOREM ListAlwaysFresh == Spec => []ListFresh
<1>1. GatewayInv => ListFresh
  BY DEF GatewayInv
<1> QED BY <1>1, GatewayInvariant, PTL

(* getManifestAndLock() and listPackages() cache, for a revision, what they read
   of that revision, unless a checkout went wrong. *)
THEOREM TreesAlwaysTrue == Spec => []TreesTrue
<1>1. GatewayInv => TreesTrue
  BY DEF GatewayInv
<1> QED BY <1>1, GatewayInvariant, PTL

(* A version that upstream had all the time is exported, and its manifest and its
   packages are read, unless a command failed: the methods that convert and retry
   return an error for no other reason. *)
THEOREM AlwaysAnswered == Spec => Answered
<1>1. GatewayInv /\ [Next]_vars =>
        [call.op \in {"export", "manifest", "packages"} /\ call'.res = "error" /\ call'.pc = "idle"
         /\ Obtainable => since'.hurt \/ (kind # "git" /\ past)]_vars
  BY StepAnswers DEF Getting, Erred
<1> QED BY <1>1, GatewayInvariant, PTL DEF Spec, Answered
=============================================================================
