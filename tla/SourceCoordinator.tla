------------------------- MODULE SourceCoordinator --------------------------
(***************************************************************************)
(* sourceCoordinator of gps/source.go: concurrent calls of                 *)
(* getSourceGatewayFor(), one for each thread.  A step is what is done     *)
(* under one lock, or one call of the deducer or the new gateway; those    *)
(* two answer as the environment decides, and may fail.                    *)
(*                                                                         *)
(* Names are import paths and source URLs, which the code keeps in the     *)
(* same maps.  A gateway is identified with the thread that made it.       *)
(***************************************************************************)
EXTENDS Naturals, FiniteSets

CONSTANTS Threads, Names, None,
          toFold,     \* the case-folded form of each name
          sourceURL,  \* the URL a gateway made for a name settles on
          Asked       \* the names that are asked for

ASSUME SourceCoordinatorAssumption ==
  /\ None \notin Threads /\ None \notin Names
  /\ toFold \in [Names -> Names] /\ sourceURL \in [Names -> Names]
  /\ Asked \subseteq Names
  /\ "error" \notin Threads /\ None # "error"

VARIABLES
  nameToURL,  \* the URL of each name, or None
  srcs,       \* the gateway of each URL, or None
  protoSrcs,  \* the folded names somebody is at work on
  waiting,    \* the threads whose channels are attached to each of them
  pc, name,   \* where each thread is, and the name it asks for
  url,        \* the URL it goes on with
  got         \* what it got: None, a gateway or "error"

maps == <<nameToURL, srcs>>
coordinatorVars == <<nameToURL, srcs, protoSrcs, waiting, pc, name, url, got>>

Folded(t) == toFold[name[t]]

CoordinatorInit ==
  /\ nameToURL = [n \in Names |-> None]
  /\ srcs = [n \in Names |-> None]
  /\ protoSrcs = {}
  /\ waiting = [n \in Names |-> {}]
  /\ pc = [t \in Threads |-> "start"]
  /\ name \in [Threads -> Asked]
  /\ url = [t \in Threads |-> None]
  /\ got = [t \in Threads |-> None]

GoTo(t, there) == pc' = [pc EXCEPT ![t] = there]

(* The gateway recorded for a URL is returned; that there is none panics.  *)
Found(t, u) ==
  IF srcs[u] = None THEN GoTo(t, "panic") /\ UNCHANGED got
  ELSE GoTo(t, "done") /\ got' = [got EXCEPT ![t] = srcs[u]]

(* doReturn(): everybody who waits gets the answer too. *)
DoReturn(t, answer) ==
  /\ got' = [x \in Threads |-> IF x = t \/ x \in waiting[Folded(t)] THEN answer ELSE got[x]]
  /\ protoSrcs' = protoSrcs \ {Folded(t)}
  /\ waiting' = [waiting EXCEPT ![Folded(t)] = {}]
  /\ GoTo(t, "done")

-----------------------------------------------------------------------------
(* Look the name up, and then its folded form; a canceled context ends it. *)
Lookup(t) ==
  /\ pc[t] = "start"
  /\ \/ /\ GoTo(t, "done")
        /\ got' = [got EXCEPT ![t] = "error"]
        /\ UNCHANGED url
     \/ /\ nameToURL[name[t]] # None
        /\ Found(t, nameToURL[name[t]])
        /\ UNCHANGED url
     \/ /\ nameToURL[name[t]] = None
        /\ Folded(t) # name[t] /\ nameToURL[Folded(t)] # None
        /\ url' = [url EXCEPT ![t] = nameToURL[Folded(t)]]
        /\ GoTo(t, "upgrade")
        /\ UNCHANGED got
     \/ /\ nameToURL[name[t]] = None
        /\ Folded(t) = name[t] \/ nameToURL[Folded(t)] = None
        /\ GoTo(t, "proto")
        /\ UNCHANGED <<got, url>>
  /\ UNCHANGED <<maps, protoSrcs, waiting, name>>

(* Under the write lock, record the URL found for the folded name. *)
Upgrade(t) ==
  /\ pc[t] = "upgrade"
  /\ nameToURL' = [nameToURL EXCEPT ![name[t]] = url[t]]
  /\ Found(t, url[t])
  /\ UNCHANGED <<srcs, protoSrcs, waiting, name, url>>

(* Mutant: the work others are at is not looked for. *)
ProtoAlways(t) ==
  /\ pc[t] = "proto"
  /\ protoSrcs' = protoSrcs \cup {Folded(t)}
  /\ waiting' = [waiting EXCEPT ![Folded(t)] = {}]
  /\ GoTo(t, "deduce")
  /\ UNCHANGED <<maps, name, url, got>>

(* Join the thread that is at work on the folded name, or go to work.      *)
Proto(t) ==
  /\ pc[t] = "proto"
  /\ IF Folded(t) \in protoSrcs
     THEN /\ waiting' = [waiting EXCEPT ![Folded(t)] = @ \cup {t}]
          /\ GoTo(t, "await")
          /\ UNCHANGED protoSrcs
     ELSE /\ protoSrcs' = protoSrcs \cup {Folded(t)}
          /\ GoTo(t, "deduce")
          /\ UNCHANGED waiting
  /\ UNCHANGED <<maps, name, url, got>>

(* awaitReturn() *)
Await(t) ==
  /\ pc[t] = "await" /\ got[t] # None
  /\ GoTo(t, "done")
  /\ UNCHANGED <<maps, protoSrcs, waiting, name, url, got>>

(* Mutant: a failed deduction is not passed on to those who wait. *)
DeduceSilent(t) ==
  /\ pc[t] = "deduce"
  /\ \/ /\ GoTo(t, "recheck")
        /\ UNCHANGED <<protoSrcs, waiting, got>>
     \/ /\ GoTo(t, "done")
        /\ got' = [got EXCEPT ![t] = "error"]
        /\ protoSrcs' = protoSrcs \ {Folded(t)}
        /\ waiting' = [waiting EXCEPT ![Folded(t)] = {}]
  /\ UNCHANGED <<maps, name, url>>

Deduce(t) ==
  /\ pc[t] = "deduce"
  /\ \/ /\ GoTo(t, "recheck")
        /\ UNCHANGED <<protoSrcs, waiting, got>>
     \/ DoReturn(t, "error")
  /\ UNCHANGED <<maps, name, url>>

(* Look the folded name up once more. *)
Recheck(t) ==
  /\ pc[t] = "recheck"
  /\ IF nameToURL[Folded(t)] = None
     THEN GoTo(t, "try") /\ UNCHANGED <<protoSrcs, waiting, got>>
     ELSE IF srcs[nameToURL[Folded(t)]] = None
     THEN GoTo(t, "panic") /\ UNCHANGED <<protoSrcs, waiting, got>>
     ELSE DoReturn(t, srcs[nameToURL[Folded(t)]])
  /\ UNCHANGED <<maps, name, url>>

(* newSourceGateway() and its sourceURL() *)
Try(t) ==
  /\ pc[t] = "try"
  /\ \/ /\ url' = [url EXCEPT ![t] = sourceURL[name[t]]]
        /\ GoTo(t, "register")
        /\ UNCHANGED <<protoSrcs, waiting, got>>
     \/ /\ DoReturn(t, "error")
        /\ UNCHANGED url
  /\ UNCHANGED <<maps, name>>

(* The URL is folded when the name was not folded. *)
URLKey(t) == IF Folded(t) # name[t] THEN toFold[url[t]] ELSE url[t]

(* The names recorded for it. *)
Aliases(t) ==
  {Folded(t), URLKey(t)} \cup IF Folded(t) # name[t] THEN {name[t], url[t]} ELSE {}

(* Mutant: a gateway that is there is replaced. *)
RegisterOver(t) ==
  /\ pc[t] = "register"
  /\ nameToURL' = [n \in Names |-> IF n \in Aliases(t) THEN URLKey(t) ELSE nameToURL[n]]
  /\ srcs' = [srcs EXCEPT ![URLKey(t)] = t]
  /\ DoReturn(t, t)
  /\ UNCHANGED <<name, url>>

(* Mutant: the gateway is not entered under its URL. *)
RegisterNames(t) ==
  /\ pc[t] = "register"
  /\ nameToURL' = [n \in Names |-> IF n \in Aliases(t) THEN URLKey(t) ELSE nameToURL[n]]
  /\ DoReturn(t, IF srcs[URLKey(t)] = None THEN t ELSE srcs[URLKey(t)])
  /\ UNCHANGED <<srcs, name, url>>

(* Enter the names and, unless its URL has one, the gateway. *)
Register(t) ==
  /\ pc[t] = "register"
  /\ nameToURL' = [n \in Names |-> IF n \in Aliases(t) THEN URLKey(t) ELSE nameToURL[n]]
  /\ srcs' = [srcs EXCEPT ![URLKey(t)] = IF @ = None THEN t ELSE @]
  /\ DoReturn(t, IF srcs[URLKey(t)] = None THEN t ELSE srcs[URLKey(t)])
  /\ UNCHANGED <<name, url>>

ThreadStep(t) ==
  \/ Lookup(t) \/ Upgrade(t) \/ Proto(t) \/ Await(t) \/ Deduce(t) \/ Recheck(t)
  \/ Try(t) \/ Register(t)

CoordinatorNext == \E t \in Threads : ThreadStep(t)

CoordinatorSpec == CoordinatorInit /\ [][CoordinatorNext]_coordinatorVars

(* Every thread keeps running; deducing and trying a source return.        *)
FairCoordinatorSpec == CoordinatorSpec /\ \A t \in Threads : WF_coordinatorVars(ThreadStep(t))

-----------------------------------------------------------------------------
Working == {"deduce", "recheck", "try", "register"}

(* The maps and the threads keep their types.                              *)
TypeOK ==
  /\ nameToURL \in [Names -> Names \cup {None}]
  /\ srcs \in [Names -> Threads \cup {None}]
  /\ protoSrcs \subseteq Names
  /\ waiting \in [Names -> SUBSET Threads]
  /\ pc \in [Threads -> Working \cup {"start", "upgrade", "proto", "await", "done", "panic"}]
  /\ name \in [Threads -> Names]
  /\ url \in [Threads -> Names \cup {None}]
  /\ got \in [Threads -> Threads \cup {None, "error"}]

(* Every URL in nameToURL has its gateway, so none of the three panics is  *)
(* reached, whatever thread comes in between.                              *)
NoPanic == \A t \in Threads : pc[t] # "panic"

(* Whoever waits for an answer it has not got waits for a thread that is   *)
(* at work on the same folded name, and one thread alone is at work on it. *)
WaitedFor ==
  /\ \A t \in Threads : pc[t] = "await" /\ got[t] = None =>
       \E w \in Threads : pc[w] \in Working /\ Folded(w) = Folded(t)
  /\ \A v, w \in Threads :
       pc[v] \in Working /\ pc[w] \in Working /\ Folded(v) = Folded(w) => v = w

Gateways == {g \in Threads : \E t \in Threads : got[t] = g}

(* Two gateways that are handed out never work on the same source, not     *)
(* even on one whose URL differs in case: disk access goes through one.    *)
(* It is so where a name in lower case leads to a URL in lower case, as on *)
(* the hosts the deducer knows (URLsFolded).  With a vanity name among     *)
(* Asked TLC refutes it: its URL is folded for some spellings only.        *)
OneGateway ==
  \A g, h \in Gateways :
    toFold[sourceURL[name[g]]] = toFold[sourceURL[name[h]]] => g = h

(* Every call returns, with a gateway or an error.                         *)
EveryoneAnswered == \A t \in Threads : <>(pc[t] = "done" /\ got[t] # None)
=============================================================================
