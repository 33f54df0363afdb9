--------------------------- MODULE SourceManager ----------------------------
(***************************************************************************)
(* SourceMgr of gps/source_manager.go as its goroutines see it: method     *)
(* calls and the supervisor that counts them, Release(), and the signal    *)
(* handlers.  What a call does with a source is left to the environment:   *)
(* it ends by itself or because its context is canceled.                   *)
(*                                                                         *)
(* One goroutine, Main, owns the SourceMgr: it sets up and stops signal    *)
(* handling and releases the SourceMgr in the end, as the commands of dep  *)
(* do; so nobody ever waits for sigmut.                                    *)
(***************************************************************************)
EXTENDS Integers, FiniteSets

CONSTANTS Callers,      \* the goroutines that call methods
          CallInfos,    \* the keys under which the supervisor counts calls
          MaxHandlers   \* how often HandleSignals() is called

ASSUME SourceManagerAssumption ==
  IsFiniteSet(Callers) /\ MaxHandlers \in Nat

Main      == 0
Handlers  == 1..MaxHandlers        \* the n-th call of HandleSignals() starts n
Releasers == {Main} \cup Handlers

(* NewSourceManager() makes channel 0, the n-th HandleSignals() channel n. *)
NoChan == MaxHandlers + 1
Chans  == 0..MaxHandlers

VARIABLES
  releasing,  \* sm.releasing
  canceled,   \* cancelAll() was called
  running,    \* how many calls the supervisor counts under each key
  once,       \* relonce is "free", "taken" or "done"
  locked,     \* sm.lock is held
  qch,        \* sm.qch
  closed,     \* the channels that are closed
  started,    \* how many handlers were started
  call,       \* where each caller is
  key,        \* the key each caller is counted under
  rel,        \* where each releaser is
  panicked

callVars == <<running, call, key>>
sigVars  == <<qch, closed, started>>
vars == <<releasing, canceled, once, locked, rel, panicked, callVars, sigVars>>

Init ==
  /\ releasing = FALSE /\ canceled = FALSE
  /\ running = [i \in CallInfos |-> 0]
  /\ once = "free"
  /\ locked = TRUE
  /\ qch = 0 /\ closed = {} /\ started = 0
  /\ call = [c \in Callers |-> "idle"]
  /\ key \in [Callers -> CallInfos]
  /\ rel = [r \in Releasers |-> IF r = Main THEN "idle" ELSE "off"]
  /\ panicked = FALSE

-----------------------------------------------------------------------------
(* Method calls and the supervisor *)

(* A panic ends the process: no goroutine goes on. *)
CallAt(c, there) == ~panicked /\ call' = [call EXCEPT ![c] = there]

NotCalls == UNCHANGED <<releasing, canceled, once, locked, sigVars>>

(* A method looks at sm.releasing, but for SourceURLsForPath().            *)
Enter(c) ==
  /\ call[c] = "idle"
  /\ \E checks \in BOOLEAN : checks => ~releasing
  /\ CallAt(c, "gate")
  /\ NotCalls /\ UNCHANGED <<running, key, rel, panicked>>

(* getSourceGatewayFor() and deduceRootPath() look at the context first.   *)
Gate(c) ==
  /\ call[c] = "gate"
  /\ CallAt(c, IF canceled THEN "idle" ELSE "op")
  /\ NotCalls /\ UNCHANGED <<running, key, rel, panicked>>

(* Mutant: the context is not looked at when a call is counted. *)
StartLate(c, i) ==
  /\ call[c] = "op"
  /\ running' = [running EXCEPT ![i] = @ + 1]
  /\ key' = [key EXCEPT ![c] = i]
  /\ CallAt(c, "in")
  /\ NotCalls /\ UNCHANGED <<rel, panicked>>

(* supervisor.do() starts an operation, unless the context is canceled.    *)
Start(c, i) ==
  /\ call[c] = "op"
  /\ \/ /\ canceled
        /\ CallAt(c, "idle")
        /\ UNCHANGED <<running, key>>
     \/ /\ ~canceled
        /\ running' = [running EXCEPT ![i] = @ + 1]
        /\ key' = [key EXCEPT ![c] = i]
        /\ CallAt(c, "in")
  /\ NotCalls /\ UNCHANGED <<rel, panicked>>

(* Whoever waits in cond.Wait() is woken. *)
Woken == [r \in Releasers |-> IF rel[r] = "parked" THEN "wait" ELSE rel[r]]

(* Mutant: the condition is not signalled. *)
DoneNoSignal(c) ==
  /\ call[c] = "in"
  /\ running' = [running EXCEPT ![key[c]] = @ - 1]
  /\ CallAt(c, "op")
  /\ NotCalls /\ UNCHANGED <<key, rel, panicked>>

(* Mutant: a key that several calls share is deleted by the first.         *)
DoneDeletes(c) ==
  /\ call[c] = "in"
  /\ running' = [running EXCEPT ![key[c]] = 0]
  /\ rel' = IF \A i \in CallInfos : running'[i] = 0 THEN Woken ELSE rel
  /\ CallAt(c, "op")
  /\ NotCalls /\ UNCHANGED <<key, panicked>>

(* Mutant: the branches for the last and for other calls are swapped.      *)
DoneSwapped(c) ==
  /\ call[c] = "in"
  /\ running' = [running EXCEPT ![key[c]] = IF @ > 1 THEN 0 ELSE @ - 1]
  /\ rel' = IF \A i \in CallInfos : running'[i] = 0 THEN Woken ELSE rel
  /\ CallAt(c, "op")
  /\ NotCalls /\ UNCHANGED <<key, panicked>>

(* The operation returns and supervisor.done() uncounts it; the last one   *)
(* signals the condition.                                                  *)
Done(c) ==
  /\ call[c] = "in"
  /\ IF running[key[c]] = 0
     THEN ~panicked /\ panicked' = TRUE /\ UNCHANGED <<running, call, rel>>
     ELSE /\ running' = [running EXCEPT ![key[c]] = @ - 1]
          /\ rel' = IF \A i \in CallInfos : running'[i] = 0 THEN Woken ELSE rel
          /\ CallAt(c, "op")
          /\ UNCHANGED panicked
  /\ NotCalls /\ UNCHANGED key

(* revisionPresentIn() and disambiguateRevision() use the source without   *)
(* the supervisor.                                                         *)
Bare(c) ==
  /\ call[c] = "op"
  /\ CallAt(c, "bare")
  /\ NotCalls /\ UNCHANGED <<running, key, rel, panicked>>

Return(c) ==
  /\ call[c] \in {"op", "bare"}
  /\ CallAt(c, "idle")
  /\ NotCalls /\ UNCHANGED <<running, key, rel, panicked>>

-----------------------------------------------------------------------------
(* Release() *)

RelAt(r, there) == ~panicked /\ rel' = [rel EXCEPT ![r] = there]

Close(ch) ==
  IF ch = NoChan \/ ch \in closed
  THEN panicked' = TRUE /\ UNCHANGED closed
  ELSE closed' = closed \cup {ch} /\ UNCHANGED panicked

Store(r) ==
  /\ rel[r] = "store"
  /\ releasing' = TRUE
  /\ RelAt(r, "once")
  /\ UNCHANGED <<canceled, once, locked, panicked, callVars, sigVars>>

(* Mutant: each Release() does the work. *)
OnceEach(r) ==
  /\ rel[r] = "once"
  /\ once' = "taken" /\ canceled' = TRUE
  /\ RelAt(r, "wait")
  /\ UNCHANGED <<releasing, locked, panicked, callVars, sigVars>>

(* relonce.Do(): the first runs it, and the others wait until it is done.  *)
Once(r) ==
  /\ rel[r] = "once"
  /\ \/ /\ once = "free"
        /\ once' = "taken" /\ canceled' = TRUE
        /\ RelAt(r, "wait")
     \/ /\ once = "done"
        /\ RelAt(r, "done")
        /\ UNCHANGED <<once, canceled>>
  /\ UNCHANGED <<releasing, locked, panicked, callVars, sigVars>>

(* supervisor.wait() *)
Wait(r) ==
  /\ rel[r] = "wait"
  /\ RelAt(r, IF \A i \in CallInfos : running[i] = 0 THEN "unlock" ELSE "parked")
  /\ UNCHANGED <<releasing, canceled, once, locked, panicked, callVars, sigVars>>

Unlock(r) ==
  /\ rel[r] = "unlock"
  /\ locked' = FALSE
  /\ RelAt(r, "check")
  /\ UNCHANGED <<releasing, canceled, once, panicked, callVars, sigVars>>

(* Mutant: the quit channel is left open. *)
CheckQchSkips(r) ==
  /\ rel[r] = "check"
  /\ RelAt(r, "done") /\ once' = "done"
  /\ UNCHANGED <<releasing, canceled, locked, panicked, callVars, sigVars>>

(* if sm.qch != nil *)
CheckQch(r) ==
  /\ rel[r] = "check"
  /\ IF qch = NoChan THEN RelAt(r, "done") /\ once' = "done"
                     ELSE RelAt(r, "close") /\ UNCHANGED once
  /\ UNCHANGED <<releasing, canceled, locked, panicked, callVars, sigVars>>

CloseQch(r) ==
  /\ rel[r] = "close"
  /\ Close(qch)
  /\ RelAt(r, "done") /\ once' = "done"
  /\ UNCHANGED <<releasing, canceled, locked, qch, started, callVars>>

-----------------------------------------------------------------------------
(* Main *)

NotSignals == UNCHANGED <<releasing, canceled, once, locked, callVars>>

(* HandleSignals() and StopSignalHandling() close the channel there is ... *)
HandleSignals ==
  /\ rel[Main] = "idle" /\ started < MaxHandlers
  /\ IF qch = NoChan THEN UNCHANGED <<closed, panicked>> ELSE Close(qch)
  /\ RelAt(Main, "handle")
  /\ NotSignals /\ UNCHANGED <<qch, started>>

(* ... and make another, with a new handler that waits on it,              *)
NewHandler ==
  /\ rel[Main] = "handle" /\ ~panicked
  /\ started' = started + 1
  /\ qch' = started + 1
  /\ rel' = [rel EXCEPT ![Main] = "idle", ![started + 1] = "on"]
  /\ NotSignals /\ UNCHANGED <<closed, panicked>>

StopSignalHandling ==
  /\ rel[Main] = "idle"
  /\ qch # NoChan
  /\ Close(qch)
  /\ RelAt(Main, "stop")
  /\ NotSignals /\ UNCHANGED <<qch, started>>

(* ... or clear it. *)
ClearQch ==
  /\ rel[Main] = "stop"
  /\ qch' = NoChan
  /\ RelAt(Main, "idle")
  /\ NotSignals /\ UNCHANGED <<closed, started, panicked>>

MainReleases ==
  /\ rel[Main] = "idle"
  /\ RelAt(Main, "store")
  /\ NotSignals /\ UNCHANGED <<sigVars, panicked>>

(* A handler: a signal makes it Release(), a closed channel ends it.       *)
Signal(h) ==
  /\ rel[h] = "on"
  /\ RelAt(h, "store")
  /\ NotSignals /\ UNCHANGED <<sigVars, panicked>>

Quit(h) ==
  /\ rel[h] = "on" /\ h \in closed
  /\ RelAt(h, "done")
  /\ NotSignals /\ UNCHANGED <<sigVars, panicked>>

-----------------------------------------------------------------------------
Calling(c) == Enter(c) \/ Gate(c) \/ (\E i \in CallInfos : Start(c, i)) \/ Bare(c) \/ Return(c)

Releasing(r) == Store(r) \/ Once(r) \/ Wait(r) \/ Unlock(r) \/ CheckQch(r) \/ CloseQch(r)

Signals == HandleSignals \/ NewHandler \/ StopSignalHandling \/ ClearQch \/ MainReleases

Next ==
  \/ \E c \in Callers : Calling(c) \/ Done(c)
  \/ \E r \in Releasers : Releasing(r)
  \/ \E h \in Handlers : Signal(h) \/ Quit(h)
  \/ Signals

Spec == Init /\ [][Next]_vars

(* Operations return, by themselves or canceled; Release() and the         *)
(* handlers keep running.  Nobody has to call anything.                    *)
FairSpec ==
  /\ Spec
  /\ \A c \in Callers : WF_vars(Done(c))
  /\ \A r \in Releasers : WF_vars(Releasing(r))
  /\ \A h \in Handlers : WF_vars(Quit(h))
  /\ WF_vars(NewHandler \/ ClearQch)

-----------------------------------------------------------------------------
(* The fields of SourceMgr and its supervisor keep their types; no count   *)
(* goes below zero.                                                        *)
TypeOK ==
  /\ releasing \in BOOLEAN /\ canceled \in BOOLEAN
  /\ locked \in BOOLEAN /\ panicked \in BOOLEAN
  /\ running \in [CallInfos -> Nat]
  /\ once \in {"free", "taken", "done"}
  /\ qch \in Chans \cup {NoChan} /\ closed \subseteq Chans
  /\ started \in 0..MaxHandlers
  /\ call \in [Callers -> {"idle", "gate", "op", "in", "bare"}]
  /\ key \in [Callers -> CallInfos]
  /\ rel \in [Releasers -> {"idle", "off", "on", "handle", "stop", "store", "once", "wait",
                            "parked", "unlock", "check", "close", "done"}]

CountedUnder(i) == {c \in Callers : call[c] = "in" /\ key[c] = i}

(* Under each key the supervisor counts the operations that run under it,  *)
(* whatever calls share the key, so done() always finds its entry.         *)
CountsExact == \A i \in CallInfos : running[i] = Cardinality(CountedUnder(i))

(* The lock on the cache is given up only when every operation the         *)
(* supervisor started has returned, and none starts afterwards.            *)
ReleaseWaits == ~locked => \A c \in Callers : call[c] # "in"

(* Signal handling was set up at most once and not stopped since, which is *)
(* all that the commands of dep do.                                        *)
SetUpOnce ==
  /\ started <= 1 /\ qch # NoChan
  /\ rel[Main] # "stop" /\ (rel[Main] = "handle" => started = 0)

(* As long as signal handling is left alone once set up, no interleaving   *)
(* of signals, Release() and calls closes a channel twice.                 *)
NoPanic == SetUpOnce => ~panicked

(* HandleSignals() and StopSignalHandling() may be called at any time.     *)
(* TLC refutes it: Release() closes qch without clearing it.               *)
SignalsReconfigurable == ~panicked

(* No call of a method uses a source after the lock was given up.  TLC     *)
(* refutes it: revisionPresentIn() is not supervised.                      *)
NoLateCall == ~locked => \A c \in Callers : call[c] \notin {"in", "bare"}

(* Release() returns, whoever else releases and whatever calls run: no     *)
(* wake-up is lost.                                                        *)
ReleaseReturns ==
  \A r \in Releasers : rel[r] = "store" ~> rel[r] = "done" \/ panicked

(* Once released, the signal handlers run out, unless Main goes on to set  *)
(* up another.                                                             *)
HandlersEnd ==
  \A h \in Handlers :
    once = "done" /\ rel[h] # "off" ~> rel[h] = "done" \/ panicked \/ ~SetUpOnce
=============================================================================
