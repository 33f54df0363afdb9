------------------------ MODULE SourceManagerProofs -------------------------
(***************************************************************************)
(* For any number of calls, keys and signal handlers: Release() gives up   *)
(* the lock only when no operation the supervisor started is left, and     *)
(* closes a quit channel that is still open.                               *)
(***************************************************************************)
EXTENDS SourceManager, FiniteSetTheorems, TLAPS

Body   == {"wait", "parked", "unlock", "check", "close"}
Waited == {"unlock", "check", "close"}

SupTyped ==
  /\ running \in [CallInfos -> Nat]
  /\ call \in [Callers -> {"idle", "gate", "op", "in", "bare"}]
  /\ key \in [Callers -> CallInfos]
  /\ rel \in [Releasers -> {"idle", "off", "on", "handle", "stop", "store", "once", "wait",
                            "parked", "unlock", "check", "close", "done"}]

(* Whoever is in the body of relonce has called cancelAll().               *)
CancelFirst == \A r \in Releasers : rel[r] \in Body => canceled

NoneIn == \A c \in Callers : call[c] # "in"

(* Past supervisor.wait(), no call is left and none can start.             *)
Quiet == (~locked \/ \E r \in Releasers : rel[r] \in Waited) => canceled /\ NoneIn

SupInv == SupTyped /\ CountsExact /\ CancelFirst /\ Quiet

-----------------------------------------------------------------------------
(* The calls counted under a key are finitely many.                        *)
LEMMA CountedFinite ==
  ASSUME NEW i \in CallInfos
  PROVE  IsFiniteSet(CountedUnder(i))
  BY SourceManagerAssumption, FS_Subset DEF CountedUnder

(* NewSourceManager() starts with no call, no release and the lock.        *)
LEMMA SupInit == Init => SupInv
<1> SUFFICES ASSUME Init
             PROVE  SupInv
  OBVIOUS
<1>1. SupTyped
  BY DEF Init, SupTyped
<1>2. \A i \in CallInfos : CountedUnder(i) = {}
  BY DEF Init, CountedUnder
<1>3. CountsExact
  BY <1>2, FS_EmptySet DEF CountsExact, Init
<1>4. CancelFirst /\ Quiet
  BY DEF Init, CancelFirst, Quiet, Body, Waited, Releasers
<1> QED BY <1>1, <1>3, <1>4 DEF SupInv

(* When every count is zero, no counted operation runs.                    *)
LEMMA ZeroMeansNone ==
  ASSUME SupTyped, CountsExact, \A i \in CallInfos : running[i] = 0
  PROVE  NoneIn
<1>1. ASSUME NEW c \in Callers
      PROVE  call[c] # "in"
  <2>1. key[c] \in CallInfos
    BY DEF SupTyped
  <2>2. CountedUnder(key[c]) = {}
    BY <2>1, CountedFinite, FS_EmptySet DEF CountsExact
  <2> QED BY <2>2 DEF CountedUnder
<1> QED BY <1>1 DEF NoneIn

(* A call that is not counted before nor after leaves the counts exact.    *)
LEMMA UncountedMove ==
  ASSUME SupInv, NEW c \in Callers, NEW there \in {"idle", "gate", "op", "bare"},
         call[c] # "in", CallAt(c, there),
         UNCHANGED <<running, key, rel, canceled, locked>>
  PROVE  SupInv'
<1>1. SupTyped'
  BY DEF SupInv, SupTyped, CallAt
<1>2. \A i \in CallInfos : CountedUnder(i)' = CountedUnder(i)
  BY DEF SupInv, SupTyped, CallAt, CountedUnder
<1>3. CountsExact'
  BY <1>2 DEF SupInv, CountsExact
<1>4. CancelFirst' /\ Quiet'
  BY DEF SupInv, SupTyped, CancelFirst, Quiet, NoneIn, CallAt
<1> QED BY <1>1, <1>3, <1>4 DEF SupInv

(* A step of a releaser that starts or ends no call.                       *)
LEMMA CallsKept ==
  ASSUME SupInv, UNCHANGED callVars,
         rel' \in [Releasers -> {"idle", "off", "on", "handle", "stop", "store", "once", "wait",
                                 "parked", "unlock", "check", "close", "done"}],
         CancelFirst', Quiet'
  PROVE  SupInv'
<1>1. SupTyped'
  BY DEF SupInv, SupTyped, callVars
<1>2. CountsExact'
  BY DEF SupInv, CountsExact, CountedUnder, callVars
<1> QED BY <1>1, <1>2 DEF SupInv

(* supervisor.start() counts the operation it starts, and starts none once *)
(* the context is canceled.                                                *)
LEMMA StartKeeps ==
  ASSUME SupInv, NEW c \in Callers, NEW i \in CallInfos, Start(c, i)
  PROVE  SupInv'
<1>1. CASE canceled
  BY <1>1, UncountedMove DEF Start, NotCalls
<1>2. CASE ~canceled
  <2>1. /\ call[c] = "op" /\ CallAt(c, "in")
        /\ running' = [running EXCEPT ![i] = @ + 1]
        /\ key' = [key EXCEPT ![c] = i]
        /\ UNCHANGED <<rel, canceled, locked>>
    BY <1>2 DEF Start, NotCalls
  <2>2. SupTyped'
    BY <2>1 DEF SupInv, SupTyped, CallAt
  <2>3. CountedUnder(i)' = CountedUnder(i) \cup {c} /\ c \notin CountedUnder(i)
    BY <2>1 DEF SupInv, SupTyped, CallAt, CountedUnder
  <2>4. \A j \in CallInfos \ {i} : CountedUnder(j)' = CountedUnder(j)
    BY <2>1 DEF SupInv, SupTyped, CallAt, CountedUnder
  <2>5. Cardinality(CountedUnder(i)') = Cardinality(CountedUnder(i)) + 1
    BY <2>3, CountedFinite, FS_AddElement
  <2>6. running'[i] = running[i] + 1 /\ \A j \in CallInfos \ {i} : running'[j] = running[j]
    BY <2>1 DEF SupInv, SupTyped
  <2>7. CountsExact'
    BY <2>4, <2>5, <2>6 DEF SupInv, CountsExact
  <2>8. CancelFirst' /\ Quiet'
    BY <1>2, <2>1 DEF SupInv, CancelFirst, Quiet
  <2> QED BY <2>2, <2>7, <2>8 DEF SupInv
<1> QED BY <1>1, <1>2

(* supervisor.done() uncounts the operation that returned, and wakes a     *)
(* Release() only to look at the counts again.                             *)
LEMMA DoneKeeps ==
  ASSUME SupInv, NEW c \in Callers, Done(c)
  PROVE  SupInv'
<1>1. PICK i \in CallInfos : i = key[c] /\ c \in CountedUnder(i)
  BY DEF Done, SupInv, SupTyped, CountedUnder
<1>2. running[i] # 0
  BY <1>1, CountedFinite, FS_EmptySet DEF SupInv, CountsExact
<1>3. /\ call[c] = "in" /\ CallAt(c, "op")
      /\ running' = [running EXCEPT ![i] = @ - 1]
      /\ rel' = rel \/ rel' = Woken
      /\ UNCHANGED <<key, canceled, locked>>
  BY <1>1, <1>2 DEF Done, NotCalls
<1>4. SupTyped'
  BY <1>1, <1>2, <1>3 DEF SupInv, SupTyped, CallAt, Woken
<1>5. CountedUnder(i)' = CountedUnder(i) \ {c}
  BY <1>1, <1>3 DEF SupInv, SupTyped, CallAt, CountedUnder
<1>6. \A j \in CallInfos \ {i} : CountedUnder(j)' = CountedUnder(j)
  BY <1>1, <1>3 DEF SupInv, SupTyped, CallAt, CountedUnder
<1>7. Cardinality(CountedUnder(i)') = Cardinality(CountedUnder(i)) - 1
  BY <1>1, <1>5, CountedFinite, FS_RemoveElement
<1>8. running'[i] = running[i] - 1 /\ \A j \in CallInfos \ {i} : running'[j] = running[j]
  BY <1>1, <1>3 DEF SupInv, SupTyped
<1>9. CountsExact'
  <2>1. ASSUME NEW j \in CallInfos
        PROVE  running'[j] = Cardinality(CountedUnder(j)')
    <3>1. CASE j = i
      BY <3>1, <1>1, <1>7, <1>8 DEF SupInv, CountsExact
    <3>2. CASE j # i
      BY <3>2, <1>6, <1>8 DEF SupInv, CountsExact
    <3> QED BY <3>1, <3>2
  <2> QED BY <2>1 DEF CountsExact
<1>10. \A r \in Releasers : rel'[r] = rel[r] \/ (rel[r] = "parked" /\ rel'[r] = "wait")
  BY <1>3 DEF Woken
<1>11. CancelFirst'
  BY <1>3, <1>10 DEF SupInv, CancelFirst, Body
<1>12. Quiet'
  BY <1>3, <1>10 DEF SupInv, SupTyped, Quiet, Waited, NoneIn, CallAt
<1> QED BY <1>4, <1>9, <1>11, <1>12 DEF SupInv

(* The steps of a call other than start() and done().                      *)
LEMMA CallingKeeps ==
  ASSUME SupInv, NEW c \in Callers, Calling(c)
  PROVE  SupInv'
<1>1. CASE Enter(c)
  BY <1>1, UncountedMove DEF Enter, NotCalls
<1>2. CASE Gate(c)
  <2>1. PICK there \in {"idle", "op"} : CallAt(c, there)
    BY <1>2 DEF Gate
  <2> QED BY <1>2, <2>1, UncountedMove DEF Gate, NotCalls
<1>3. CASE \E i \in CallInfos : Start(c, i)
  BY <1>3, StartKeeps
<1>4. CASE Bare(c)
  BY <1>4, UncountedMove DEF Bare, NotCalls
<1>5. CASE Return(c)
  BY <1>5, UncountedMove DEF Return, NotCalls
<1> QED BY <1>1, <1>2, <1>3, <1>4, <1>5 DEF Calling

(* Release(): cancelAll() comes before the wait, and the wait before the   *)
(* lock is given up.                                                       *)
LEMMA ReleasingKeeps ==
  ASSUME SupInv, NEW r \in Releasers, Releasing(r)
  PROVE  SupInv'
<1>1. UNCHANGED callVars
  BY DEF Releasing, Store, Once, Wait, Unlock, CheckQch, CloseQch
<1>2. CASE Store(r)
  BY <1>1, <1>2, CallsKept
     DEF Store, RelAt, SupInv, SupTyped, CancelFirst, Quiet, NoneIn, Body, Waited, callVars
<1>3. CASE Once(r)
  BY <1>1, <1>3, CallsKept
     DEF Once, RelAt, SupInv, SupTyped, CancelFirst, Quiet, NoneIn, Body, Waited, callVars
<1>4. CASE Wait(r)
  <2>1. CASE \A i \in CallInfos : running[i] = 0
    <3>1. NoneIn /\ canceled
      BY <1>4, <2>1, ZeroMeansNone DEF SupInv, CancelFirst, Wait, Body
    <3> QED
      BY <1>1, <1>4, <2>1, <3>1, CallsKept
         DEF Wait, RelAt, SupInv, SupTyped, CancelFirst, Quiet, NoneIn, Body, Waited, callVars
  <2>2. CASE ~ \A i \in CallInfos : running[i] = 0
    BY <1>1, <1>4, <2>2, CallsKept
       DEF Wait, RelAt, SupInv, SupTyped, CancelFirst, Quiet, NoneIn, Body, Waited, callVars
  <2> QED BY <2>1, <2>2
<1>5. CASE Unlock(r)
  BY <1>1, <1>5, CallsKept
     DEF Unlock, RelAt, SupInv, SupTyped, CancelFirst, Quiet, NoneIn, Body, Waited, callVars
<1>6. CASE CheckQch(r)
  BY <1>1, <1>6, CallsKept
     DEF CheckQch, RelAt, SupInv, SupTyped, CancelFirst, Quiet, NoneIn, Body, Waited, callVars
<1>7. CASE CloseQch(r)
  BY <1>1, <1>7, CallsKept
     DEF CloseQch, RelAt, SupInv, SupTyped, CancelFirst, Quiet, NoneIn, Body, Waited, callVars
<1> QED BY <1>2, <1>3, <1>4, <1>5, <1>6, <1>7 DEF Releasing

(* Setting up and stopping signal handling, and the handlers.              *)
LEMMA SignalsKeep ==
  ASSUME SupInv, Signals \/ \E h \in Handlers : Signal(h) \/ Quit(h)
  PROVE  SupInv'
<1> DEFINE Outside ==
      /\ UNCHANGED <<callVars, canceled, locked>>
      /\ rel' \in [Releasers -> {"idle", "off", "on", "handle", "stop", "store", "once", "wait",
                                 "parked", "unlock", "check", "close", "done"}]
      /\ \A r \in Releasers : rel'[r] \notin Body \/ rel'[r] = rel[r]
<1>1. Outside
  <2>1. Main \in Releasers /\ Handlers \subseteq Releasers
    BY DEF Releasers
  <2>2. CASE HandleSignals
    BY <2>1, <2>2 DEF HandleSignals, RelAt, NotSignals, SupInv, SupTyped, Body
  <2>3. CASE NewHandler
    BY <2>1, <2>3 DEF NewHandler, NotSignals, SupInv, SupTyped, Body
  <2>4. CASE StopSignalHandling
    BY <2>1, <2>4 DEF StopSignalHandling, RelAt, NotSignals, SupInv, SupTyped, Body
  <2>5. CASE ClearQch
    BY <2>1, <2>5 DEF ClearQch, RelAt, NotSignals, SupInv, SupTyped, Body
  <2>6. CASE MainReleases
    BY <2>1, <2>6 DEF MainReleases, RelAt, NotSignals, SupInv, SupTyped, Body
  <2>7. ASSUME NEW h \in Handlers, Signal(h) \/ Quit(h)
        PROVE  Outside
    BY <2>1, <2>7 DEF Signal, Quit, RelAt, NotSignals, SupInv, SupTyped, Body
  <2> QED BY <2>2, <2>3, <2>4, <2>5, <2>6, <2>7 DEF Signals
<1>2. CancelFirst'
  BY <1>1 DEF SupInv, CancelFirst
<1>3. Quiet'
  BY <1>1 DEF SupInv, Quiet, NoneIn, Body, Waited, callVars
<1> QED BY <1>1, <1>2, <1>3, CallsKept

(* No step of any goroutine breaks the invariant.                          *)
LEMMA SupStep == SupInv /\ [Next]_vars => SupInv'
<1> SUFFICES ASSUME SupInv, [Next]_vars
             PROVE  SupInv'
  OBVIOUS
<1>1. CASE UNCHANGED vars
  BY <1>1 DEF vars, callVars, SupInv, SupTyped, CountsExact, CountedUnder, CancelFirst, Quiet, NoneIn
<1>2. CASE Next
  BY <1>2, CallingKeeps, DoneKeeps, ReleasingKeeps, SignalsKeep DEF Next
<1> QED BY <1>1, <1>2

(* However many calls, keys, signals and Release()s race: the lock on the  *)
(* cache is given up only after every operation the supervisor started has *)
(* returned, and none starts afterwards.                                   *)
THEOREM LockOutlivesCalls == Spec => []ReleaseWaits
<1>1. SupInv => ReleaseWaits
  BY DEF SupInv, Quiet, NoneIn, ReleaseWaits
<1> QED BY <1>1, SupInit, SupStep, PTL DEF Spec

(* The supervisor's counts are those of the operations that run, for any   *)
(* number of calls that share a key.                                       *)
THEOREM SupervisorCounts == Spec => []CountsExact
<1>1. SupInv => CountsExact
  BY DEF SupInv
<1> QED BY <1>1, SupInit, SupStep, PTL DEF Spec

-----------------------------------------------------------------------------
(* The quit channel *)

AtRest == {"idle", "handle", "stop"}

(* relonce.Do() lets one in, and nobody after that. *)
OneInside ==
  /\ \A r \in Releasers : rel[r] \in Body => once = "taken"
  /\ \A r, s \in Releasers : rel[r] \in Body /\ rel[s] \in Body => r = s

(* sm.qch is the channel that was made last, or nil; only Main makes handlers
   and clears it. *)
ChannelTyped ==
  /\ started \in 0..MaxHandlers /\ qch \in {started, NoChan} /\ closed \subseteq 0..started
  /\ \A h \in Handlers : h > started => rel[h] = "off"
  /\ rel[Main] = "close" => qch # NoChan
  /\ rel[Main] = "handle" => started < MaxHandlers
  /\ started = 0 /\ rel[Main] \in AtRest => once = "free"

(* While there is no handler, or the one that was set up is left alone, the
   channel is closed by the one Release() that gets in, and not before. *)
LeftAlone == started = 0 \/ SetUpOnce

ClosedOnce ==
  LeftAlone => /\ ~ panicked
               /\ once # "done" /\ rel[Main] \notin {"handle", "stop"} => qch \notin closed

QuitInv == SupInv /\ OneInside /\ ChannelTyped /\ ClosedOnce

LEMMA QuitInit == Init => QuitInv
<1> SUFFICES ASSUME Init PROVE QuitInv
  OBVIOUS
<1>1. Main \in Releasers /\ Main \notin Handlers /\ MaxHandlers \in Nat
  BY SourceManagerAssumption DEF Releasers, Main, Handlers
<1>2. OneInside
  BY <1>1 DEF Init, OneInside, Body
<1>3. ChannelTyped
  BY <1>1 DEF Init, ChannelTyped, Releasers, NoChan, AtRest, Main, Handlers
<1>4. ClosedOnce
  BY DEF Init, ClosedOnce
<1> QED BY <1>2, <1>3, <1>4, SupInit DEF QuitInv

(* Main is none of the handlers, and nil none of the channels. *)
LEMMA Numbers ==
  /\ MaxHandlers \in Nat /\ Main \in Releasers /\ Main \notin Handlers /\ Main = 0
  /\ Releasers = Handlers \cup {Main} /\ \A h \in Handlers : h \in Nat /\ h >= 1 /\ h <= MaxHandlers
  BY SourceManagerAssumption DEF Releasers, Main, Handlers

(* A step that does not concern the channel: nobody comes into the body of
   relonce, or leaves it. *)
LEMMA Elsewhere ==
  ASSUME QuitInv, SupInv', UNCHANGED <<once, sigVars, panicked>>,
         \A r \in Releasers : \/ rel'[r] = rel[r]
                              \/ rel[r] \in {"wait", "parked"} /\ rel'[r] \in {"wait", "parked", "unlock"}
                              \/ rel[r] = "unlock" /\ rel'[r] = "check"
                              \/ rel[r] \in {"idle", "on"} /\ rel'[r] = "store"
                              \/ rel[r] = "store" /\ rel'[r] = "once"
                              \/ rel[r] = "on" /\ rel'[r] = "done"
  PROVE  QuitInv'
<1>1. OneInside'
  BY DEF QuitInv, OneInside, Body
<1>2. ChannelTyped'
  BY Numbers DEF QuitInv, ChannelTyped, AtRest, sigVars
<1>3. ClosedOnce'
  BY Numbers DEF QuitInv, ClosedOnce, LeftAlone, SetUpOnce, sigVars
<1> QED BY <1>1, <1>2, <1>3 DEF QuitInv

LEMMA CloseTyped ==
  ASSUME QuitInv, Close(qch)
  PROVE  closed' \subseteq 0..started
<1>1. started \in 0..started /\ closed \subseteq 0..started
  BY Numbers DEF QuitInv, ChannelTyped
<1>2. qch = NoChan \/ qch = started
  BY DEF QuitInv, ChannelTyped
<1> QED BY <1>1, <1>2 DEF Close

(* Once there is a handler, what was changed since stays changed. *)
LEMMA OnceTouched ==
  ASSUME QuitInv, ~ LeftAlone, started' = started, qch' = qch,
         rel'[Main] = rel[Main] \/ rel[Main] \notin {"handle", "stop"}
  PROVE  ~ LeftAlone'
  BY DEF QuitInv, LeftAlone, SetUpOnce

LEMMA ReleasingQuits ==
  ASSUME QuitInv, SupInv', NEW r \in Releasers, Releasing(r)
  PROVE  QuitInv'
<1>1. CASE Store(r) \/ Wait(r) \/ Unlock(r)
  BY <1>1, Elsewhere DEF Store, Wait, Unlock, RelAt, QuitInv, SupInv, SupTyped
<1>2. CASE Once(r)
  <2>1. /\ rel[r] = "once" /\ UNCHANGED <<sigVars, panicked>>
        /\ \A s \in Releasers \ {r} : rel'[s] = rel[s]
    BY <1>2 DEF Once, RelAt, QuitInv, SupInv, SupTyped
  <2>2. \/ once = "free" /\ once' = "taken" /\ rel'[r] = "wait"
        \/ once = "done" /\ once' = "done" /\ rel'[r] = "done"
    BY <1>2 DEF Once, RelAt, QuitInv, SupInv, SupTyped
  <2>3. OneInside'
    BY <2>1, <2>2 DEF QuitInv, OneInside, Body
  <2>4. ChannelTyped'
    BY <2>1, <2>2, Numbers DEF QuitInv, ChannelTyped, AtRest, sigVars
  <2>5. ClosedOnce'
    BY <2>1, <2>2, Numbers DEF QuitInv, ClosedOnce, LeftAlone, SetUpOnce, sigVars
  <2> QED BY <2>3, <2>4, <2>5 DEF QuitInv
<1>3. CASE CheckQch(r)
  <2>1. /\ rel[r] = "check" /\ UNCHANGED <<sigVars, panicked>>
        /\ \A s \in Releasers \ {r} : rel'[s] = rel[s]
    BY <1>3 DEF CheckQch, RelAt, QuitInv, SupInv, SupTyped
  <2>2. \/ qch = NoChan /\ once' = "done" /\ rel'[r] = "done"
        \/ qch # NoChan /\ once' = once /\ rel'[r] = "close"
    BY <1>3 DEF CheckQch, RelAt, QuitInv, SupInv, SupTyped
  <2>3. OneInside'
    BY <2>1, <2>2 DEF QuitInv, OneInside, Body
  <2>4. ChannelTyped'
    BY <2>1, <2>2, Numbers DEF QuitInv, ChannelTyped, AtRest, sigVars, OneInside, Body
  <2>5. ClosedOnce'
    BY <2>1, <2>2, Numbers DEF QuitInv, ClosedOnce, LeftAlone, SetUpOnce, sigVars
  <2> QED BY <2>3, <2>4, <2>5 DEF QuitInv
<1>4. CASE CloseQch(r)
  <2>1. /\ rel[r] = "close" /\ rel'[r] = "done" /\ once' = "done" /\ Close(qch)
        /\ UNCHANGED <<qch, started>>
        /\ \A s \in Releasers \ {r} : rel'[s] = rel[s]
    BY <1>4 DEF CloseQch, RelAt, QuitInv, SupInv, SupTyped
  <2>2. once = "taken" /\ \A s \in Releasers \ {r} : rel[s] \notin Body
    BY <2>1 DEF QuitInv, OneInside, Body
  <2>3. OneInside'
    BY <2>1, <2>2 DEF OneInside, Body
  <2>4. closed' \subseteq 0..started
    BY <2>1, CloseTyped
  <2>5. ChannelTyped'
    BY <2>1, <2>2, <2>4, Numbers DEF QuitInv, ChannelTyped, AtRest
  <2>6. LeftAlone => ~ panicked'
    <3>1. started = 0 => r = Main
      BY <2>1, Numbers DEF QuitInv, ChannelTyped
    <3>2. LeftAlone => qch # NoChan /\ rel[Main] \notin {"handle", "stop"}
      BY <2>1, <3>1 DEF LeftAlone, SetUpOnce, QuitInv, ChannelTyped
    <3> QED BY <2>1, <2>2, <3>2 DEF QuitInv, ClosedOnce, Close
  <2>7. LeftAlone' => LeftAlone
    BY <2>1, OnceTouched, Numbers
  <2> QED BY <2>1, <2>3, <2>5, <2>6, <2>7 DEF QuitInv, ClosedOnce
<1> QED BY <1>1, <1>2, <1>3, <1>4 DEF Releasing

(* HandleSignals() and StopSignalHandling() before there is a handler find the
   channel open. *)
LEMMA SignalsQuit ==
  ASSUME QuitInv, SupInv', Signals \/ \E h \in Handlers : Signal(h) \/ Quit(h)
  PROVE  QuitInv'
<1>1. CASE MainReleases \/ \E h \in Handlers : Signal(h) \/ Quit(h)
  BY <1>1, Elsewhere, Numbers
     DEF MainReleases, Signal, Quit, RelAt, NotSignals, QuitInv, SupInv, SupTyped
<1>2. CASE HandleSignals \/ StopSignalHandling
  <2>1. /\ rel[Main] = "idle" /\ rel'[Main] \in {"handle", "stop"}
        /\ UNCHANGED <<once, qch, started>>
        /\ \A s \in Releasers \ {Main} : rel'[s] = rel[s]
        /\ rel'[Main] = "handle" => started < MaxHandlers
    BY <1>2, Numbers DEF HandleSignals, StopSignalHandling, RelAt, NotSignals, QuitInv, SupInv, SupTyped
  <2>2. \/ closed' = closed /\ panicked' = panicked
        \/ qch # NoChan /\ Close(qch)
    BY <1>2 DEF HandleSignals, StopSignalHandling
  <2>3. OneInside'
    BY <2>1 DEF QuitInv, OneInside, Body
  <2>4. closed' \subseteq 0..started
    BY <2>2, CloseTyped DEF QuitInv, ChannelTyped
  <2>5. ChannelTyped'
    BY <2>1, <2>4, Numbers DEF QuitInv, ChannelTyped, AtRest
  <2>6. started = 0 => ~ panicked'
    <3>1. started = 0 => once = "free" /\ qch \notin closed /\ ~ panicked
      BY <2>1 DEF QuitInv, ChannelTyped, AtRest, ClosedOnce, LeftAlone
    <3> QED BY <2>2, <3>1 DEF Close
  <2>7. LeftAlone' => started = 0
    BY <2>1, Numbers DEF LeftAlone, SetUpOnce, QuitInv, ChannelTyped
  <2> QED BY <2>1, <2>3, <2>5, <2>6, <2>7 DEF QuitInv, ClosedOnce
<1>3. CASE NewHandler
  <2>1. /\ rel[Main] = "handle" /\ ~ panicked /\ started' = started + 1 /\ qch' = started + 1
        /\ UNCHANGED <<once, closed, panicked>>
        /\ rel' = [rel EXCEPT ![Main] = "idle", ![started + 1] = "on"]
    BY <1>3 DEF NewHandler, NotSignals
  <2>2. started + 1 \in Handlers
    BY <2>1, Numbers DEF Handlers, QuitInv, ChannelTyped
  <2>3. /\ rel'[Main] = "idle" /\ rel'[started + 1] = "on"
        /\ \A s \in Releasers \ {Main, started + 1} : rel'[s] = rel[s]
    BY <2>1, <2>2, Numbers DEF QuitInv, SupInv, SupTyped
  <2>4. OneInside'
    BY <2>1, <2>3 DEF QuitInv, OneInside, Body
  <2>5. ChannelTyped'
    <3>1. /\ started' \in 0..MaxHandlers /\ qch' = started' /\ closed' \subseteq 0..started'
      BY <2>1, <2>2, Numbers DEF QuitInv, ChannelTyped, Handlers
    <3>2. \A h \in Handlers : h > started' => rel'[h] = "off"
      <4>1. \A h \in Handlers : h > started' => h > started /\ h # started + 1 /\ h # Main
        BY <2>1, Numbers DEF QuitInv, ChannelTyped
      <4> QED BY <2>3, <4>1, Numbers DEF QuitInv, ChannelTyped
    <3>3. started' # 0
      BY <2>1, Numbers DEF QuitInv, ChannelTyped
    <3> QED BY <2>3, <3>1, <3>2, <3>3 DEF ChannelTyped
  <2>6. ClosedOnce'
    BY <2>1, <2>2, Numbers DEF QuitInv, ClosedOnce, ChannelTyped
  <2> QED BY <2>4, <2>5, <2>6 DEF QuitInv
<1>4. CASE ClearQch
  <2>1. /\ rel[Main] = "stop" /\ rel'[Main] = "idle" /\ qch' = NoChan
        /\ UNCHANGED <<once, started, closed, panicked>>
        /\ \A s \in Releasers \ {Main} : rel'[s] = rel[s]
    BY <1>4, Numbers DEF ClearQch, RelAt, NotSignals, QuitInv, SupInv, SupTyped
  <2>2. OneInside'
    BY <2>1 DEF QuitInv, OneInside, Body
  <2>3. ChannelTyped'
    BY <2>1, Numbers DEF QuitInv, ChannelTyped, AtRest
  <2>4. ClosedOnce'
    BY <2>1, Numbers DEF QuitInv, ClosedOnce, ChannelTyped, LeftAlone, SetUpOnce, NoChan
  <2> QED BY <2>2, <2>3, <2>4 DEF QuitInv
<1> QED BY <1>1, <1>2, <1>3, <1>4 DEF Signals

(* supervisor.done() finds its entry, and wakes only those who wait. *)
LEMMA DoneQuits ==
  ASSUME QuitInv, SupInv', NEW c \in Callers, Done(c)
  PROVE  QuitInv'
<1>1. key[c] \in CallInfos /\ c \in CountedUnder(key[c])
  BY DEF Done, QuitInv, SupInv, SupTyped, CountedUnder
<1>2. running[key[c]] # 0
  BY <1>1, CountedFinite, FS_EmptySet DEF QuitInv, SupInv, CountsExact
<1>3. UNCHANGED <<once, sigVars, panicked>> /\ (rel' = rel \/ rel' = Woken)
  BY <1>2 DEF Done, NotCalls
<1>4. \A r \in Releasers : rel'[r] = rel[r] \/ (rel[r] = "parked" /\ rel'[r] = "wait")
  BY <1>3 DEF Woken
<1> QED BY <1>3, <1>4, Elsewhere

LEMMA QuitStep == QuitInv /\ [Next]_vars => QuitInv'
<1> SUFFICES ASSUME QuitInv, [Next]_vars PROVE QuitInv'
  OBVIOUS
<1>1. SupInv'
  BY SupStep DEF QuitInv
<1>2. CASE UNCHANGED vars \/ \E c \in Callers : Calling(c)
  <2>1. UNCHANGED <<once, sigVars, panicked, rel>>
    BY <1>2 DEF vars, Calling, Enter, Gate, Start, Bare, Return, NotCalls
  <2> QED BY <1>1, <2>1, Elsewhere
<1>3. CASE Next /\ ~ \E c \in Callers : Calling(c)
  BY <1>1, <1>3, DoneQuits, ReleasingQuits, SignalsQuit DEF Next
<1> QED BY <1>2, <1>3

(* However many handlers, calls and Release()s there are: as long as signal
   handling is left alone once it is set up, no channel of the SourceMgr is
   closed twice and done() always finds its entry. *)
THEOREM NeverPanics == Spec => []NoPanic
<1>1. QuitInv => NoPanic
  BY DEF QuitInv, ClosedOnce, LeftAlone, NoPanic
<1> QED BY <1>1, QuitInit, QuitStep, PTL DEF Spec
=============================================================================
