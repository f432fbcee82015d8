---------------------------- MODULE Future_proofs ----------------------------
(***************************************************************************)
(* Proofs about Future, for any number of callers of every kind.           *)
(***************************************************************************)
EXTENDS Future, FiniteSetTheorems, TLAPS

-----------------------------------------------------------------------------
(* The inductive invariant *)

\* Where a call, and a completer, can be; and what a call returns.
CallAt == {"await", "lock", "check", "sleep", "wait", "deliver", "then", "thenEnv",
           "thenLoad", "thenSpawn", "thenCall", "poll", "pollRead", "cancel",
           "cancelOnly", "cancelFlag", "cancelStore", "cancelNotify", "settle", "done"}
WorkAt == {"none", "run", "combine", "value", "exception", "panic", "message", "bare", "resolve",
           "resolveError", "notify", "notifyError", "thenFn", "thenEnv", "finish", "done"}
Returns == Values \cup {"none", "null", "throw", "true", "false"}

\* The types of the variables.
Shape ==
    /\ state \in {"Pending", "Running", "Settling", "Resolved"}
    /\ err \in {"none", "exception", "panic", "message"}
    /\ cancelled \in BOOLEAN /\ bare \in BOOLEAN
    /\ pc \in [Callers -> CallAt]
    /\ wpc \in [Callers -> WorkAt]
    /\ cb \in [Callers -> Callers \cup {None}]
    /\ ret \in [Callers -> Returns]
    /\ value \in Values
    /\ thenFn \in Callers \cup {None}

\* Only settlers settle, only callers of then store a callback, and a settler
\* makes no other call.
RoleFits ==
    \A t \in Callers :
        /\ t \in Settlers => pc[t] \in {"settle", "done"}
        /\ pc[t] = "settle" => t \in Settlers
        /\ pc[t] = "then" => t \in Thens

\* A future that can still be started, or be settled by its first settler, has
\* no completer; one that can be started has no settler.
Unstarted ==
    /\ state = "Pending" => \A t \in Callers : wpc[t] = "none" /\ pc[t] # "settle"
    /\ state = "Running" /\ (\E t \in Callers : pc[t] = "settle")
         => \A t \in Callers : wpc[t] = "none"

\* Before the closure has ended nothing is stored; after it the value, or the
\* error, is stored before Resolved is, unless Resolved is stored bare.
Stored ==
    /\ (\A t \in Callers : wpc[t] = "none") => value = "zero" /\ err = "none"
    /\ \A t \in Callers :
        /\ wpc[t] \in {"run", "combine", "value", "exception", "panic", "message", "bare"}
             => value = "zero" /\ err = "none"
        /\ wpc[t] \in {"resolve", "notify", "thenFn", "thenEnv"} => value # "zero"
        /\ wpc[t] = "resolveError" => err # "none"
        /\ wpc[t] = "notifyError" => err # "none" \/ bare
        /\ wpc[t] \in {"finish", "done"} => value # "zero" \/ err # "none" \/ bare

\* Unless Resolved was stored bare, a future is resolved by its completer.
ResolvedByCompleter ==
    state = "Resolved" /\ ~bare =>
        \E t \in Callers : wpc[t] \in {"notify", "notifyError", "thenFn", "thenEnv",
                                       "finish", "done"}

\* What a call in the middle has seen.
CallerSaw ==
    \A t \in Callers :
        /\ pc[t] = "deliver" => state = "Resolved"
        /\ pc[t] = "pollRead" => state = "Resolved" /\ (bare \/ err = "none")

FutureInv == Shape /\ RoleFits /\ Unstarted /\ CompletedOnce /\ Stored
               /\ ResolvedByCompleter /\ CallerSaw /\ ReturnedResult

-----------------------------------------------------------------------------
(* The callers *)

\* A settler has no other role.
LEMMA SettlersOnlySettle ==
    ASSUME NEW t \in Callers
    PROVE  /\ t \in Settlers => Start(t) = "settle"
           /\ t \in Thens => Start(t) = "then"
           /\ t \notin Settlers => Start(t) # "settle"
           /\ t \notin Thens => Start(t) # "then"
           /\ Start(t) \in {"await", "then", "poll", "cancel", "settle", "done"}
<1>1. /\ Settlers \cap (Awaiters \cup TimedAwaiters \cup Thens \cup Pollers
                          \cup Cancellers \cup Alls \cup Races) = {}
      /\ Thens \cap (Awaiters \cup TimedAwaiters \cup Pollers
                          \cup Cancellers \cup Alls \cup Races) = {}
  BY RolesDisjoint DEF Roles
<1> QED  BY <1>1 DEF Start, Callers

\* Init establishes the invariant, for a lazy future, a plugin's, and the outer
\* future of all or race.
LEMMA FutureInvInit == Init => FutureInv
<1> SUFFICES ASSUME Init PROVE FutureInv  OBVIOUS
<1>1. Shape
  <2>1. /\ state \in {"Pending", "Running", "Settling", "Resolved"}
        /\ pc \in [Callers -> CallAt] /\ wpc \in [Callers -> WorkAt]
    <3>1. \A t \in Callers : Start(t) \in CallAt
      BY SettlersOnlySettle DEF CallAt
    <3>2. Calls \in [Callers -> CallAt]  BY <3>1 DEF Calls, CallAt
    <3> QED  BY <3>1, <3>2 DEF Init, Created, PluginPending, Combined, WorkAt
  <2> QED  BY <2>1 DEF Init, Shape, Values, Returns
<1>2. RoleFits
  BY SettlersOnlySettle DEF Init, RoleFits, Created, PluginPending, Combined, Calls
<1>3. Unstarted /\ CompletedOnce /\ Stored
  BY SettlersOnlySettle DEF Init, Unstarted, CompletedOnce, Completers, Stored, Created, PluginPending, Combined, Calls
<1>4. ResolvedByCompleter /\ CallerSaw
  BY SettlersOnlySettle DEF Init, ResolvedByCompleter, CallerSaw, Created, PluginPending, Combined, Calls
<1>5. ReturnedResult  BY SettlersAreNoWords DEF Init, ReturnedResult, Values
<1> QED  BY <1>1, <1>2, <1>3, <1>4, <1>5 DEF FutureInv

-----------------------------------------------------------------------------
(* Every step keeps the invariant *)

\* cancel's store is bare unless the future was resolved already.
LEMMA CancelStoresBare ==
    ASSUME bare \in BOOLEAN, NEW t \in Callers, CancelStore(t)
    PROVE  \/ state = "Resolved" /\ bare' = bare
           \/ state # "Resolved" /\ bare' = TRUE
BY DEF CancelStore

\* The steps of await, then, poll, cancel and of a settler's exchange.
LEMMA CallKeepsInv ==
    ASSUME FutureInv, NEW t \in Callers, CallStep(t)
    PROVE  FutureInv'
<1> USE SettlersAreNoWords
    DEF FutureInv, Shape, RoleFits, Unstarted, CompletedOnce, Completers, Stored,
        ResolvedByCompleter, CallerSaw, ReturnedResult, CallAt, WorkAt, Returns, Values
<1>1. CASE AwaitSpawn(t)  BY <1>1 DEF AwaitSpawn, Go, TrySpawn
<1>2. CASE AwaitLock(t)  BY <1>2 DEF AwaitLock, Go
<1>3. CASE AwaitCheck(t)  BY <1>3 DEF AwaitCheck, Go, handle
<1>4. CASE AwaitSleep(t)  BY <1>4 DEF AwaitSleep, Go
<1>5. CASE AwaitDeliver(t)  BY <1>5 DEF AwaitDeliver, Go, Return
<1>6. CASE ThenStoreFn(t)  BY <1>6 DEF ThenStoreFn, Go
<1>7. CASE ThenStoreEnv(t)  BY <1>7 DEF ThenStoreEnv, Go
<1>8. CASE ThenLoad(t)  BY <1>8 DEF ThenLoad, Go, handle
<1>9. CASE ThenSpawn(t)  BY <1>9 DEF ThenSpawn, Go, TrySpawn
<1>10. CASE ThenCall(t)  BY <1>10 DEF ThenCall, Go, handle
<1>11. CASE PollLoad(t)  BY <1>11 DEF PollLoad, Go, Return, handle
<1>12. CASE PollRead(t)  BY <1>12 DEF PollRead, Go, Return, handle
<1>13. CASE CancelLoad(t)  BY <1>13 DEF CancelLoad, Go, Return, handle
<1>14. CASE CancelOnlyFlag(t)  BY <1>14 DEF CancelOnlyFlag, Go, Return
<1>15. CASE CancelFlag(t)  BY <1>15 DEF CancelFlag, Go
<1>16. CASE CancelStore(t)
  <2>1. CASE state = "Resolved" /\ bare' = bare  BY <1>16, <2>1 DEF CancelStore, Go
  <2>2. CASE state # "Resolved" /\ bare' = TRUE  BY <1>16, <2>2 DEF CancelStore, Go
  <2> QED  BY <1>16, <2>1, <2>2, CancelStoresBare
<1>17. CASE CancelNotify(t)  BY <1>17 DEF CancelNotify, handle
<1>18. CASE Settle(t)  BY <1>18 DEF Settle, Go, Return, WGo
<1> QED  BY <1>1, <1>2, <1>3, <1>4, <1>5, <1>6, <1>7, <1>8, <1>9, <1>10,
     <1>11, <1>12, <1>13, <1>14, <1>15, <1>16, <1>17, <1>18 DEF CallStep

\* Spurious wake-ups and time-outs.
LEMMA WakeKeepsInv ==
    ASSUME FutureInv, NEW t \in Callers, WakeStep(t)
    PROVE  FutureInv'
<1> USE SettlersAreNoWords
    DEF FutureInv, Shape, RoleFits, Unstarted, CompletedOnce, Completers, Stored,
        ResolvedByCompleter, CallerSaw, ReturnedResult, CallAt, WorkAt, Returns, Values
<1>1. CASE AwaitSpurious(t)  BY <1>1 DEF AwaitSpurious, Go, handle
<1>2. CASE TimeoutBeforeWait(t)  BY <1>2 DEF TimeoutBeforeWait, Go, Return
<1>3. CASE TimeoutInWait(t)  BY <1>3 DEF TimeoutInWait, Go, Return, handle
<1> QED  BY <1>1, <1>2, <1>3 DEF WakeStep

\* The steps of whoever completes the future.
LEMMA CompletionKeepsInv ==
    ASSUME FutureInv, NEW t \in Callers, CompletionStep(t)
    PROVE  FutureInv'
<1> USE SettlersAreNoWords
    DEF FutureInv, Shape, RoleFits, Unstarted, CompletedOnce, Completers, Stored,
        ResolvedByCompleter, CallerSaw, ReturnedResult, CallAt, WorkAt, Returns, Values
<1>1. CASE StoreValue(t)  BY <1>1 DEF StoreValue, WGo
<1>2. CASE StoreError(t)  BY <1>2 DEF StoreError, WGo
<1>3. CASE StoreResolved(t)
  <2>1. CASE WGo(t, "resolve", "notify") /\ UNCHANGED bare
    BY <1>3, <2>1 DEF StoreResolved, WGo
  <2>2. CASE WGo(t, "resolveError", "notifyError") /\ UNCHANGED bare
    BY <1>3, <2>2 DEF StoreResolved, WGo
  <2>3. CASE WGo(t, "bare", "notifyError") /\ bare' = TRUE
    BY <1>3, <2>3 DEF StoreResolved, WGo
  <2> QED  BY <1>3, <2>1, <2>2, <2>3 DEF StoreResolved
<1>4. CASE WorkerNotify(t)  BY <1>4 DEF WorkerNotify, WGo, NotifyAll, handle
<1>5. CASE NotifyThenFn(t)  BY <1>5 DEF NotifyThenFn, WGo, handle
<1>6. CASE NotifyThenEnv(t)  BY <1>6 DEF NotifyThenEnv, WGo, handle
<1>7. CASE Finish(t)  BY <1>7 DEF Finish, WGo, handle
<1> QED  BY <1>1, <1>2, <1>3, <1>4, <1>5, <1>6, <1>7 DEF CompletionStep

\* The end of the closure, and of the coordinating threads' waiting.
LEMMA RunKeepsInv ==
    ASSUME FutureInv, NEW t \in Callers,
           RunClosure(t) \/ CombineAll(t) \/ CombineRace(t)
    PROVE  FutureInv'
<1> USE SettlersAreNoWords
    DEF FutureInv, Shape, RoleFits, Unstarted, CompletedOnce, Completers, Stored,
        ResolvedByCompleter, CallerSaw, ReturnedResult, CallAt, WorkAt, Returns, Values
<1>1. CASE RunClosure(t)  BY <1>1 DEF RunClosure, WGo, handle
<1>2. CASE CombineAll(t)  BY <1>2 DEF CombineAll, WGo, handle
<1>3. CASE CombineRace(t)  BY <1>3 DEF CombineRace, WGo, handle
<1> QED  BY <1>1, <1>2, <1>3

\* A step that changes nothing.
LEMMA StutterKeepsInv == FutureInv /\ UNCHANGED vars => FutureInv'
BY DEF vars, handle, FutureInv, Shape, RoleFits, Unstarted, CompletedOnce, Completers,
       Stored, ResolvedByCompleter, CallerSaw, ReturnedResult

\* The invariant of the handle holds in every behaviour.
LEMMA FutureInvAlways == Spec => []FutureInv
<1>1. FutureInv /\ [Next]_vars => FutureInv'
  BY CallKeepsInv, WakeKeepsInv, CompletionKeepsInv, RunKeepsInv, StutterKeepsInv DEF Next
<1> QED  BY <1>1, FutureInvInit, PTL DEF Spec

\* Whichever calls race, the closure is spawned at most once and a plugin
\* future is settled at most once.
THEOREM SingleCompletion == Spec => []CompletedOnce
BY FutureInvAlways, PTL DEF FutureInv

\* await and poll hand out the value the future keeps, and the initial value of
\* the cell only if Resolved was stored bare; a throw has an error to throw.
THEOREM NoPrematureResult == Spec => []ReturnedResult
BY FutureInvAlways, PTL DEF FutureInv

-----------------------------------------------------------------------------
(* Action properties *)

\* The steps that leave the state, the value and the error alone.
LEMMA MostStepsKeepResult ==
    ASSUME NEW t \in Callers,
           \/ AwaitLock(t) \/ AwaitCheck(t) \/ AwaitSleep(t) \/ AwaitDeliver(t)
           \/ ThenStoreFn(t) \/ ThenStoreEnv(t) \/ ThenLoad(t) \/ ThenCall(t)
           \/ PollLoad(t) \/ PollRead(t) \/ CancelLoad(t) \/ CancelOnlyFlag(t)
           \/ CancelFlag(t) \/ CancelNotify(t) \/ WakeStep(t) \/ WorkerNotify(t)
           \/ NotifyThenFn(t) \/ NotifyThenEnv(t) \/ Finish(t)
           \/ RunClosure(t) \/ CombineAll(t) \/ CombineRace(t)
    PROVE  UNCHANGED <<state, value, err>>
BY DEF AwaitLock, AwaitCheck, AwaitSleep, AwaitDeliver, ThenStoreFn, ThenStoreEnv,
       ThenLoad, ThenCall, PollLoad, PollRead, CancelLoad, CancelOnlyFlag, CancelFlag,
       CancelNotify, WakeStep, AwaitSpurious, TimeoutBeforeWait, TimeoutInWait,
       WorkerNotify, NotifyThenFn, NotifyThenEnv, Finish, RunClosure, CombineAll,
       CombineRace, handle

\* The state never goes back, although cancel stores Resolved without looking
\* and the worker stores it a second time.
THEOREM StateOnlyForward == Spec => StateForward
<1> DEFINE Forward == Rank(state) <= Rank(state')
<1>1. FutureInv /\ [Next]_vars => [Forward]_vars
  <2> SUFFICES ASSUME FutureInv, NEW t \in Callers,
                      \/ CallStep(t) \/ WakeStep(t) \/ CompletionStep(t)
                      \/ RunClosure(t) \/ CombineAll(t) \/ CombineRace(t)
               PROVE  Forward
    BY DEF Next
  <2>1. state \in {"Pending", "Running", "Settling", "Resolved"}
    BY DEF FutureInv, Shape
  <2>2. CASE UNCHANGED state  BY <2>1, <2>2 DEF Rank
  <2>3. CASE AwaitSpawn(t) \/ ThenSpawn(t)
    BY <2>1, <2>3 DEF AwaitSpawn, ThenSpawn, TrySpawn, Rank
  <2>4. CASE CancelStore(t)  BY <2>1, <2>4 DEF CancelStore, Rank
  <2>5. CASE Settle(t)  BY <2>1, <2>5 DEF Settle, Rank
  <2>6. CASE StoreResolved(t)  BY <2>1, <2>6 DEF StoreResolved, Rank
  <2>7. CASE StoreValue(t) \/ StoreError(t)  BY <2>2, <2>7 DEF StoreValue, StoreError
  <2> QED
    BY <2>2, <2>3, <2>4, <2>5, <2>6, <2>7, MostStepsKeepResult DEF CallStep, CompletionStep
<1> QED  BY <1>1, FutureInvAlways, PTL DEF Spec, StateForward

\* What a resolved future holds is final, cancelled or not, unless Resolved was
\* stored bare: whoever could still write has not stored Resolved yet.
THEOREM ResultIsFinal == Spec => ResultStable
<1> DEFINE Stable == state = "Resolved" /\ ~bare => value' = value /\ err' = err
<1>1. FutureInv /\ [Next]_vars => [Stable]_vars
  <2> SUFFICES ASSUME FutureInv, NEW t \in Callers,
                      \/ CallStep(t) \/ WakeStep(t) \/ CompletionStep(t)
                      \/ RunClosure(t) \/ CombineAll(t) \/ CombineRace(t)
               PROVE  Stable
    BY DEF Next
  <2>1. CASE UNCHANGED <<value, err>>  BY <2>1
  <2>2. CASE wpc[t] \in {"value", "exception", "panic", "message"}
    BY <2>2 DEF FutureInv, ResolvedByCompleter, CompletedOnce, Completers
  <2>3. CASE StoreValue(t) \/ StoreError(t)
    BY <2>2, <2>3 DEF StoreValue, StoreError, WGo
  <2>4. CASE AwaitSpawn(t) \/ ThenSpawn(t) \/ CancelStore(t) \/ Settle(t) \/ StoreResolved(t)
    BY <2>1, <2>4 DEF AwaitSpawn, ThenSpawn, CancelStore, Settle, StoreResolved
  <2> QED
    BY <2>1, <2>3, <2>4, MostStepsKeepResult DEF CallStep, CompletionStep
<1> QED  BY <1>1, FutureInvAlways, PTL DEF Spec, ResultStable

-----------------------------------------------------------------------------
(* The thread count *)

InFlight == {t \in Completers \ Settlers : wpc[t] # "done"}

\* There are finitely many threads in flight.
LEMMA InFlightFinite == IsFiniteSet(InFlight)
<1>1. InFlight \subseteq Callers  BY DEF InFlight, Completers
<1> QED  BY <1>1, CallersFinite, FS_Subset

\* Init counts the coordinating thread of all or race, and nobody else.
LEMMA ActiveInit == Init => ActiveExact
<1> SUFFICES ASSUME Init PROVE active = Cardinality(InFlight)
  BY DEF ActiveExact, InFlight
<1>1. CASE Created \/ PluginPending
  <2>1. InFlight = {}  BY <1>1 DEF Created, PluginPending, InFlight, Completers
  <2> QED  BY <1>1, <2>1, FS_EmptySet DEF Created, PluginPending
<1>2. CASE Combined
  <2>1. PICK c \in Alls \cup Races :
               active = 1 /\ wpc = [t \in Callers |-> IF t = c THEN "combine" ELSE "none"]
    BY <1>2 DEF Combined
  <2>2. c \in Callers /\ c \notin Settlers  BY RolesDisjoint DEF Callers, Roles
  <2>3. InFlight = {c}  BY <2>1, <2>2 DEF InFlight, Completers
  <2> QED  BY <2>1, <2>3, FS_Singleton
<1> QED  BY <1>1, <1>2 DEF Init

\* A spawn adds a thread to the count and to those in flight.
LEMMA SpawnCounts ==
    ASSUME FutureInv, ActiveExact, NEW t \in Callers, TrySpawn(t), pc[t] \notin {"settle", "done"}
    PROVE  ActiveExact'
<1>1. CASE state = "Pending"
  <2>1. InFlight = {} /\ InFlight' = {t}
    BY <1>1 DEF TrySpawn, FutureInv, Shape, Unstarted, RoleFits, InFlight, Completers
  <2>2. active = Cardinality(InFlight) /\ active' = active + 1
    BY <1>1 DEF TrySpawn, ActiveExact, InFlight
  <2>3. active' = Cardinality(InFlight')  BY <2>1, <2>2, FS_EmptySet, FS_Singleton
  <2> QED  BY <2>3 DEF ActiveExact, InFlight
<1>2. CASE state # "Pending"  BY <1>2 DEF TrySpawn, ActiveExact, Completers
<1> QED  BY <1>1, <1>2

\* Every step keeps the count exact.
LEMMA ActiveStep == FutureInv /\ ActiveExact /\ [Next]_vars => ActiveExact'
<1> SUFFICES ASSUME FutureInv, ActiveExact, [Next]_vars PROVE ActiveExact'
  OBVIOUS
<1>1. CASE InFlight' = InFlight /\ active' = active  BY <1>1 DEF ActiveExact, InFlight
<1>2. CASE UNCHANGED <<wpc, active>>  BY <1>1, <1>2 DEF InFlight, Completers
<1>3. ASSUME NEW t \in Callers, AwaitSpawn(t) \/ ThenSpawn(t) PROVE ActiveExact'
  BY <1>3, SpawnCounts DEF AwaitSpawn, ThenSpawn, Go
<1>4. ASSUME NEW t \in Callers, Finish(t) PROVE ActiveExact'
  <2>1. CASE t \in Settlers
    <3>1. InFlight' = InFlight
      BY <1>4, <2>1 DEF Finish, WGo, InFlight, Completers, FutureInv, Shape
    <3> QED  BY <1>1, <1>4, <2>1, <3>1 DEF Finish
  <2>2. CASE t \notin Settlers
    <3>1. InFlight' = InFlight \ {t} /\ t \in InFlight
      BY <1>4, <2>2 DEF Finish, WGo, InFlight, Completers, FutureInv, Shape
    <3>2. Cardinality(InFlight') = Cardinality(InFlight) - 1
      BY <3>1, InFlightFinite, FS_RemoveElement
    <3> QED  BY <1>4, <2>2, <3>2 DEF Finish, ActiveExact, InFlight
  <2> QED  BY <2>1, <2>2
<1>5. ASSUME NEW t \in Callers, Settle(t) PROVE ActiveExact'
  <2>1. t \in Settlers  BY <1>5 DEF Settle, Return, Go, FutureInv, RoleFits
  <2>2. InFlight' = InFlight
    BY <1>5, <2>1 DEF Settle, WGo, InFlight, Completers, FutureInv, Shape
  <2> QED  BY <1>1, <1>5, <2>2 DEF Settle
<1>6. ASSUME NEW t \in Callers,
             \/ StoreValue(t) \/ StoreError(t) \/ StoreResolved(t) \/ WorkerNotify(t)
             \/ NotifyThenFn(t) \/ NotifyThenEnv(t)
             \/ RunClosure(t) \/ CombineAll(t) \/ CombineRace(t)
      PROVE  ActiveExact'
  <2>1. InFlight' = InFlight /\ active' = active
    BY <1>6 DEF StoreValue, StoreError, StoreResolved, WorkerNotify, NotifyThenFn,
       NotifyThenEnv, RunClosure, CombineAll, CombineRace, WGo, InFlight, Completers,
       FutureInv, Shape
  <2> QED  BY <1>1, <2>1
<1>7. ASSUME NEW t \in Callers,
             \/ AwaitLock(t) \/ AwaitCheck(t) \/ AwaitSleep(t) \/ AwaitDeliver(t)
             \/ ThenStoreFn(t) \/ ThenStoreEnv(t) \/ ThenLoad(t) \/ ThenCall(t)
             \/ PollLoad(t) \/ PollRead(t) \/ CancelLoad(t) \/ CancelOnlyFlag(t)
             \/ CancelFlag(t) \/ CancelStore(t) \/ CancelNotify(t) \/ WakeStep(t)
      PROVE  UNCHANGED <<wpc, active>>
  BY <1>7 DEF AwaitLock, AwaitCheck, AwaitSleep, AwaitDeliver, ThenStoreFn,
     ThenStoreEnv, ThenLoad, ThenCall, PollLoad, PollRead, CancelLoad, CancelOnlyFlag,
     CancelFlag, CancelStore, CancelNotify, WakeStep, AwaitSpurious,
     TimeoutBeforeWait, TimeoutInWait
<1>8. CASE UNCHANGED vars  BY <1>2, <1>8 DEF vars
<1> QED
  BY <1>2, <1>3, <1>4, <1>5, <1>6, <1>7, <1>8 DEF Next, CallStep, CompletionStep

\* ACTIVE_THREAD_COUNT is given back exactly once for the worker, on the paths
\* of a panic and of an exception too, and a settler neither takes nor gives.
THEOREM CountGivenBack == Spec => []ActiveExact
BY ActiveInit, ActiveStep, FutureInvAlways, PTL DEF Spec

-----------------------------------------------------------------------------
(* The callback *)

\* then is called once on the future: a second call replaces the callback of
\* the first.
OneThen == \A t, u \in Thens : t = u

\* Completer u will come to callback t, or is one that calls none.
OnItsWay(t, u) == \/ wpc[u] \in {"notify", "thenFn"}
                  \/ wpc[u] = "thenEnv" /\ cb[u] = t
                  \/ wpc[u] # "none" /\ u \in Races

\* The callback is stored before the state is loaded.  From the load that does
\* not find Resolved on, it was called, or the future is not resolved without
\* an error, or its completer is still to come to the callback.
CallbackInv ==
    /\ calls \in Seq([fn : Callers \cup {None}, env : Callers \cup {None}, val : Values])
    /\ thenEnv \in Callers \cup {None}
    /\ \A t \in Thens :
        /\ pc[t] \in {"then", "thenEnv", "thenLoad", "thenSpawn", "thenCall", "done"}
        /\ pc[t] # "then" => thenFn = t
        /\ pc[t] \in {"thenSpawn", "done"} /\ ~bare =>
              \/ CallMade(t)
              \/ state # "Resolved"
              \/ err # "none"
              \/ \E u \in Callers : OnItsWay(t, u)

\* Nobody has called then yet.
LEMMA CallbackInvInit == Init => CallbackInv
<1> SUFFICES ASSUME Init PROVE CallbackInv  OBVIOUS
<1>1. Thens \subseteq Callers /\ Thens \cap Settlers = {}
  BY RolesDisjoint DEF Callers, Roles
<1>2. \A t \in Thens : pc[t] = "then"
  BY <1>1, SettlersOnlySettle DEF Init, Created, PluginPending, Combined, Calls
<1> QED  BY <1>2 DEF Init, CallbackInv

\* The callers' steps.
LEMMA CallKeepsCallback ==
    ASSUME OneThen, FutureInv, CallbackInv, NEW t \in Callers, CallStep(t)
    PROVE  CallbackInv'
<1> USE NoneIsNoCaller
    DEF FutureInv, Shape, RoleFits, Stored, CallerSaw, CallAt, WorkAt, Values,
        CallbackInv, OnItsWay, OneThen, CallMade, Callers
<1>1. CASE AwaitSpawn(t)  BY <1>1 DEF AwaitSpawn, Go, TrySpawn
<1>2. CASE AwaitLock(t)  BY <1>2 DEF AwaitLock, Go
<1>3. CASE AwaitCheck(t)  BY <1>3 DEF AwaitCheck, Go, handle
<1>4. CASE AwaitSleep(t)  BY <1>4 DEF AwaitSleep, Go
<1>5. CASE AwaitDeliver(t)  BY <1>5 DEF AwaitDeliver, Go, Return
<1>6. CASE ThenStoreFn(t)  BY <1>6 DEF ThenStoreFn, Go
<1>7. CASE ThenStoreEnv(t)  BY <1>7 DEF ThenStoreEnv, Go
<1>8. CASE ThenLoad(t)  BY <1>8 DEF ThenLoad, Go, handle
<1>9. CASE ThenSpawn(t)  BY <1>9 DEF ThenSpawn, Go, TrySpawn
<1>10. CASE ThenCall(t)  BY <1>10 DEF ThenCall, Go, handle
<1>11. CASE PollLoad(t)  BY <1>11 DEF PollLoad, Go, Return, handle
<1>12. CASE PollRead(t)  BY <1>12 DEF PollRead, Go, Return, handle
<1>13. CASE CancelLoad(t)  BY <1>13 DEF CancelLoad, Go, Return, handle
<1>14. CASE CancelOnlyFlag(t)  BY <1>14 DEF CancelOnlyFlag, Go, Return
<1>15. CASE CancelFlag(t)  BY <1>15 DEF CancelFlag, Go
<1>16. CASE CancelStore(t)
  <2>1. CASE state = "Resolved" /\ bare' = bare  BY <1>16, <2>1 DEF CancelStore, Go
  <2>2. CASE state # "Resolved" /\ bare' = TRUE  BY <1>16, <2>2 DEF CancelStore, Go
  <2> QED  BY <1>16, <2>1, <2>2, CancelStoresBare
<1>17. CASE CancelNotify(t)  BY <1>17 DEF CancelNotify, handle
<1>18. CASE Settle(t)  BY <1>18 DEF Settle, Go, Return, WGo
<1> QED  BY <1>1, <1>2, <1>3, <1>4, <1>5, <1>6, <1>7, <1>8, <1>9, <1>10,
     <1>11, <1>12, <1>13, <1>14, <1>15, <1>16, <1>17, <1>18 DEF CallStep

\* Wake-ups and time-outs.
LEMMA WakeKeepsCallback ==
    ASSUME OneThen, FutureInv, CallbackInv, NEW t \in Callers, WakeStep(t)
    PROVE  CallbackInv'
<1> USE NoneIsNoCaller
    DEF FutureInv, Shape, RoleFits, Stored, CallerSaw, CallAt, WorkAt, Values,
        CallbackInv, OnItsWay, OneThen, CallMade, Callers
<1>1. CASE AwaitSpurious(t)  BY <1>1 DEF AwaitSpurious, Go, handle
<1>2. CASE TimeoutBeforeWait(t)  BY <1>2 DEF TimeoutBeforeWait, Go, Return
<1>3. CASE TimeoutInWait(t)  BY <1>3 DEF TimeoutInWait, Go, Return, handle
<1> QED  BY <1>1, <1>2, <1>3 DEF WakeStep

\* The completer's steps: then's two stores and load against its store and load.
LEMMA CompletionKeepsCallback ==
    ASSUME OneThen, FutureInv, CallbackInv, NEW t \in Callers, CompletionStep(t)
    PROVE  CallbackInv'
<1> USE NoneIsNoCaller
    DEF FutureInv, Shape, RoleFits, Stored, CallerSaw, CallAt, WorkAt, Values,
        CallbackInv, OnItsWay, OneThen, CallMade, Callers
<1>1. CASE StoreValue(t)  BY <1>1 DEF StoreValue, WGo
<1>2. CASE StoreError(t)  BY <1>2 DEF StoreError, WGo
<1>3. CASE StoreResolved(t)  BY <1>3 DEF StoreResolved, WGo
<1>4. CASE WorkerNotify(t)  BY <1>4 DEF WorkerNotify, WGo, NotifyAll, handle
<1>5. CASE NotifyThenFn(t)  BY <1>5 DEF NotifyThenFn, WGo, handle
<1>6. CASE NotifyThenEnv(t)  BY <1>6 DEF NotifyThenEnv, WGo, handle
<1>7. CASE Finish(t)  BY <1>7 DEF Finish, WGo, handle
<1> QED  BY <1>1, <1>2, <1>3, <1>4, <1>5, <1>6, <1>7 DEF CompletionStep

\* The end of the closure and of the coordinating threads' waiting.
LEMMA RunKeepsCallback ==
    ASSUME OneThen, FutureInv, CallbackInv, NEW t \in Callers,
           RunClosure(t) \/ CombineAll(t) \/ CombineRace(t)
    PROVE  CallbackInv'
<1> USE NoneIsNoCaller
    DEF FutureInv, Shape, RoleFits, Stored, CallerSaw, CallAt, WorkAt, Values,
        CallbackInv, OnItsWay, OneThen, CallMade, Callers
<1>1. CASE RunClosure(t)  BY <1>1 DEF RunClosure, WGo, handle
<1>2. CASE CombineAll(t)  BY <1>2 DEF CombineAll, WGo, handle
<1>3. CASE CombineRace(t)  BY <1>3 DEF CombineRace, WGo, handle
<1> QED  BY <1>1, <1>2, <1>3

\* A callback registered with then is called, once the future is resolved
\* without an error and its completer is through, for any number of other
\* callers: neither then nor the worker can miss the other.
THEOREM CallbackNotMissed ==
    ASSUME OneThen
    PROVE  Spec => []CallbackMade
<1>1. FutureInv /\ CallbackInv /\ [Next]_vars => CallbackInv'
  <2> SUFFICES ASSUME FutureInv, CallbackInv, [Next]_vars PROVE CallbackInv'
    OBVIOUS
  <2>1. CASE UNCHANGED vars
    BY <2>1 DEF vars, handle, CallbackInv, OnItsWay, CallMade
  <2> QED
    BY <2>1, CallKeepsCallback, WakeKeepsCallback, CompletionKeepsCallback,
       RunKeepsCallback DEF Next
<1>2. CallbackInv => CallbackMade
  BY DEF CallbackInv, CallbackMade, Quiet, OnItsWay, Completers
<1> QED  BY <1>1, <1>2, CallbackInvInit, FutureInvAlways, PTL DEF Spec
=============================================================================
