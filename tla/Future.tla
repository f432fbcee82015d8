------------------------------- MODULE Future -------------------------------
(***************************************************************************)
(* One future of the runtime (runtime/src/future.rs).  A lazy future       *)
(* starts Pending and is run on a worker thread by the first await or      *)
(* then; a plugin future starts Running and is settled by a native         *)
(* callback; a future of all or race starts Running with a coordinating    *)
(* thread.  Each caller below makes one call on the handle.                *)
(*                                                                         *)
(* One step is one atomic operation of the code, one critical section of   *)
(* the value mutex, or one notify.  The worker spawned by thread t has its *)
(* own program counter wpc[t]; a settler runs the same completion code     *)
(* itself, also with wpc[t].                                               *)
(***************************************************************************)
EXTENDS Naturals, Sequences, FiniteSets

CONSTANTS Awaiters,        \* call rayzor_future_await
          TimedAwaiters,   \* call rayzor_future_await_timeout
          Thens,           \* call rayzor_future_then, each with its callback
          Pollers,         \* call rayzor_future_poll
          Cancellers,      \* call rayzor_future_cancel
          Settlers,        \* call rayzor_plugin_future_resolve or _reject
          Alls, Races,     \* coordinating threads of all and of race
          Outcomes,        \* how the closure may end
          None             \* no thread, the null callback

Callers == Awaiters \cup TimedAwaiters \cup Thens \cup Pollers
             \cup Cancellers \cup Settlers \cup Alls \cup Races

ASSUME CallersFinite == IsFiniteSet(Callers)
ASSUME NoneIsNoCaller == None \notin Callers
ASSUME OutcomesKnown == Outcomes \subseteq {"ok", "exception", "panic"}
ASSUME SettlersAreNoWords ==
    Settlers \cap {"zero", "result", "none", "null", "throw", "true", "false"} = {}

\* Every caller makes one call.
Roles == <<Awaiters, TimedAwaiters, Thens, Pollers, Cancellers, Settlers, Alls, Races>>
ASSUME RolesDisjoint ==
    \A i, j \in DOMAIN Roles : i # j => Roles[i] \cap Roles[j] = {}

VARIABLES state,       \* FutureHandle.state
          value,       \* *FutureHandle.value; "zero" until it is set
          lock,        \* who holds the guard of FutureHandle.value
          err,         \* has_error, with what the error fields hold
          cancelled,   \* FutureHandle.cancelled
          bare,        \* history: Resolved was stored with no value and no error
          thenFn,      \* FutureHandle.then_fn: whose callback
          thenEnv,     \* FutureHandle.then_env: whose environment
          active,      \* this future's share of ACTIVE_THREAD_COUNT
          pc,          \* where each caller is
          wpc,         \* where the worker spawned by a caller is
          cb,          \* the then_fn a worker has loaded
          ret,         \* what a call returned
          calls        \* the callbacks made, in order

handle == <<state, value, lock, err, cancelled, bare, thenFn, thenEnv>>
vars == <<handle, active, pc, wpc, cb, ret, calls>>

Values == {"zero", "result"} \cup Settlers

Start(t) == CASE t \in Awaiters \cup TimedAwaiters -> "await"
              [] t \in Thens -> "then"
              [] t \in Pollers -> "poll"
              [] t \in Cancellers -> "cancel"
              [] t \in Settlers -> "settle"
              [] t \in Alls \cup Races -> "done"

\* The calls to come, when nobody is given the handle to settle it.
Calls == [t \in Callers |-> IF t \in Settlers THEN "done" ELSE Start(t)]

\* rayzor_future_create.
Created ==
    /\ state = "Pending" /\ active = 0
    /\ pc = Calls
    /\ wpc = [t \in Callers |-> "none"]

\* rayzor_plugin_future_pending: the only future that is given to settlers.
PluginPending ==
    /\ state = "Running" /\ active = 0 /\ Settlers # {}
    /\ pc = [t \in Callers |-> Start(t)]
    /\ wpc = [t \in Callers |-> "none"]

\* rayzor_future_all and rayzor_future_race count and start their coordinating
\* thread.
Combined ==
    \E c \in Alls \cup Races :
        /\ state = "Running" /\ active = 1
        /\ pc = Calls
        /\ wpc = [t \in Callers |-> IF t = c THEN "combine" ELSE "none"]

Init == /\ Created \/ PluginPending \/ Combined
        /\ value = "zero"
        /\ lock = None
        /\ err = "none"
        /\ cancelled = FALSE
        /\ bare = FALSE
        /\ thenFn = None
        /\ thenEnv = None
        /\ cb = [t \in Callers |-> None]
        /\ ret = [t \in Callers |-> "none"]
        /\ calls = <<>>

-----------------------------------------------------------------------------
(* Helpers *)

Go(t, from, to) == pc[t] = from /\ pc' = [pc EXCEPT ![t] = to]

WGo(t, from, to) == wpc[t] = from /\ wpc' = [wpc EXCEPT ![t] = to]

\* The call of t ends and returns r.
Return(t, from, r) == Go(t, from, "done") /\ ret' = [ret EXCEPT ![t] = r]

\* Mutant: a test of the state in place of the exchange.
TrySpawnUnlessResolved(t) ==
    IF state # "Resolved"
    THEN /\ state' = "Running"
         /\ active' = active + 1
         /\ wpc' = [wpc EXCEPT ![t] = "run"]
    ELSE UNCHANGED <<state, active, wpc>>

\* Mutant: only a running future is left alone.
TrySpawnUnlessRunning(t) ==
    IF state # "Running"
    THEN /\ state' = "Running"
         /\ active' = active + 1
         /\ wpc' = [wpc EXCEPT ![t] = "run"]
    ELSE UNCHANGED <<state, active, wpc>>

\* compare_exchange Pending -> Running and, on success, spawn_future.
TrySpawn(t) ==
    IF state = "Pending"
    THEN /\ state' = "Running"
         /\ active' = active + 1
         /\ wpc' = [wpc EXCEPT ![t] = "run"]
    ELSE UNCHANGED <<state, active, wpc>>

\* cvar.notify_all(): the callers asleep in Condvar::wait go for the mutex.
NotifyAll == pc' = [t \in Callers |-> IF pc[t] = "wait" THEN "lock" ELSE pc[t]]

-----------------------------------------------------------------------------
(* rayzor_future_await and rayzor_future_await_timeout *)

AwaitSpawn(t) ==
    /\ Go(t, "await", "lock")
    /\ TrySpawn(t)
    /\ UNCHANGED <<value, lock, err, cancelled, bare, thenFn, thenEnv, cb, ret, calls>>

\* future.value.lock(): on entry, and again when Condvar::wait returns.
AwaitLock(t) ==
    /\ Go(t, "lock", "check")
    /\ lock = None
    /\ lock' = t
    /\ UNCHANGED <<state, value, err, cancelled, bare, thenFn, thenEnv>>
    /\ UNCHANGED <<active, wpc, cb, ret, calls>>

\* Mutant: any future that was started counts as resolved.
AwaitCheckStarted(t) ==
    /\ Go(t, "check", IF state # "Pending" THEN "deliver" ELSE "sleep")
    /\ UNCHANGED <<handle, active, wpc, cb, ret, calls>>

\* The loop test, with the mutex held.
AwaitCheck(t) ==
    /\ Go(t, "check", IF state = "Resolved" THEN "deliver" ELSE "sleep")
    /\ UNCHANGED <<handle, active, wpc, cb, ret, calls>>

\* Condvar::wait joins the wait set and releases the mutex.
AwaitSleep(t) ==
    /\ Go(t, "sleep", "wait")
    /\ lock' = None
    /\ UNCHANGED <<state, value, err, cancelled, bare, thenFn, thenEnv>>
    /\ UNCHANGED <<active, wpc, cb, ret, calls>>

\* Condvar::wait may return without a notification.
AwaitSpurious(t) ==
    /\ Go(t, "wait", "lock")
    /\ UNCHANGED <<handle, active, wpc, cb, ret, calls>>

\* await_timeout: the deadline has passed before the wait; return null and
\* drop the guard.
TimeoutBeforeWait(t) ==
    /\ t \in TimedAwaiters
    /\ Return(t, "sleep", "null")
    /\ lock' = None
    /\ UNCHANGED <<state, value, err, cancelled, bare, thenFn, thenEnv>>
    /\ UNCHANGED <<active, wpc, cb, calls>>

\* await_timeout: wait_timeout timed out; it takes the mutex once more and
\* the call returns null, whatever the state is by now.
TimeoutInWait(t) ==
    /\ t \in TimedAwaiters
    /\ lock = None
    /\ Return(t, "wait", "null")
    /\ UNCHANGED <<handle, active, wpc, cb, calls>>

\* Mutant: the first awaiter takes the value out of the cell.
AwaitDeliverTakes(t) ==
    /\ Return(t, "deliver", value)
    /\ lock' = None
    /\ value' = "zero"
    /\ UNCHANGED <<state, err, cancelled, bare, thenFn, thenEnv>>
    /\ UNCHANGED <<active, wpc, cb, calls>>

\* Resolved: return the value, null after a panic; or re-throw.  The throw is
\* a longjmp out of this frame, so the guard on the mutex is never dropped.
AwaitDeliver(t) ==
    /\ CASE err = "none"  -> Return(t, "deliver", value) /\ lock' = None
         [] err = "panic" -> Return(t, "deliver", "null") /\ lock' = None
         [] OTHER         -> Return(t, "deliver", "throw") /\ UNCHANGED lock
    /\ UNCHANGED <<state, value, err, cancelled, bare, thenFn, thenEnv>>
    /\ UNCHANGED <<active, wpc, cb, calls>>

-----------------------------------------------------------------------------
(* rayzor_future_then, rayzor_future_poll, rayzor_future_cancel *)

\* then_fn.store, then then_env.store: two stores.
ThenStoreFn(t) ==
    /\ Go(t, "then", "thenEnv")
    /\ thenFn' = t
    /\ UNCHANGED <<state, value, lock, err, cancelled, bare, thenEnv>>
    /\ UNCHANGED <<active, wpc, cb, ret, calls>>

ThenStoreEnv(t) ==
    /\ Go(t, "thenEnv", "thenLoad")
    /\ thenEnv' = t
    /\ UNCHANGED <<state, value, lock, err, cancelled, bare, thenFn>>
    /\ UNCHANGED <<active, wpc, cb, ret, calls>>

\* Mutant: a resolved future is left to the worker, as a running one is.
ThenLoadNoCall(t) ==
    /\ Go(t, "thenLoad", IF state = "Pending" THEN "thenSpawn" ELSE "done")
    /\ UNCHANGED <<handle, active, wpc, cb, ret, calls>>

\* The load of the state decides who calls the callback.
ThenLoad(t) ==
    /\ Go(t, "thenLoad", CASE state = "Resolved" -> "thenCall"
                           [] state = "Pending"  -> "thenSpawn"
                           [] OTHER              -> "done")
    /\ UNCHANGED <<handle, active, wpc, cb, ret, calls>>

ThenSpawn(t) ==
    /\ Go(t, "thenSpawn", "done")
    /\ TrySpawn(t)
    /\ UNCHANGED <<value, lock, err, cancelled, bare, thenFn, thenEnv, cb, ret, calls>>

\* Already resolved: read the value under the mutex and call the callback on
\* this thread.
ThenCall(t) ==
    /\ Go(t, "thenCall", "done")
    /\ lock = None
    /\ calls' = Append(calls, [fn |-> t, env |-> t, val |-> value])
    /\ UNCHANGED <<handle, active, wpc, cb, ret>>

\* poll: null unless resolved without an error.
PollLoad(t) ==
    /\ IF state = "Resolved" /\ err = "none"
       THEN Go(t, "poll", "pollRead") /\ UNCHANGED ret
       ELSE Return(t, "poll", "null")
    /\ UNCHANGED <<handle, active, wpc, cb, calls>>

PollRead(t) ==
    /\ lock = None
    /\ Return(t, "pollRead", value)
    /\ UNCHANGED <<handle, active, wpc, cb, calls>>

\* cancel: the load of the state, before anything is written.
CancelLoad(t) ==
    /\ CASE state = "Pending" -> Go(t, "cancel", "cancelFlag") /\ UNCHANGED ret
         [] state = "Running" -> Go(t, "cancel", "cancelOnly") /\ UNCHANGED ret
         [] OTHER             -> Return(t, "cancel", "false")
    /\ UNCHANGED <<handle, active, wpc, cb, calls>>

\* It was Running: only the flag is set.
CancelOnlyFlag(t) ==
    /\ Return(t, "cancelOnly", "true")
    /\ cancelled' = TRUE
    /\ UNCHANGED <<state, value, lock, err, bare, thenFn, thenEnv>>
    /\ UNCHANGED <<active, wpc, cb, calls>>

\* It was Pending: the flag, then a plain store of Resolved, then notify_all.
CancelFlag(t) ==
    /\ Go(t, "cancelFlag", "cancelStore")
    /\ cancelled' = TRUE
    /\ UNCHANGED <<state, value, lock, err, bare, thenFn, thenEnv>>
    /\ UNCHANGED <<active, wpc, cb, ret, calls>>

CancelStore(t) ==
    /\ Go(t, "cancelStore", "cancelNotify")
    /\ state' = "Resolved"
    /\ bare' = (bare \/ state # "Resolved")
    /\ UNCHANGED <<value, lock, err, cancelled, thenFn, thenEnv>>
    /\ UNCHANGED <<active, wpc, cb, ret, calls>>

CancelNotify(t) ==
    /\ pc[t] = "cancelNotify"
    /\ pc' = [u \in Callers |-> IF u = t THEN "done"
                                ELSE IF pc[u] = "wait" THEN "lock" ELSE pc[u]]
    /\ ret' = [ret EXCEPT ![t] = "true"]
    /\ UNCHANGED <<handle, active, wpc, cb, calls>>

-----------------------------------------------------------------------------
(* Completion: the worker thread of spawn_future, or a plugin's settler *)

\* plugin_future_resolve and _reject: the exchange Running -> Settling picks
\* the first settler; any other returns 0.
Settle(t) ==
    /\ IF state = "Running"
       THEN /\ Return(t, "settle", "true")
            /\ state' = "Settling"
            /\ \E to \in {"value", "message"} : WGo(t, "none", to)
       ELSE /\ Return(t, "settle", "false")
            /\ UNCHANGED <<state, wpc>>
    /\ UNCHANGED <<value, lock, err, cancelled, bare, thenFn, thenEnv>>
    /\ UNCHANGED <<active, cb, calls>>

\* The closure runs on the worker and returns, throws or panics.
RunClosure(t) ==
    /\ \/ "ok" \in Outcomes /\ WGo(t, "run", "value")
       \/ "exception" \in Outcomes /\ WGo(t, "run", "exception")
       \/ "panic" \in Outcomes /\ WGo(t, "run", "panic")
    /\ UNCHANGED <<handle, active, pc, cb, ret, calls>>

\* The coordinating thread of all has awaited every sub-future, whatever they
\* ended with; or its closure panicked, which stores neither value nor error.
CombineAll(t) ==
    /\ t \in Alls /\ \E to \in {"value", "bare"} : WGo(t, "combine", to)
    /\ UNCHANGED <<handle, active, pc, cb, ret, calls>>

\* The one of race has found a sub-future that is resolved and copies its value
\* or its error (a rejection's message is not copied: it looks like a panic);
\* or its closure panicked.
CombineRace(t) ==
    /\ t \in Races
    /\ \E to \in {"value", "exception", "panic", "bare"} : WGo(t, "combine", to)
    /\ UNCHANGED <<handle, active, pc, cb, ret, calls>>

\* *value.lock() = result, in its own critical section.
StoreValue(t) ==
    /\ WGo(t, "value", "resolve")
    /\ lock = None
    /\ value' = IF t \in Settlers THEN t ELSE "result"
    /\ UNCHANGED <<state, lock, err, cancelled, bare, thenFn, thenEnv>>
    /\ UNCHANGED <<active, pc, cb, ret, calls>>

\* The error fields and has_error; then the same store and notify follow.
StoreError(t) ==
    /\ \E e \in {"exception", "panic", "message"} :
          WGo(t, e, "resolveError") /\ err' = e
    /\ UNCHANGED <<state, value, lock, cancelled, bare, thenFn, thenEnv>>
    /\ UNCHANGED <<active, pc, cb, ret, calls>>

\* state.store(Resolved), outside the value mutex; after a panic of the
\* coordinating closure the outer future has neither value nor error.
StoreResolved(t) ==
    /\ \/ WGo(t, "resolve", "notify") /\ UNCHANGED bare
       \/ WGo(t, "resolveError", "notifyError") /\ UNCHANGED bare
       \/ WGo(t, "bare", "notifyError") /\ bare' = TRUE
    /\ state' = "Resolved"
    /\ UNCHANGED <<value, lock, err, cancelled, thenFn, thenEnv>>
    /\ UNCHANGED <<active, pc, cb, ret, calls>>

\* cvar.notify_all(), outside the value mutex.  Errors and panics call no
\* callback, and neither does race.
WorkerNotify(t) ==
    /\ \/ WGo(t, "notify", IF t \in Races THEN "finish" ELSE "thenFn")
       \/ WGo(t, "notifyError", "finish")
    /\ NotifyAll
    /\ UNCHANGED <<handle, active, cb, ret, calls>>

\* notify_then: load then_fn; null means no callback ...
NotifyThenFn(t) ==
    /\ WGo(t, "thenFn", IF thenFn = None THEN "finish" ELSE "thenEnv")
    /\ cb' = [cb EXCEPT ![t] = thenFn]
    /\ UNCHANGED <<handle, active, pc, ret, calls>>

\* ... then load then_env and make the call with the worker's own value.
NotifyThenEnv(t) ==
    /\ WGo(t, "thenEnv", "finish")
    /\ calls' = Append(calls, [fn |-> cb[t], env |-> thenEnv,
                               val |-> IF t \in Settlers THEN t ELSE "result"])
    /\ UNCHANGED <<handle, active, pc, cb, ret>>

\* Mutant: the thread count is not given back.
FinishLeaks(t) ==
    /\ WGo(t, "finish", "done")
    /\ UNCHANGED <<handle, active, pc, cb, ret, calls>>

\* ACTIVE_THREAD_COUNT.fetch_sub(1); a settler never added itself.
Finish(t) ==
    /\ WGo(t, "finish", "done")
    /\ active' = IF t \in Settlers THEN active ELSE active - 1
    /\ UNCHANGED <<handle, pc, cb, ret, calls>>

-----------------------------------------------------------------------------
\* The steps of a call but the spurious wake-up and the time-outs.
CallStep(t) ==
    \/ AwaitSpawn(t) \/ AwaitLock(t) \/ AwaitCheck(t) \/ AwaitSleep(t)
    \/ AwaitDeliver(t)
    \/ ThenStoreFn(t) \/ ThenStoreEnv(t) \/ ThenLoad(t) \/ ThenSpawn(t)
    \/ ThenCall(t) \/ PollLoad(t) \/ PollRead(t)
    \/ CancelLoad(t) \/ CancelOnlyFlag(t) \/ CancelFlag(t) \/ CancelStore(t)
    \/ CancelNotify(t) \/ Settle(t)

WakeStep(t) == AwaitSpurious(t) \/ TimeoutBeforeWait(t) \/ TimeoutInWait(t)

\* The completion once the closure has ended.
CompletionStep(t) ==
    \/ StoreValue(t) \/ StoreError(t) \/ StoreResolved(t) \/ WorkerNotify(t)
    \/ NotifyThenFn(t) \/ NotifyThenEnv(t) \/ Finish(t)

Next == \E t \in Callers :
            \/ CallStep(t) \/ WakeStep(t) \/ CompletionStep(t)
            \/ RunClosure(t) \/ CombineAll(t) \/ CombineRace(t)

Spec == Init /\ [][Next]_vars

\* The scheduler runs every thread that can move and a free mutex goes to
\* every contender in the end; nothing promises that a closure returns.
FairSpec == /\ Spec
            /\ \A t \in Callers : /\ WF_vars(CallStep(t))
                                  /\ SF_vars(AwaitLock(t))
                                  /\ WF_vars(CompletionStep(t))
                                  /\ SF_vars(StoreValue(t))

-----------------------------------------------------------------------------
(* Properties *)

\* Who completes, or has completed, the future.
Completers == {t \in Callers : wpc[t] # "none"}

\* The closure of a lazy future is spawned at most once, and a plugin future
\* is settled at most once, whichever calls race.
CompletedOnce == \A t, u \in Completers : t = u

\* ACTIVE_THREAD_COUNT counts exactly the worker in flight, on the path of a
\* panic or of an exception too.
ActiveExact ==
    active = Cardinality({t \in Completers \ Settlers : wpc[t] # "done"})

\* What await, await_timeout and poll hand out, whatever races with the store of
\* the value: the value the future holds from then on, which its one completer
\* produced.  The cell's initial 0 comes out only if Resolved was stored with
\* neither a value nor an error, by a cancel of a future that had not resolved or
\* after a panic of the coordinating closure; and a throw has an error to throw.
ReturnedResult ==
    \A t \in Callers :
        /\ ret[t] \in Values =>
              (ret[t] = value /\ value # "zero") \/ (ret[t] = "zero" /\ bare)
        /\ ret[t] = "throw" => err \in {"exception", "message"}

\* A future never goes back, although cancel stores Resolved without an
\* exchange: Pending, Running, Settling, Resolved.
Rank(s) == CASE s = "Pending" -> 0 [] s = "Running" -> 1
             [] s = "Settling" -> 2 [] s = "Resolved" -> 3
StateForward == [][Rank(state) <= Rank(state')]_vars

\* What a resolved future holds does not change under its readers, cancelled or
\* not, unless Resolved was stored before the completer had its result.
ResultStable ==
    [][state = "Resolved" /\ ~bare => value' = value /\ err' = err]_vars

\* Whoever completes the future is through with it, without an error.
Quiet == /\ state = "Resolved" /\ err = "none"
         /\ \A u \in Callers : wpc[u] \in {"none", "finish", "done"}

CallMade(t) == \E i \in 1..Len(calls) : calls[i].fn = t

\* A callback registered before or after the resolution is called: then's
\* load and notify_then's load cannot both miss each other, and a cancel of a
\* running future does not come between them.  The exceptions are departures
\* from "called ... when the future resolves": a future resolved bare has nobody
\* to call it, and the coordinating thread of race never looks for a callback.
CallbackMade ==
    Quiet /\ ~bare /\ Completers \cap Races = {} =>
        \A t \in Thens : pc[t] = "done" => CallMade(t)

\* "spawn if pending, block until resolved, return value": an await on a
\* future that is resolved comes back, with the value or the exception.
AwaitReturns ==
    \A t \in Awaiters : ~ <>[](state = "Resolved" /\ pc[t] \in {"wait", "lock"})
=============================================================================
