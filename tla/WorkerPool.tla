----------------------------- MODULE WorkerPool -----------------------------
(***************************************************************************)
(* The fork-join pool of the tensor kernels                                *)
(* (rayzor-tensors/src/worker_pool.rs, the spin-wait mode).  A caller of   *)
(* parallel_rows writes one slot per worker, flips the slot's state flag,  *)
(* wakes the workers that parked, takes part in the work and spins on the  *)
(* pending countdown; the closure lives on its stack meanwhile.  A worker  *)
(* spins on its own flag and parks after a long idle.                      *)
(*                                                                         *)
(* One step is one atomic operation of the code.  A relaxed or release     *)
(* store may be delayed past later loads of the same thread: the caller's  *)
(* flips of the state flags wait in flips, and a worker's own value of its *)
(* parked flag runs ahead of the visible one.  They become visible at any  *)
(* time, and at a SeqCst fence at the latest.  Read-modify-writes act on   *)
(* memory at once.                                                         *)
(***************************************************************************)
EXTENDS Integers, FiniteSets

CONSTANTS Callers,       \* threads that call parallel_rows
          NWorkers,      \* WorkerPool.n
          RowCounts,     \* rows of a call
          Threads,       \* the width a caller asks for
          MaxCalls,      \* calls a caller makes (bound)
          USize,         \* the width of the countdown: usize wraps here
          None

Workers == 1 .. NWorkers

ASSUME NWorkersNat == NWorkers \in Nat
ASSUME WorkersAreNoCallers == Workers \cap (Callers \cup {None}) = {}
ASSUME NoneIsNoCaller == None \notin Callers
ASSUME RowCountsPositive == RowCounts \subseteq Nat \ {0}
ASSUME ThreadsNat == Threads \subseteq Nat
ASSUME CountdownFits == USize \in Nat /\ NWorkers < USize
ASSUME MaxCallsNat == MaxCalls \in Nat

VARIABLES steal,         \* chunk_stealing_enabled(): read once per process
          assist,        \* caller_band_enabled(): read once per process
          state,         \* WorkerSlot.state, as the worker sees it
          flips,         \* a caller's stores state <- 1 that are not visible
          slot,          \* WorkerSlot: which call's closure, which band
          pending,       \* PoolInner.pending
          parked,        \* WorkerSlot.parked, as the callers see it
          parkedOwn,     \* the value the worker stored last
          parkedCount,   \* PoolInner.parked_count
          token,         \* std's park token of each worker
          shutdown,      \* PoolInner.shutdown
          wpc,           \* where each worker is
          cpc,           \* where each caller is
          drop,          \* where Drop for WorkerPool is
          op,            \* the rows, the width and the number of a call
          cursor,        \* BandState.cursor of a call's bands
          idx,           \* the slot a caller's (or Drop's) loop is at
          drv,           \* what a thread does inside the closure
          touched        \* how often each row of the call was run

flags == <<steal, assist>>
slots == <<state, flips, slot, pending>>
parking == <<parked, parkedOwn, parkedCount, token>>
call == <<op, cursor, touched>>
vars == <<flags, slots, parking, shutdown, wpc, cpc, drop, call, idx, drv>>

-----------------------------------------------------------------------------
(* The cut of the rows into bands and chunks *)

MinOf(a, b) == IF a < b THEN a ELSE b
MaxOf(a, b) == IF a > b THEN a ELSE b
CeilDiv(a, b) == (a + b - 1) \div b

\* The width of a call: threads, clamped to the workers (and the caller).
Width(rows, threads) ==
    MinOf(MinOf(threads, IF assist THEN NWorkers + 1 ELSE NWorkers), rows)

BandSize(o) == CeilDiv(o.rows, o.n)
BandLo(o, b) == MinOf(b * BandSize(o), o.rows)
BandHi(o, b) == MinOf((b + 1) * BandSize(o), o.rows)
Chunk(o) == MinOf(MaxOf(CeilDiv(BandSize(o), 8), 8), o.rows)

FirstWorkerBand == IF assist THEN 1 ELSE 0

\* The bands that go to workers; a static band that starts past the rows is
\* not dispatched, a stealing driver is started for every band.
Dispatched(o) ==
    IF steal
    THEN MinOf(o.n - FirstWorkerBand, NWorkers)
    ELSE Cardinality({b \in FirstWorkerBand .. o.n - 1 : b * BandSize(o) < o.rows})

-----------------------------------------------------------------------------
\* A thread outside every closure.
Idle == [job |-> None, call |-> 0, band |-> 0, at |-> "off", lo |-> 0, hi |-> 0, arg |-> 0]

Init == /\ steal \in BOOLEAN
        /\ assist \in BOOLEAN
        /\ state = [w \in Workers |-> 0]
        /\ flips = [c \in Callers |-> {}]
        /\ slot = [w \in Workers |-> [job |-> None, call |-> 0, band |-> 0]]
        /\ pending = 0
        /\ parked = [w \in Workers |-> FALSE]
        /\ parkedOwn = [w \in Workers |-> FALSE]
        /\ parkedCount = 0
        /\ token = [w \in Workers |-> FALSE]
        /\ shutdown = FALSE
        /\ wpc = [w \in Workers |-> "spin"]
        /\ cpc = [c \in Callers |-> "idle"]
        /\ drop = "live"
        /\ op = [c \in Callers |-> [rows |-> 0, n |-> 0, call |-> 0]]
        /\ cursor = [c \in Callers |-> <<>>]
        /\ idx = [c \in Callers \cup {None} |-> 1]
        /\ drv = [t \in Workers \cup Callers |-> Idle]
        /\ touched = [c \in Callers |-> <<>>]

GoC(c, from, to) == cpc[c] = from /\ cpc' = [cpc EXCEPT ![c] = to]
GoW(w, from, to) == wpc[w] = from /\ wpc' = [wpc EXCEPT ![w] = to]

-----------------------------------------------------------------------------
(* parallel_rows *)

\* Mutant: the countdown starts one short.
CallShort(c) ==
    /\ drop = "live"
    /\ op[c].call < MaxCalls
    /\ \E rows \in RowCounts, threads \in Threads :
         LET o == [rows |-> rows, n |-> Width(rows, threads), call |-> op[c].call + 1]
         IN /\ op' = [op EXCEPT ![c] = o]
            /\ touched' = [touched EXCEPT ![c] = [r \in 0 .. rows - 1 |-> 0]]
            /\ cursor' = [cursor EXCEPT ![c] = [b \in 0 .. o.n - 1 |-> BandLo(o, b)]]
            /\ GoC(c, "idle", IF o.n <= 1 THEN "inline" ELSE "slots")
            /\ pending' = IF o.n <= 1 THEN pending ELSE Dispatched(o) - 1
    /\ idx' = [idx EXCEPT ![c] = 1]
    /\ UNCHANGED <<flags, state, flips, slot, parking, shutdown, wpc, drop, drv>>

\* Entry: the width is fixed; one band or less runs on the caller.  With more,
\* the bands are cut and pending.store comes before any flag is flipped.
Call(c) ==
    /\ drop = "live"
    /\ op[c].call < MaxCalls
    /\ \E rows \in RowCounts, threads \in Threads :
         LET o == [rows |-> rows, n |-> Width(rows, threads), call |-> op[c].call + 1]
         IN /\ op' = [op EXCEPT ![c] = o]
            /\ touched' = [touched EXCEPT ![c] = [r \in 0 .. rows - 1 |-> 0]]
            /\ cursor' = [cursor EXCEPT ![c] = [b \in 0 .. o.n - 1 |-> BandLo(o, b)]]
            /\ GoC(c, "idle", IF o.n <= 1 THEN "inline" ELSE "slots")
            /\ pending' = IF o.n <= 1 THEN pending ELSE Dispatched(o)
    /\ idx' = [idx EXCEPT ![c] = 1]
    /\ UNCHANGED <<flags, state, flips, slot, parking, shutdown, wpc, drop, drv>>

\* f(0, rows) on the calling thread.
Inline(c) ==
    /\ GoC(c, "inline", "return")
    /\ touched' = [touched EXCEPT ![c] = [r \in DOMAIN @ |-> @[r] + 1]]
    /\ UNCHANGED <<flags, slots, parking, shutdown, wpc, drop, op, cursor, idx, drv>>

Return(c) ==
    /\ GoC(c, "return", "idle")
    /\ UNCHANGED <<flags, slots, parking, shutdown, wpc, drop, call, idx, drv>>

\* One turn of the dispatch loop: the slot's fields, then state.store(1).
\* The release store keeps the fields ahead of the flag.
WriteSlot(c) ==
    LET w == idx[c]
    IN /\ GoC(c, "slots", IF w = Dispatched(op[c]) THEN "fence" ELSE "slots")
       /\ slot' = [slot EXCEPT ![w] = [job |-> c, call |-> op[c].call,
                                       band |-> FirstWorkerBand + w - 1]]
       /\ flips' = [flips EXCEPT ![c] = @ \cup {w}]
       /\ idx' = [idx EXCEPT ![c] = w + 1]
       /\ UNCHANGED <<flags, state, pending, parking, shutdown, wpc, drop, call, drv>>

\* A flip that was delayed becomes visible.
FlipVisible(c, w) ==
    /\ w \in flips[c]
    /\ state' = [state EXCEPT ![w] = 1]
    /\ flips' = [flips EXCEPT ![c] = @ \ {w}]
    /\ UNCHANGED <<flags, slot, pending, parking, shutdown, wpc, cpc, drop, call, idx, drv>>

\* Mutant: no fence between the flips and the look at the parked workers.
WakeFenceDropped(c) ==
    /\ GoC(c, "fence", "count")
    /\ UNCHANGED <<flags, slots, parking, shutdown, wpc, drop, call, idx, drv>>

\* wake_parked: fence(SeqCst).
WakeFence(c) ==
    /\ GoC(c, "fence", "count")
    /\ state' = [w \in Workers |-> IF w \in flips[c] THEN 1 ELSE state[w]]
    /\ flips' = [flips EXCEPT ![c] = {}]
    /\ UNCHANGED <<flags, slot, pending, parking, shutdown, wpc, drop, call, idx, drv>>

\* wake_parked: nothing is parked on the hot path.
WakeCount(c) ==
    /\ GoC(c, "count", IF parkedCount = 0 THEN "assist" ELSE "wake")
    /\ idx' = [idx EXCEPT ![c] = 1]
    /\ UNCHANGED <<flags, slots, parking, shutdown, wpc, drop, call, drv>>

\* wake_parked: unpark the next dispatched worker if its flag says parked.
WakeScan(c) ==
    LET w == idx[c]
    IN /\ GoC(c, "wake", IF w = Dispatched(op[c]) THEN "assist" ELSE "wake")
       /\ token' = [token EXCEPT ![w] = @ \/ parked[w]]
       /\ idx' = [idx EXCEPT ![c] = w + 1]
       /\ UNCHANGED <<flags, slots, parked, parkedOwn, parkedCount>>
       /\ UNCHANGED <<shutdown, wpc, drop, call, drv>>

\* Where thread t starts in the closure of the call that s names.
Enter(s) ==
    LET o == op[s.job]
    IN [job |-> s.job, call |-> s.call, band |-> s.band,
        at |-> IF steal THEN "load" ELSE "run",
        lo |-> BandLo(o, s.band), hi |-> BandHi(o, s.band), arg |-> 0]

\* The caller takes band 0 when it assists.
Assist(c) ==
    /\ GoC(c, "assist", IF assist THEN "drive" ELSE "join")
    /\ drv' = IF assist
              THEN [drv EXCEPT ![c] = Enter([job |-> c, call |-> op[c].call, band |-> 0])]
              ELSE drv
    /\ UNCHANGED <<flags, slots, parking, shutdown, wpc, drop, call, idx>>

AssistDone(c) ==
    /\ GoC(c, "drive", "join")
    /\ drv[c].at = "done"
    /\ drv' = [drv EXCEPT ![c] = Idle]
    /\ UNCHANGED <<flags, slots, parking, shutdown, wpc, drop, call, idx>>

\* while pending.load() > 0 { spin }; then the frame that holds the closure
\* goes away.
Join(c) ==
    /\ GoC(c, "join", "idle")
    /\ pending = 0
    /\ UNCHANGED <<flags, slots, parking, shutdown, wpc, drop, call, idx, drv>>

-----------------------------------------------------------------------------
(* The closure on a thread t: the driver of parallel_rows_stealing, or the  *)
(* static band.  drv[t].arg is the span wanted, then the victim.            *)

Cur(d, b) == cursor[d.job][b]
Top(d, b) == BandHi(op[d.job], b)

driving == <<flags, slots, parking, shutdown, wpc, cpc, drop, op, idx>>

\* Phase 1: load the cursor of the own band; half of what is left, at least
\* a chunk, is wanted.
DriveLoad(t) ==
    LET d == drv[t]
        cur == Cur(d, d.band)
        top == Top(d, d.band)
    IN /\ d.at = "load"
       /\ drv' = [drv EXCEPT ![t] =
                    IF cur >= top THEN [d EXCEPT !.at = "scan"]
                    ELSE [d EXCEPT !.at = "claim",
                                   !.arg = MaxOf((top - cur) \div 2, Chunk(op[d.job]))]]
       /\ UNCHANGED <<driving, cursor, touched>>

\* Mutant: the span a thread runs is not cut at the end of the band.
ClaimUncut(t, b, by, run, drained) ==
    LET d == drv[t]
        lo == Cur(d, b)
    IN /\ cursor' = [cursor EXCEPT ![d.job][b] = lo + by]
       /\ drv' = [drv EXCEPT ![t] =
                    IF lo >= Top(d, b) THEN [d EXCEPT !.at = drained]
                    ELSE [d EXCEPT !.at = run, !.lo = lo, !.hi = lo + by]]
       /\ UNCHANGED <<driving, touched>>

\* cursor.fetch_add(by) on band b: the rows it passed are claimed and run
\* next, or the band was drained.
Claim(t, b, by, run, drained) ==
    LET d == drv[t]
        lo == Cur(d, b)
    IN /\ cursor' = [cursor EXCEPT ![d.job][b] = lo + by]
       /\ drv' = [drv EXCEPT ![t] =
                    IF lo >= Top(d, b) THEN [d EXCEPT !.at = drained]
                    ELSE [d EXCEPT !.at = run, !.lo = lo, !.hi = MinOf(lo + by, Top(d, b))]]
       /\ UNCHANGED <<driving, touched>>

DriveClaim(t) ==
    drv[t].at = "claim" /\ Claim(t, drv[t].band, drv[t].arg, "run", "scan")

DriveSteal(t) ==
    drv[t].at = "steal" /\ Claim(t, drv[t].arg, Chunk(op[drv[t].job]), "runStolen", "scan")

\* f(lo, hi): the rows are run.
DriveRun(t) ==
    LET d == drv[t]
    IN /\ d.at \in {"run", "runStolen"}
       /\ touched' = [touched EXCEPT ![d.job] =
                        [r \in DOMAIN @ |-> IF r \in d.lo .. d.hi - 1 THEN @[r] + 1 ELSE @[r]]]
       /\ drv' = [drv EXCEPT ![t] =
                    [d EXCEPT !.at = IF ~steal THEN "done"
                                     ELSE IF d.at = "run" THEN "load" ELSE "steal",
                              !.lo = 0, !.hi = 0]]
       /\ UNCHANGED <<driving, cursor>>

\* Phase 2: pick a victim, or end.  The loads of one scan are taken together:
\* cursors only grow, so a scan that finds nothing is right, and the loads
\* may make any band with rows left look the fullest.
DriveScan(t) ==
    LET d == drv[t]
        left == {b \in DOMAIN cursor[d.job] \ {d.band} : Cur(d, b) < Top(d, b)}
    IN /\ d.at = "scan"
       /\ \/ left = {} /\ drv' = [drv EXCEPT ![t] = [d EXCEPT !.at = "done", !.arg = 0]]
          \/ \E v \in left : drv' = [drv EXCEPT ![t] = [d EXCEPT !.at = "steal", !.arg = v]]
       /\ UNCHANGED <<driving, cursor, touched>>

DriveStep(t) ==
    DriveLoad(t) \/ DriveClaim(t) \/ DriveRun(t) \/ DriveScan(t) \/ DriveSteal(t)

-----------------------------------------------------------------------------
(* spin_worker_loop *)

\* state.load() finds work ...
SpinLoad(w) ==
    /\ GoW(w, "spin", "fetch")
    /\ state[w] = 1
    /\ UNCHANGED <<flags, slots, parking, shutdown, cpc, drop, call, idx, drv>>

\* ... or none: every SPIN_LIMIT iterations shutdown is loaded, and after
\* PARK_AFTER_ROUNDS such rounds the worker announces that it parks:
\* parked.store(true), relaxed, and parked_count.fetch_add(1).  How long it
\* spins before that is left open.
SpinIdle(w) ==
    /\ state[w] # 1
    /\ \/ /\ shutdown /\ GoW(w, "spin", "exit")
          /\ UNCHANGED parking
       \/ /\ ~shutdown /\ GoW(w, "spin", "fence")
          /\ parkedOwn' = [parkedOwn EXCEPT ![w] = TRUE]
          /\ parkedCount' = parkedCount + 1
          /\ UNCHANGED <<parked, token>>
    /\ UNCHANGED <<flags, slots, shutdown, cpc, drop, call, idx, drv>>

\* fence(SeqCst): the store above is visible from here on.
ParkFence(w) ==
    /\ GoW(w, "fence", "recheck")
    /\ parked' = [parked EXCEPT ![w] = parkedOwn[w]]
    /\ UNCHANGED <<flags, slots, parkedOwn, parkedCount, token>>
    /\ UNCHANGED <<shutdown, cpc, drop, call, idx, drv>>

\* A delayed store of the parked flag becomes visible.
ParkedVisible(w) ==
    /\ parked[w] # parkedOwn[w]
    /\ parked' = [parked EXCEPT ![w] = parkedOwn[w]]
    /\ UNCHANGED <<flags, slots, parkedOwn, parkedCount, token>>
    /\ UNCHANGED <<shutdown, wpc, cpc, drop, call, idx, drv>>

\* state.load() != 1 && !shutdown.load().  The first load comes earlier than
\* the second; a flip between them is one after both.
ParkRecheck(w) ==
    /\ GoW(w, "recheck", IF state[w] = 1 \/ shutdown THEN "unparked" ELSE "park")
    /\ UNCHANGED <<flags, slots, parking, shutdown, cpc, drop, call, idx, drv>>

\* thread::park() returns with the token, at once if it is there already.
Park(w) ==
    /\ GoW(w, "park", "unparked")
    /\ token[w]
    /\ token' = [token EXCEPT ![w] = FALSE]
    /\ UNCHANGED <<flags, slots, parked, parkedOwn, parkedCount>>
    /\ UNCHANGED <<shutdown, cpc, drop, call, idx, drv>>

\* thread::park() may return for no reason.
ParkSpurious(w) ==
    /\ GoW(w, "park", "unparked")
    /\ UNCHANGED <<flags, slots, parking, shutdown, cpc, drop, call, idx, drv>>

\* parked_count.fetch_sub(1); parked.store(false), relaxed; then shutdown is
\* loaded.
Unparked(w) ==
    /\ GoW(w, "unparked", IF shutdown THEN "exit" ELSE "spin")
    /\ parkedCount' = parkedCount - 1
    /\ parkedOwn' = [parkedOwn EXCEPT ![w] = FALSE]
    /\ UNCHANGED <<flags, slots, parked, token, shutdown, cpc, drop, call, idx, drv>>

\* Work: read the slot and enter the closure through the trampoline.
Fetch(w) ==
    /\ GoW(w, "fetch", "drive")
    /\ drv' = [drv EXCEPT ![w] = Enter(slot[w])]
    /\ UNCHANGED <<flags, slots, parking, shutdown, cpc, drop, call, idx>>

\* The trampoline returns; state.store(0).
Reset(w) ==
    /\ GoW(w, "drive", "countdown")
    /\ drv[w].at = "done"
    /\ drv' = [drv EXCEPT ![w] = Idle]
    /\ state' = [state EXCEPT ![w] = 0]
    /\ UNCHANGED <<flags, flips, slot, pending, parking, shutdown, cpc, drop, call, idx>>

\* pending.fetch_sub(1), on a usize.
Countdown(w) ==
    /\ GoW(w, "countdown", "spin")
    /\ pending' = (pending + USize - 1) % USize
    /\ UNCHANGED <<flags, state, flips, slot, parking, shutdown, cpc, drop, call, idx, drv>>

-----------------------------------------------------------------------------
(* Drop for WorkerPool: the owner has the pool to itself *)

DropStart ==
    /\ drop = "live"
    /\ \A c \in Callers : cpc[c] = "idle"
    /\ drop' = "unpark"
    /\ shutdown' = TRUE
    /\ UNCHANGED <<flags, slots, parking, wpc, cpc, call, idx, drv>>

\* Mutant: the loop stops one worker early.
DropUnparkShort ==
    LET w == idx[None]
    IN /\ drop = "unpark"
       /\ drop' = IF w >= NWorkers - 1 THEN "join" ELSE "unpark"
       /\ token' = [token EXCEPT ![w] = TRUE]
       /\ idx' = [idx EXCEPT ![None] = w + 1]
       /\ UNCHANGED <<flags, slots, parked, parkedOwn, parkedCount>>
       /\ UNCHANGED <<shutdown, wpc, cpc, call, drv>>

\* unpark every worker, parked or not ...
DropUnpark ==
    LET w == idx[None]
    IN /\ drop = "unpark"
       /\ drop' = IF w = NWorkers THEN "join" ELSE "unpark"
       /\ token' = [token EXCEPT ![w] = TRUE]
       /\ idx' = [idx EXCEPT ![None] = w + 1]
       /\ UNCHANGED <<flags, slots, parked, parkedOwn, parkedCount>>
       /\ UNCHANGED <<shutdown, wpc, cpc, call, drv>>

\* ... and join them.
DropJoin ==
    /\ drop = "join"
    /\ \A w \in Workers : wpc[w] = "exit"
    /\ drop' = "dropped"
    /\ UNCHANGED <<flags, slots, parking, shutdown, wpc, cpc, call, idx, drv>>

-----------------------------------------------------------------------------
\* The steps of a call once it is made.
CallStep(c) ==
    \/ Inline(c) \/ Return(c) \/ WriteSlot(c) \/ WakeFence(c) \/ WakeCount(c) \/ WakeScan(c)
    \/ Assist(c) \/ AssistDone(c) \/ Join(c) \/ DriveStep(c)

WorkerStep(w) ==
    \/ SpinLoad(w) \/ SpinIdle(w) \/ ParkFence(w) \/ ParkRecheck(w) \/ Park(w)
    \/ Unparked(w) \/ Fetch(w) \/ Reset(w) \/ Countdown(w) \/ DriveStep(w)

DropStep == DropUnpark \/ DropJoin

Visible == \/ \E c \in Callers, w \in Workers : FlipVisible(c, w)
           \/ \E w \in Workers : ParkedVisible(w)

Next == \/ \E c \in Callers : Call(c) \/ CallStep(c)
        \/ \E w \in Workers : WorkerStep(w) \/ ParkSpurious(w)
        \/ Visible
        \/ DropStart \/ DropStep

Spec == Init /\ [][Next]_vars

\* Every thread that can take a step takes one in the end, and so does a
\* store that is not visible yet.  Nobody has to call, to drop the pool, or to
\* return from park without a token.
FairSpec == /\ Spec
            /\ \A c \in Callers : WF_vars(CallStep(c))
            /\ \A w \in Workers : WF_vars(WorkerStep(w))
            /\ WF_vars(Visible) /\ WF_vars(DropStep)

-----------------------------------------------------------------------------
(* Properties *)

\* The closure and the bands live in the caller's frame: whoever is inside a
\* closure, or about to enter one, finds the frame of that very call there.
ClosureAlive ==
    /\ \A t \in Workers \cup Callers : drv[t].at # "off" =>
          /\ cpc[drv[t].job] # "idle"
          /\ op[drv[t].job].call = drv[t].call
    /\ \A w \in Workers : state[w] = 1 \/ wpc[w] = "fetch" =>
          /\ slot[w].job # None
          /\ cpc[slot[w].job] # "idle"
          /\ op[slot[w].job].call = slot[w].call

\* A caller that spins on the countdown, and a worker that has work, get
\* there: no wake-up of a parked worker is lost.
JoinReturns == \A c \in Callers : (cpc[c] # "idle") ~> (cpc[c] = "idle")

\* Drop joins every worker, parked, parking or spinning.
DropReturns == (drop = "unpark") ~> (drop = "dropped")

FJ == INSTANCE ForkJoin WITH open <- [c \in Callers |-> cpc[c] # "idle"]

\* The pool implements the fork-join: every row is run exactly once, and
\* before the call returns, in both modes and with or without the caller.
ImplementsForkJoin == FJ!Spec
=============================================================================
