------------------------------- MODULE TierUp -------------------------------
(***************************************************************************)
(* Tier-up of a program that starts interpreted                            *)
(* (compiler/src/codegen/tiered_backend.rs: execute_function and           *)
(* BackgroundTierUp; mir_interpreter: Program and the interpreter loop).   *)
(* The program thread interprets, asks for what turns hot to be compiled   *)
(* and moves to compiled code; a worker thread compiles with Cranelift     *)
(* and, once the hot set is quiet, the whole program with LLVM.  Both      *)
(* publish code in function_pointers, function_tiers and                   *)
(* Program.natives.                                                        *)
(*                                                                         *)
(* Compiled code is known by who made it: "baseline" (the worker's         *)
(* Cranelift), "all" (compile_all_modules_jit on the program thread),      *)
(* "llvm".  A function has at most one loop.  A critical section of an     *)
(* RwLock is one step; a walk over a map without its write lock is a step  *)
(* per function.                                                           *)
(***************************************************************************)
EXTENDS Naturals, Sequences, FiniteSets

CONSTANTS Funcs,      \* the functions of the program
          Callees,    \* Callees[f]: the functions f calls; no recursion
          Places,     \* Places[f]: where f turns hot when interpreted
          Resumable,  \* functions whose loop can be given a resume point
          Simd,       \* functions with vector code, which is not interpreted
          Llvm,       \* the top tier is LLVM
          MaxExecs    \* bound: calls of execute_function

ASSUME FuncsKnown == IsFiniteSet(Funcs) /\ Funcs # {}
ASSUME CalleesKnown == Callees \in [Funcs -> SUBSET Funcs]
ASSUME PlacesKnown == Places \in [Funcs -> SUBSET {"block", "loop"}]
ASSUME ResumableKnown == Resumable \subseteq Funcs
ASSUME SimdKnown == Simd \subseteq Funcs
ASSUME LlvmIsBoolean == Llvm \in BOOLEAN
ASSUME MaxExecsIsNat == MaxExecs \in Nat

VARIABLES tier,       \* function_tiers
          fp,         \* function_pointers; "none" = no entry
          native,     \* Program.natives
          epoch,      \* which copy of the modules is loaded
          resume,     \* Program.resume_points, as <<copy, function>>
          requests,   \* the requests in the mpsc channel
          stopped,    \* background_stopped
          \* the program thread
          mpc,        \* where it is
          cur,        \* the function execute_function was called for
          stack,      \* its interpreted frames, as <<copy, function>>
          mtodo,      \* functions a walk has left
          execs,      \* calls of execute_function made
          \* the worker thread
          wpc,        \* where it is
          job,        \* the request it serves
          hasCode,    \* its function had code when it was looked at
          unit,       \* the functions it compiled, less those filtered out
          wtodo,      \* functions install has left for install_native
          point,      \* the unit has a resume point for job's loop
          llvm,       \* LlvmTier
          seen,       \* the <<function, place>> of the requests served
          attempted,  \* the functions whose loop was given one, or tried
          errors      \* the functions whose compile failed

code == <<tier, fp, native, epoch, resume>>
main == <<mpc, cur, stack, mtodo, execs>>
worker == <<wpc, job, hasCode, unit, wtodo, point, llvm, seen, attempted, errors>>
vars == <<code, requests, stopped, main, worker>>

Tiers == {"Interpreted", "Baseline", "Maximum"}
Codes == {"none", "baseline", "all", "llvm"}

\* A BackgroundRequest: the module's copy, the function, and the block a frame
\* of it is in: none, one outside its loop, one in it.
Copies == 0..1   \* the modules are replaced at most once
At == {"none", "block", "loop"}
Requests == [copy : Copies, func : Funcs, at : At]
NoJob == [copy |-> 0, func |-> CHOOSE f \in Funcs : TRUE, at |-> "none"]

\* compile_module, with start_interpreted: vector code skips the interpreter.
Init == /\ tier = [f \in Funcs |-> IF f \in Simd THEN "Baseline" ELSE "Interpreted"]
        /\ fp = [f \in Funcs |-> "none"]
        /\ native = [f \in Funcs |-> "none"]
        /\ epoch = 0
        /\ resume = {}
        /\ requests = {}
        /\ stopped = FALSE
        /\ mpc = "idle" /\ cur = NoJob.func /\ stack = <<>>
        /\ mtodo = {} /\ execs = 0
        /\ wpc = "unborn" /\ job = NoJob /\ hasCode = FALSE /\ unit = {} /\ wtodo = {}
        /\ point = FALSE
        /\ llvm = IF Llvm THEN "Waiting" ELSE "Done"
        /\ seen = {} /\ attempted = {} /\ errors = {}

Compiled(map) == {f \in Funcs : map[f] # "none"}

\* Program.has_natives
HasNatives == Compiled(native) # {}

Top == stack[Len(stack)]
Pop == SubSeq(stack, 1, Len(stack) - 1)

-----------------------------------------------------------------------------
(* execute_function, up to the choice of the tier *)

\* The embedder calls execute_function(f).
Execute(f) ==
    /\ mpc = "idle" /\ execs < MaxExecs
    /\ mpc' = "enter"
    /\ cur' = f
    /\ execs' = execs + 1
    /\ UNCHANGED <<code, requests, stopped, stack, mtodo, worker>>

\* start_background_tier_up, then record_call and
\* maybe_promote_interpreter_threshold_to_baseline: a function past a
\* threshold that has no code is sent to the worker.
Enter ==
    /\ mpc = "enter" /\ mpc' = "dispatch"
    /\ wpc' = IF wpc = "unborn" THEN "recv" ELSE wpc
    /\ \E hot \in BOOLEAN :
          requests' = IF hot /\ fp[cur] = "none"
                      THEN requests \cup {[copy |-> epoch, func |-> cur, at |-> "none"]}
                      ELSE requests
    /\ UNCHANGED <<code, stopped, cur, stack, mtodo, execs>>
    /\ UNCHANGED <<job, hasCode, unit, wtodo, point, llvm, seen, attempted, errors>>

\* Mutant: everything is compiled again although there is code.
DispatchCompilesAgain ==
    /\ mpc = "dispatch"
    /\ IF tier[cur] = "Interpreted"
       THEN mpc' = "interp" /\ stack' = <<<<epoch, cur>>>>
       ELSE mpc' = "swap" /\ UNCHANGED stack
    /\ UNCHANGED <<code, requests, stopped, cur, mtodo, execs, worker>>

\* The tier decides: interpret; or, at Baseline, compile everything when there
\* is no function pointer at all, promote, and run compiled code.
Dispatch ==
    /\ mpc = "dispatch"
    /\ \/ tier[cur] = "Interpreted" /\ mpc' = "interp" /\ stack' = <<<<epoch, cur>>>>
       \/ /\ tier[cur] = "Baseline"
          /\ mpc' = IF Compiled(fp) = {} THEN "swap" ELSE "promote"
          /\ UNCHANGED stack
       \/ tier[cur] = "Maximum" /\ mpc' = "jit" /\ UNCHANGED stack
    /\ UNCHANGED <<code, requests, stopped, cur, mtodo, execs, worker>>

\* Call through the function pointer, which may not be there.
RunJit ==
    /\ mpc = "jit"
    /\ mpc' = IF fp[cur] = "none" THEN "noCode" ELSE "idle"
    /\ UNCHANGED <<code, requests, stopped, cur, stack, mtodo, execs, worker>>

-----------------------------------------------------------------------------
(* The interpreter *)

\* warm: every threshold's worth of blocks the running function is asked for,
\* with the block it is in.
Warm(at) ==
    /\ mpc = "interp"
    /\ at \in Places[Top[2]]
    /\ at = "loop" => ~(HasNatives /\ Top \in resume)
    /\ requests' = requests \cup {[copy |-> Top[1], func |-> Top[2], at |-> at]}
    /\ UNCHANGED <<code, stopped, main, worker>>

\* entered: a loop header with a resume point carries on in compiled code,
\* which returns to the frame's caller.
Transfer ==
    /\ mpc = "interp" /\ "loop" \in Places[Top[2]]
    /\ HasNatives /\ Top \in resume
    /\ stack' = Pop
    /\ mpc' = IF Len(stack) = 1 THEN "idle" ELSE "interp"
    /\ UNCHANGED <<code, requests, stopped, cur, mtodo, execs, worker>>

\* call_op: a callee without native code gets a frame; one with native code
\* runs there and returns, which changes nothing here.
Call(g) ==
    /\ mpc = "interp"
    /\ g \in Callees[Top[2]] /\ native[g] = "none"
    /\ stack' = Append(stack, <<Top[1], g>>)
    /\ UNCHANGED <<code, requests, stopped, mpc, cur, mtodo, execs, worker>>

Return ==
    /\ mpc = "interp"
    /\ stack' = Pop
    /\ mpc' = IF Len(stack) = 1 THEN "idle" ELSE "interp"
    /\ UNCHANGED <<code, requests, stopped, cur, mtodo, execs, worker>>

\* Op::Bail, vector code in an interpreted frame: suspend if nothing at all
\* has native code, else fail with "vector code reached the interpreter".
Bail ==
    /\ mpc = "interp" /\ Top[2] \in Simd
    /\ mpc' = IF HasNatives THEN "noCode" ELSE "bailout"
    /\ UNCHANGED <<code, requests, stopped, cur, stack, mtodo, execs, worker>>

\* execute_function on JitBailout: compile everything when there is no
\* function pointer at all, else hand the interpreter the pointers there are.
Bailout ==
    /\ mpc = "bailout"
    /\ mpc' = IF Compiled(fp) = {} THEN "swap" ELSE "natives"
    /\ mtodo' = Compiled(fp)
    /\ UNCHANGED <<code, requests, stopped, cur, stack, execs, worker>>

-----------------------------------------------------------------------------
(* compile_all_modules_jit *)

\* A copy of the modules takes their place.
SwapModules ==
    /\ mpc = "swap" /\ mpc' = "compile"
    /\ epoch' = epoch + 1
    /\ UNCHANGED <<tier, fp, native, resume, requests, stopped>>
    /\ UNCHANGED <<cur, stack, mtodo, execs, worker>>

\* Cranelift compiles all modules, or fails and execute_function with it.
CompileAll ==
    /\ mpc = "compile"
    /\ \/ mpc' = "pointers" /\ mtodo' = Funcs
       \/ mpc' = "error" /\ UNCHANGED mtodo
    /\ UNCHANGED <<code, requests, stopped, cur, stack, execs, worker>>

\* function_pointers.write().insert, function by function, over whatever is
\* there; function_tiers is left alone.
StorePointer(f) ==
    /\ mpc = "pointers" /\ f \in mtodo
    /\ fp' = [fp EXCEPT ![f] = "all"]
    /\ mtodo' = mtodo \ {f}
    /\ mpc' = IF mtodo' = {} THEN "resumes" ELSE "pointers"
    /\ UNCHANGED <<tier, native, epoch, resume, requests, stopped>>
    /\ UNCHANGED <<cur, stack, execs, worker>>

\* Resume points for the suspended frames that stopped in a loop, where one
\* could be built.
StoreResumes ==
    /\ mpc = "resumes" /\ mpc' = "natives"
    /\ LET inLoop == {i \in 1..Len(stack) : /\ "loop" \in Places[stack[i][2]]
                                            /\ stack[i][2] \in Resumable}
       IN  \E frames \in SUBSET {stack[i] : i \in inLoop} : resume' = resume \cup frames
    /\ mtodo' = Compiled(fp)
    /\ UNCHANGED <<tier, fp, native, epoch, requests, stopped>>
    /\ UNCHANGED <<cur, stack, execs, worker>>

\* install_native for every function pointer, with its map read-locked.
StoreNative(f) ==
    /\ mpc = "natives" /\ f \in mtodo
    /\ native' = [native EXCEPT ![f] = fp[f]]
    /\ mtodo' = mtodo \ {f}
    /\ mpc' = IF mtodo' = {} THEN "promote" ELSE "natives"
    /\ UNCHANGED <<tier, fp, epoch, resume, requests, stopped>>
    /\ UNCHANGED <<cur, stack, execs, worker>>

\* Mutant: every function is promoted, compiled or not.
PromoteEverything ==
    /\ mpc = "promote"
    /\ tier' = [f \in Funcs |-> IF tier[f] = "Interpreted" THEN "Baseline" ELSE tier[f]]
    /\ mpc' = IF stack = <<>> THEN "jit" ELSE "enter"
    /\ stack' = <<>>
    /\ UNCHANGED <<fp, native, epoch, resume, requests, stopped>>
    /\ UNCHANGED <<cur, mtodo, execs, worker>>

\* Mutant: what has code goes to Baseline, wherever it was.
PromoteWithoutLook ==
    /\ mpc = "promote"
    /\ tier' = [f \in Funcs |-> IF f \in Compiled(fp) THEN "Baseline" ELSE tier[f]]
    /\ mpc' = IF stack = <<>> THEN "jit" ELSE "enter"
    /\ stack' = <<>>
    /\ UNCHANGED <<fp, native, epoch, resume, requests, stopped>>
    /\ UNCHANGED <<cur, mtodo, execs, worker>>

\* promote_compiled_functions_to_baseline.  Then compiled code is run; or,
\* after a bail-out, the frames are not resumable (the top one is at its
\* Op::Bail) and execute_function starts over.
PromoteCompiled ==
    /\ mpc = "promote"
    /\ tier' = [f \in Funcs |-> IF f \in Compiled(fp) /\ tier[f] = "Interpreted"
                                THEN "Baseline" ELSE tier[f]]
    /\ mpc' = IF stack = <<>> THEN "jit" ELSE "enter"
    /\ stack' = <<>>
    /\ UNCHANGED <<fp, native, epoch, resume, requests, stopped>>
    /\ UNCHANGED <<cur, mtodo, execs, worker>>

\* stop_background_compiles after main returned, or Drop after an error.
Stop ==
    /\ mpc \in {"idle", "noCode", "error"} /\ mpc' = "ended"
    /\ stopped' = TRUE
    /\ UNCHANGED <<code, requests, cur, stack, mtodo, execs, worker>>

-----------------------------------------------------------------------------
(* BackgroundTierUp::run *)

\* recv or recv_timeout returns a request; a stopped program ends the loop,
\* and a function is served once for each place it is asked for from.  The channel is first in, first out; the
\* model takes any request in it.
Receive(r) ==
    /\ wpc = "recv" /\ r \in requests
    /\ requests' = requests \ {r}
    /\ \/ stopped /\ wpc' = "exited" /\ UNCHANGED <<job, seen>>
       \/ ~stopped /\ <<r.func, r.at>> \in seen /\ UNCHANGED <<wpc, job, seen>>
       \/ /\ ~stopped /\ <<r.func, r.at>> \notin seen
          /\ wpc' = "look" /\ job' = r
          /\ seen' = seen \cup {<<r.func, r.at>>}
    /\ UNCHANGED <<code, stopped, main, hasCode, unit, wtodo, point, llvm, attempted, errors>>

\* recv_timeout timed out: the hot set is quiet and the LLVM tier is due.
Quiet ==
    /\ wpc = "recv" /\ llvm = "Due" /\ requests = {}
    /\ wpc' = IF stopped THEN "exited" ELSE "llvm"
    /\ UNCHANGED <<code, requests, stopped, main>>
    /\ UNCHANGED <<job, hasCode, unit, wtodo, point, llvm, seen, attempted, errors>>

\* Back to the head of the loop; the locals of the round are gone.
Wait == /\ wpc' = "recv" /\ job' = NoJob /\ hasCode' = FALSE
        /\ unit' = {} /\ point' = FALSE

\* Mutant: the function alone, without what it calls.
UnitRootOnly(f, known, resumes) == IF hasCode THEN {} ELSE {f}

\* prepare and add_unserved_callees: the function unless it has code, and what
\* it and its resume point, if it has one, call, on and on, that has no known
\* code.
Unit(f, known, resumes) ==
    LET seed == (IF hasCode THEN {} ELSE {f}) \cup (IF resumes THEN Callees[f] \ known ELSE {})
        Closed(S) == seed \subseteq S /\ \A g \in S : Callees[g] \ known \subseteq S
    IN  {g \in Funcs : \A S \in SUBSET Funcs : Closed(S) => g \in S}

\* add_resume_points for the loop f is asked from: nothing is built when
\* build_resume_variant rejects the loop, or with OSR switched off.
AddResumePoint(f, loop) == loop /\ f \in Resumable

\* compile_baseline looks whether the function has code ...
Look ==
    /\ wpc = "look" /\ wpc' = "snapshot"
    /\ hasCode' = (fp[job.func] # "none")
    /\ UNCHANGED <<code, requests, stopped, main>>
    /\ UNCHANGED <<job, unit, wtodo, point, llvm, seen, attempted, errors>>

\* Mutant: what has code is done with, whatever asked for it.
SnapshotHasCode ==
    /\ wpc = "snapshot"
    /\ IF hasCode
       THEN Wait /\ UNCHANGED <<attempted, errors>>
       ELSE /\ wpc' = "compile"
            /\ point' = AddResumePoint(job.func, job.at = "loop")
            /\ unit' = Unit(job.func, Compiled(fp), point')
            /\ attempted' = attempted \cup {job.func}
            /\ UNCHANGED <<job, hasCode, errors>>
    /\ UNCHANGED <<code, requests, stopped, main, wtodo, llvm, seen>>

\* ... and at all of function_pointers and the modules, for what is left to
\* compile.  A loop is tried once, whether it gets its resume point or not.
Snapshot ==
    /\ wpc = "snapshot"
    /\ LET f == job.func
           loop == /\ job.at = "loop"
                   /\ <<job.copy, f>> \notin resume
                   /\ f \notin attempted
       IN  \/ /\ job.copy # epoch      \* "no longer loaded"
              /\ Wait
              /\ errors' = errors \cup {f}
              /\ UNCHANGED attempted
           \/ /\ job.copy = epoch
              /\ hasCode /\ ~loop
              /\ Wait
              /\ UNCHANGED <<attempted, errors>>
           \/ /\ job.copy = epoch
              /\ ~hasCode \/ loop
              /\ wpc' = "compile"
              /\ point' = AddResumePoint(f, loop)
              /\ unit' = Unit(f, Compiled(fp), point')
              /\ attempted' = IF loop THEN attempted \cup {f} ELSE attempted
              /\ UNCHANGED <<job, hasCode, errors>>
    /\ UNCHANGED <<code, requests, stopped, main, wtodo, llvm, seen>>

\* Cranelift compiles the unit, or fails: the request is not tried again.
CompileBaseline ==
    /\ wpc = "compile"
    /\ \/ wpc' = "filter" /\ UNCHANGED <<job, hasCode, unit, point, errors>>
       \/ Wait /\ errors' = errors \cup {job.func}
    /\ UNCHANGED <<code, requests, stopped, main>>
    /\ UNCHANGED <<wtodo, llvm, seen, attempted>>

\* install with replace = false: leave out, under the read lock, what has code
\* by now ...
Filter ==
    /\ wpc = "filter" /\ wpc' = "write"
    /\ unit' = unit \ Compiled(fp)
    /\ UNCHANGED <<code, requests, stopped, main>>
    /\ UNCHANGED <<job, hasCode, wtodo, point, llvm, seen, attempted, errors>>

\* ... write the pointers and the tiers under both write locks ...
Write(from, to, c, t) ==
    /\ wpc = from /\ wpc' = to
    /\ mpc # "natives"
    /\ fp' = [f \in Funcs |-> IF f \in unit THEN c ELSE fp[f]]
    /\ tier' = [f \in Funcs |-> IF f \in unit THEN t ELSE tier[f]]
    /\ wtodo' = unit
    /\ UNCHANGED <<native, epoch, resume, requests, stopped, main>>
    /\ UNCHANGED <<job, hasCode, unit, point, llvm, seen, attempted, errors>>

\* ... and install_native one after the other.
InstallNative(f) ==
    /\ f \in wtodo
    /\ native' = [native EXCEPT ![f] = IF wpc = "native" THEN "baseline" ELSE "llvm"]
    /\ wtodo' = wtodo \ {f}
    /\ UNCHANGED <<tier, fp, epoch, resume, requests, stopped, main>>
    /\ UNCHANGED <<wpc, job, hasCode, unit, point, llvm, seen, attempted, errors>>

\* Mutant: only the function that was asked for is handed to the interpreter.
InstallResumeEarly ==
    /\ wpc = "native" /\ job.func \notin wtodo
    /\ Wait
    /\ wtodo' = {}
    /\ resume' = IF point THEN resume \cup {<<job.copy, job.func>>} ELSE resume
    /\ llvm' = IF llvm = "Waiting" THEN "Due" ELSE llvm
    /\ UNCHANGED <<tier, fp, native, epoch, requests, stopped, main>>
    /\ UNCHANGED <<seen, attempted, errors>>

\* compile_baseline ends with the resume point, if one was built; the first
\* compile makes the LLVM tier due.
InstallResume ==
    /\ wpc = "native" /\ wtodo = {}
    /\ Wait
    /\ resume' = IF point THEN resume \cup {<<job.copy, job.func>>} ELSE resume
    /\ llvm' = IF llvm = "Waiting" THEN "Due" ELSE llvm
    /\ UNCHANGED <<tier, fp, native, epoch, requests, stopped, main>>
    /\ UNCHANGED <<wtodo, seen, attempted, errors>>

\* compile_llvm_tier: the whole program, or an error; it is not retried.
CompileLlvm ==
    /\ wpc = "llvm"
    /\ \/ wpc' = "llvmWrite" /\ unit' = Funcs /\ UNCHANGED <<job, hasCode, point, llvm>>
       \/ Wait /\ llvm' = "Done"
    /\ UNCHANGED <<code, requests, stopped, main>>
    /\ UNCHANGED <<wtodo, seen, attempted, errors>>

LlvmDone ==
    /\ wpc = "llvmNative" /\ wtodo = {}
    /\ Wait /\ llvm' = "Done"
    /\ UNCHANGED <<code, requests, stopped, main>>
    /\ UNCHANGED <<wtodo, seen, attempted, errors>>

WriteBaseline == Write("write", "native", "baseline", "Baseline")
WriteLlvm == Write("llvmWrite", "llvmNative", "llvm", "Maximum")

-----------------------------------------------------------------------------
\* Compiling everything, once begun, goes on to its end.
CompileAllStep ==
    \/ SwapModules \/ CompileAll \/ StoreResumes \/ PromoteCompiled
    \/ \E f \in Funcs : StorePointer(f) \/ StoreNative(f)

Interpret == \/ \E at \in At : Warm(at)
             \/ \E g \in Funcs : Call(g)
             \/ Transfer \/ Return \/ Bail \/ Bailout

MainStep == \/ \E f \in Funcs : Execute(f)
            \/ Enter \/ Dispatch \/ RunJit \/ Interpret \/ CompileAllStep \/ Stop

ServeStep == \/ Quiet \/ Look \/ Snapshot \/ CompileBaseline \/ Filter \/ WriteBaseline
             \/ InstallResume \/ CompileLlvm \/ WriteLlvm \/ LlvmDone
             \/ \E f \in Funcs : InstallNative(f)

WorkerStep == (\E r \in requests : Receive(r)) \/ ServeStep

Next == MainStep \/ WorkerStep

Spec == Init /\ [][Next]_vars

-----------------------------------------------------------------------------
(* Properties *)

\* Every variable holds a value of the code's type.
TypeOK ==
    /\ tier \in [Funcs -> Tiers]
    /\ fp \in [Funcs -> Codes]
    /\ native \in [Funcs -> Codes]
    /\ epoch \in Copies
    /\ resume \subseteq Copies \X Funcs
    /\ requests \subseteq Requests
    /\ stopped \in BOOLEAN
    /\ mpc \in {"idle", "enter", "dispatch", "interp", "bailout", "swap", "compile",
                "pointers", "resumes", "natives", "promote", "jit",
                "noCode", "error", "ended"}
    /\ cur \in Funcs
    /\ stack \in Seq(Copies \X Funcs)
    /\ mtodo \subseteq Funcs
    /\ execs \in 0..MaxExecs
    /\ wpc \in {"unborn", "recv", "look", "snapshot", "compile", "filter", "write", "native",
                "llvm", "llvmWrite", "llvmNative", "exited"}
    /\ job \in Requests
    /\ hasCode \in BOOLEAN
    /\ unit \subseteq Funcs
    /\ wtodo \subseteq Funcs
    /\ point \in BOOLEAN
    /\ llvm \in {"Waiting", "Due", "Done"}
    /\ seen \subseteq Funcs \X At
    /\ attempted \subseteq Funcs
    /\ errors \subseteq Funcs

\* A function at a compiled tier has a function pointer, so execute_function's
\* look-up succeeds, whichever of the three writers moved the tier.  Vector
\* code is the exception: compile_module puts it at Baseline without any code.
TierHasCode ==
    \A f \in Funcs \ Simd : tier[f] # "Interpreted" => fp[f] # "none"

\* Code the worker made runs without the interpreter: everything it calls has
\* code as well, although the unit was cut at what had code when it was taken.
CalleesServed ==
    \A f \in Funcs : fp[f] \in {"baseline", "llvm"} =>
        \A g \in Callees[f] : fp[g] # "none"

\* The interpreter and execute_function reach compiled code for the same
\* functions whenever neither thread is in the middle of publishing, and the
\* interpreter never before function_pointers has it.
PublishedEverywhere ==
    /\ Compiled(native) \subseteq Compiled(fp)
    /\ (/\ wpc \notin {"native", "llvmNative"}
        /\ mpc \notin {"pointers", "resumes", "natives"})
          => Compiled(native) = Compiled(fp)

\* The tier of a function never goes down and its code is never taken away:
\* Baseline code filtered before another writer published stays below it.
Rank == [Interpreted |-> 0, Baseline |-> 1, Maximum |-> 2]
NoDowngrade ==
    [][\A f \in Funcs : /\ Rank[tier[f]] <= Rank[tier'[f]]
                        /\ fp[f] # "none" => fp'[f] # "none"
                        /\ native[f] # "none" => native'[f] # "none"]_vars

\* What the worker is through with was not in vain: the function has code and,
\* when a frame in its loop asked, a resume point that takes such frames out of
\* the interpreter, unless the loop cannot have one; or its compile failed.  No
\* later request makes up for a miss: the same place is not served twice, and
\* "a loop that cannot have one is not retried".
RequestSettled ==
    \A s \in seen : wpc = "recv" \/ job.func # s[1] =>
        \/ s[1] \in errors
        \/ /\ fp[s[1]] # "none"
           /\ s[2] = "loop" /\ s[1] \in Resumable =>
                  \E c \in Copies : <<c, s[1]>> \in resume

\* "Functions using SIMD instructions are promoted to Baseline immediately
\* (the interpreter doesn't support vector operations)": no execution fails
\* because vector code has no compiled form.
VectorCodeRuns == mpc # "noCode"
=============================================================================
