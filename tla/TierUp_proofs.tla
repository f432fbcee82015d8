--------------------------- MODULE TierUp_proofs ----------------------------
(***************************************************************************)
(* Proofs about TierUp, for every program: any set of functions, any call  *)
(* graph, any of them vector code, with and without the LLVM tier.         *)
(***************************************************************************)
EXTENDS TierUp, TLAPS

-----------------------------------------------------------------------------
(* The inductive invariant *)

CodeTypes ==
    /\ tier \in [Funcs -> Tiers]
    /\ fp \in [Funcs -> Codes]
    /\ native \in [Funcs -> Codes]
    /\ unit \subseteq Funcs

\* Maximum is only ever given together with LLVM code.
MaximumHasCode == \A f \in Funcs : tier[f] = "Maximum" => fp[f] # "none"

\* From its choice to its installation the unit calls only itself and what has
\* code by now: pointers are overwritten, never removed.
UnitClosed ==
    wpc \in {"compile", "filter", "write"} =>
        \A g \in unit : \A h \in Callees[g] : h \in unit \/ fp[h] # "none"

LlvmUnitWhole == wpc = "llvmWrite" => unit = Funcs

\* What install kept has not reached the top tier in between.
UnitBelowMaximum == wpc = "write" => \A f \in unit : tier[f] # "Maximum"

\* The walk over function_pointers finds a pointer for each of its functions.
WalkHasCode == mpc = "natives" => \A f \in mtodo : fp[f] # "none"

CodeInv ==
    /\ CodeTypes
    /\ TierHasCode
    /\ MaximumHasCode
    /\ CalleesServed
    /\ UnitClosed
    /\ LlvmUnitWhole
    /\ UnitBelowMaximum
    /\ WalkHasCode

\* compile_module leaves no code behind, and only vector code above the
\* interpreter.
LEMMA CodeInvInit == Init => CodeInv
BY DEF Init, CodeInv, CodeTypes, Tiers, Codes, TierHasCode, MaximumHasCode,
       CalleesServed, UnitClosed, LlvmUnitWhole, UnitBelowMaximum, WalkHasCode

\* add_unserved_callees leaves nothing out: what a function of the unit calls
\* is in the unit or was known to have code.
LEMMA UnitIsClosed ==
    ASSUME NEW f, NEW known, NEW resumes, NEW g \in Unit(f, known, resumes),
           NEW h \in Callees[g], h \notin known
    PROVE  h \in Unit(f, known, resumes)
<1> DEFINE seed == (IF hasCode THEN {} ELSE {f}) \cup (IF resumes THEN Callees[f] \ known ELSE {})
           Closed(S) == seed \subseteq S /\ \A x \in S : Callees[x] \ known \subseteq S
<1>1. Unit(f, known, resumes) = {x \in Funcs : \A S \in SUBSET Funcs : Closed(S) => x \in S}
  BY DEF Unit
<1>2. g \in Funcs  BY <1>1
<1>3. h \in Funcs  BY <1>2, CalleesKnown
<1>4. ASSUME NEW S \in SUBSET Funcs, Closed(S)
      PROVE  h \in S
  <2>1. g \in S  BY <1>1, <1>4
  <2> QED  BY <2>1, <1>4
<1> QED  BY <1>1, <1>3, <1>4

\* Every step keeps the invariant: CodeInv is inductive.
LEMMA CodeInvStep == CodeInv /\ [Next]_vars => CodeInv'
<1> SUFFICES ASSUME CodeInv, [Next]_vars PROVE CodeInv'
  OBVIOUS
<1> USE DEF CodeInv, CodeTypes, Tiers, Codes, TierHasCode, MaximumHasCode, CalleesServed,
            UnitClosed, LlvmUnitWhole, UnitBelowMaximum, WalkHasCode
<1> USE CalleesKnown
<1>1. ASSUME NEW f \in Funcs, Execute(f) PROVE CodeInv'
  BY <1>1 DEF Execute, code, worker
<1>2. CASE Enter  BY <1>2 DEF Enter, code
<1>3. CASE Dispatch  BY <1>3 DEF Dispatch, code, worker
<1>4. CASE RunJit  BY <1>4 DEF RunJit, code, worker
<1>5. ASSUME NEW at, Warm(at) PROVE CodeInv'
  BY <1>5 DEF Warm, code, main, worker
<1>6. ASSUME NEW g, Call(g) PROVE CodeInv'
  BY <1>6 DEF Call, code, worker
<1>7. CASE Transfer  BY <1>7 DEF Transfer, code, worker
<1>8. CASE Return  BY <1>8 DEF Return, code, worker
<1>9. CASE Bail  BY <1>9 DEF Bail, code, worker
<1>10. CASE Bailout  BY <1>10 DEF Bailout, Compiled, code, worker
<1>11. CASE SwapModules  BY <1>11 DEF SwapModules, worker
<1>12. CASE CompileAll  BY <1>12 DEF CompileAll, code, worker
<1>13. ASSUME NEW f \in Funcs, StorePointer(f) PROVE CodeInv'
  BY <1>13 DEF StorePointer, worker
<1>14. CASE StoreResumes  BY <1>14 DEF StoreResumes, Compiled, worker
<1>15. ASSUME NEW f \in Funcs, StoreNative(f) PROVE CodeInv'
  BY <1>15 DEF StoreNative, worker
<1>16. CASE PromoteCompiled  BY <1>16 DEF PromoteCompiled, Compiled, worker
<1>17. CASE Stop  BY <1>17 DEF Stop, code, worker
<1>18. ASSUME NEW r, Receive(r) PROVE CodeInv'
  BY <1>18 DEF Receive, code, main
<1>19. CASE Quiet  BY <1>19 DEF Quiet, code, main
<1>20. CASE Look  BY <1>20 DEF Look, code, main
<1>21. CASE Snapshot
  <2>1. UNCHANGED <<tier, fp, native, mpc, mtodo>>
    BY <1>21 DEF Snapshot, code, main
  <2>2. CASE wpc' = "recv" /\ unit' = {}  BY <2>1, <2>2
  <2>3. CASE wpc' = "compile" /\ unit' = Unit(job.func, Compiled(fp), point')
    <3>1. unit' \subseteq Funcs  BY <2>3 DEF Unit
    <3>2. \A g \in unit' : \A h \in Callees[g] : h \in unit' \/ h \in Compiled(fp)
      BY <2>3, UnitIsClosed
    <3>3. UnitClosed'  BY <2>1, <3>1, <3>2 DEF Compiled
    <3> QED  BY <2>1, <2>3, <3>1, <3>3
  <2> QED  BY <1>21, <2>2, <2>3 DEF Snapshot, Wait
<1>22. CASE CompileBaseline  BY <1>22 DEF CompileBaseline, Wait, code, main
<1>23. CASE Filter  BY <1>23 DEF Filter, Compiled, code, main
<1>24. CASE WriteBaseline  BY <1>24 DEF WriteBaseline, Write, main
<1>25. ASSUME NEW f \in Funcs, InstallNative(f) PROVE CodeInv'
  BY <1>25 DEF InstallNative, main
<1>26. CASE InstallResume  BY <1>26 DEF InstallResume, Wait, main
<1>27. CASE CompileLlvm  BY <1>27 DEF CompileLlvm, Wait, code, main
<1>28. CASE WriteLlvm  BY <1>28 DEF WriteLlvm, Write, main
<1>29. CASE LlvmDone  BY <1>29 DEF LlvmDone, Wait, code, main
<1>30. CASE UNCHANGED vars  BY <1>30 DEF vars, code, main, worker
<1> HIDE DEF CodeInv
<1> QED
  BY <1>1, <1>2, <1>3, <1>4, <1>5, <1>6, <1>7, <1>8, <1>9, <1>10, <1>11, <1>12, <1>13,
     <1>14, <1>15, <1>16, <1>17, <1>18, <1>19, <1>20, <1>21, <1>22, <1>23, <1>24,
     <1>25, <1>26, <1>27, <1>28, <1>29, <1>30
  DEF Next, MainStep, WorkerStep, ServeStep, Interpret, CompileAllStep

-----------------------------------------------------------------------------
(* What follows *)

\* The invariant holds in every behaviour.
LEMMA CodeInvAlways == Spec => []CodeInv
BY CodeInvInit, CodeInvStep, PTL DEF Spec

\* execute_function finds a pointer for every function at a compiled tier that
\* compile_module did not put there, in every program.
THEOREM TierImpliesCode == Spec => []TierHasCode
<1>1. CodeInv => TierHasCode  BY DEF CodeInv
<1> QED  BY <1>1, CodeInvAlways, PTL

\* Code the worker installed only calls what has code, in every program.
THEOREM CalleesHaveCode == Spec => []CalleesServed
<1>1. CodeInv => CalleesServed  BY DEF CodeInv
<1> QED  BY <1>1, CodeInvAlways, PTL

\* No step of the program or of the worker lowers a tier or removes code,
\* although install looks (under the read lock) before it writes.
THEOREM TiersOnlyRise == Spec => NoDowngrade
<1> DEFINE Rises == \A f \in Funcs : /\ Rank[tier[f]] <= Rank[tier'[f]]
                                     /\ fp[f] # "none" => fp'[f] # "none"
                                     /\ native[f] # "none" => native'[f] # "none"
<1>1. CodeInv /\ [Next]_vars => [Rises]_vars
  <2> SUFFICES ASSUME CodeInv, Next PROVE Rises
    OBVIOUS
  <2> USE DEF CodeInv, CodeTypes, Tiers, Codes, Rank
  <2>1. CASE UNCHANGED <<tier, fp, native>>  BY <2>1
  <2>2. ASSUME NEW f \in Funcs, StorePointer(f) PROVE Rises
    BY <2>2 DEF StorePointer
  <2>3. ASSUME NEW f \in Funcs, StoreNative(f) PROVE Rises
    BY <2>3 DEF StoreNative, WalkHasCode
  <2>4. CASE PromoteCompiled  BY <2>4 DEF PromoteCompiled
  <2>5. CASE WriteBaseline  BY <2>5 DEF WriteBaseline, Write, UnitBelowMaximum
  <2>6. CASE WriteLlvm  BY <2>6 DEF WriteLlvm, Write
  <2>7. ASSUME NEW f \in Funcs, InstallNative(f) PROVE Rises
    BY <2>7 DEF InstallNative
  <2>8. ASSUME NEW f, NEW at, NEW r,
               \/ Execute(f) \/ Enter \/ Dispatch \/ RunJit \/ Warm(at) \/ Call(f)
               \/ Transfer \/ Return \/ Bail \/ Bailout \/ SwapModules \/ CompileAll
               \/ StoreResumes \/ Stop \/ Receive(r) \/ Quiet \/ Look \/ Snapshot
               \/ CompileBaseline \/ Filter \/ InstallResume \/ CompileLlvm \/ LlvmDone
        PROVE  UNCHANGED <<tier, fp, native>>
    BY <2>8 DEF Execute, Enter, Dispatch, RunJit, Warm, Call, Transfer, Return, Bail,
                Bailout, SwapModules, CompileAll, StoreResumes, Stop, Receive, Quiet,
                Look, Snapshot, CompileBaseline, Filter, InstallResume, CompileLlvm,
                LlvmDone, code
  <2> HIDE DEF CodeInv
  <2> QED
    BY <2>1, <2>2, <2>3, <2>4, <2>5, <2>6, <2>7, <2>8
    DEF Next, MainStep, WorkerStep, ServeStep, Interpret, CompileAllStep
<1> QED  BY <1>1, CodeInvAlways, PTL DEF Spec, NoDowngrade

-----------------------------------------------------------------------------
(* Types *)

\* The modules are replaced once: before that there is no code, and from the
\* first pointer stored on neither execute_function nor a bail-out compiles
\* everything again; a compile that fails ends the program.
ReplacedOnce ==
    /\ mpc = "swap" => epoch = 0
    /\ epoch # 0 => \/ Compiled(fp) # {}
                    \/ mpc \in {"compile", "pointers", "error", "ended"}

\* The interpreter has a frame.
FrameThere == mpc \in {"interp", "bailout"} => stack # <<>>

TypeInv == TypeOK /\ ReplacedOnce /\ FrameThere

\* A worker without a request has one of the right type.
LEMMA NoJobTyped == NoJob \in Requests
BY FuncsKnown DEF NoJob, Requests, Copies, At

\* The types hold at the start.
LEMMA TypeInvInit == Init => TypeInv
<1> SUFFICES ASSUME Init PROVE TypeInv
  OBVIOUS
<1>1. NoJob.func \in Funcs  BY NoJobTyped DEF Requests
<1>2. /\ tier \in [Funcs -> Tiers] /\ fp \in [Funcs -> Codes] /\ native \in [Funcs -> Codes]
      /\ epoch \in Copies /\ resume \subseteq Copies \X Funcs /\ execs \in 0..MaxExecs
  BY MaxExecsIsNat DEF Init, Tiers, Codes, Copies
<1>3. stack \in Seq(Copies \X Funcs)  BY DEF Init
<1>4. TypeOK  BY <1>1, <1>2, <1>3, NoJobTyped DEF Init, TypeOK
<1>5. ReplacedOnce /\ FrameThere  BY DEF Init, ReplacedOnce, FrameThere
<1> QED  BY <1>4, <1>5 DEF TypeInv

\* The frame that runs is a function of a copy; one frame less is a stack.
LEMMA FramesTyped ==
    ASSUME TypeOK, stack # <<>>
    PROVE  /\ Top \in Copies \X Funcs
           /\ Pop \in Seq(Copies \X Funcs)
           /\ Len(stack) # 1 => Pop # <<>>
<1> DEFINE F == Copies \X Funcs
<1>1. stack \in Seq(F)  BY DEF TypeOK
<1> HIDE DEF F
<1>2. Len(stack) \in Nat \ {0} /\ stack[Len(stack)] \in F  BY <1>1
<1> DEFINE n == Len(stack) - 1
<1>6. n \in Nat /\ n <= Len(stack)  BY <1>2
<1>7. \A i \in 1..n : stack[i] \in F  BY <1>1, <1>6
<1>3. SubSeq(stack, 1, n) \in Seq(F)  BY <1>1, <1>6, <1>7, SMTT(20)
<1>4. ASSUME n >= 1 PROVE SubSeq(stack, 1, n)[1] = stack[1] /\ Len(SubSeq(stack, 1, n)) = n
  BY <1>1, <1>4, <1>6, <1>7, SMTT(20)
<1>8. ASSUME n >= 1 PROVE SubSeq(stack, 1, n) # <<>>
  BY <1>3, <1>4, <1>6, <1>8, SMTT(20)
<1>9. ASSUME NEW l \in Nat \ {0}, l # 1 PROVE l - 1 >= 1  BY <1>9
<1>5. Len(stack) # 1 => SubSeq(stack, 1, n) # <<>>  BY <1>2, <1>8, <1>9
<1> QED  BY <1>2, <1>3, <1>5 DEF Top, Pop, F

\* Every step of the program thread and of the worker keeps the types.
LEMMA TypeInvStep == TypeInv /\ CodeInv /\ [Next]_vars => TypeInv'
<1> SUFFICES ASSUME TypeInv, CodeInv, [Next]_vars PROVE TypeInv'
  OBVIOUS
<1> USE DEF TypeInv, TypeOK, ReplacedOnce, FrameThere
<1>1. ASSUME NEW f \in Funcs, Execute(f) PROVE TypeInv'
  BY <1>1, MaxExecsIsNat DEF Execute, code, worker
<1>2. CASE Enter
  BY <1>2 DEF Enter, code, Requests, At
<1>3. CASE Dispatch
  <2>1. <<<<epoch, cur>>>> \in Seq(Copies \X Funcs) /\ <<<<epoch, cur>>>> # <<>>  OBVIOUS
  <2>2. stack' \in Seq(Copies \X Funcs) /\ FrameThere'  BY <1>3, <2>1 DEF Dispatch
  <2>3. ReplacedOnce'  BY <1>3 DEF Dispatch, code, Compiled
  <2>4. TypeOK'  BY <1>3, <2>2 DEF Dispatch, code, worker
  <2> QED  BY <2>2, <2>3, <2>4
<1>4. CASE RunJit  BY <1>4 DEF RunJit, code, worker
<1>5. ASSUME NEW at \in At, Warm(at) PROVE TypeInv'
  <2>1. Top \in Copies \X Funcs  BY <1>5, FramesTyped DEF Warm
  <2>2. [copy |-> Top[1], func |-> Top[2], at |-> at] \in Requests  BY <2>1 DEF Requests
  <2>3. requests' \subseteq Requests  BY <1>5, <2>2 DEF Warm
  <2> QED  BY <1>5, <2>3 DEF Warm, code, main, worker
<1>6. ASSUME NEW g \in Funcs, Call(g) PROVE TypeInv'
  <2>1. Top \in Copies \X Funcs  BY <1>6, FramesTyped DEF Call
  <2>2. <<Top[1], g>> \in Copies \X Funcs  BY <2>1
  <2>3. stack' \in Seq(Copies \X Funcs)  BY <1>6, <2>2 DEF Call
  <2>4. stack' # <<>>  BY <1>6 DEF Call
  <2> QED  BY <1>6, <2>3, <2>4 DEF Call, code, worker
<1>7. CASE Transfer
  <2>1. stack # <<>>  BY <1>7 DEF Transfer
  <2> QED  BY <1>7, <2>1, FramesTyped DEF Transfer, code, worker
<1>8. CASE Return
  <2>1. stack # <<>>  BY <1>8 DEF Return
  <2> QED  BY <1>8, <2>1, FramesTyped DEF Return, code, worker
<1>9. CASE Bail  BY <1>9 DEF Bail, code, worker
<1>10. CASE Bailout  BY <1>10 DEF Bailout, Compiled, code, worker
<1>11. CASE SwapModules  BY <1>11 DEF SwapModules, worker, Copies
<1>12. CASE CompileAll  BY <1>12 DEF CompileAll, code, worker
<1>13. ASSUME NEW f \in Funcs, StorePointer(f) PROVE TypeInv'
  <2>1. f \in Compiled(fp)'  BY <1>13 DEF StorePointer, Compiled
  <2> QED  BY <1>13, <2>1 DEF StorePointer, worker, Codes
<1>14. CASE StoreResumes
  <2>1. resume' \subseteq Copies \X Funcs
    BY <1>14 DEF StoreResumes
  <2> QED  BY <1>14, <2>1 DEF StoreResumes, Compiled, worker
<1>15. ASSUME NEW f \in Funcs, StoreNative(f) PROVE TypeInv'
  BY <1>15 DEF StoreNative, worker
<1>16. CASE PromoteCompiled
  BY <1>16 DEF PromoteCompiled, worker, Tiers
<1>17. CASE Stop  BY <1>17 DEF Stop, code, worker
<1>18. ASSUME NEW r \in requests, Receive(r) PROVE TypeInv'
  <2>1. r \in Requests /\ <<r.func, r.at>> \in Funcs \X At  BY DEF Requests
  <2> QED  BY <1>18, <2>1 DEF Receive, code, main
<1>19. CASE Quiet  BY <1>19 DEF Quiet, code, main
<1>20. CASE Look  BY <1>20 DEF Look, code, main
<1>21. CASE Snapshot
  <2>1. job.func \in Funcs  BY DEF Requests
  <2>2. Unit(job.func, Compiled(fp), point') \subseteq Funcs  BY DEF Unit
  <2>3. /\ wpc' \in {"recv", "compile"} /\ job' \in Requests /\ hasCode' \in BOOLEAN
        /\ unit' \subseteq Funcs /\ attempted' \subseteq Funcs /\ errors' \subseteq Funcs
    BY <1>21, <2>1, <2>2, NoJobTyped DEF Snapshot, Wait
  <2>4. point' \in BOOLEAN  BY <1>21 DEF Snapshot, Wait, AddResumePoint
  <2> QED  BY <1>21, <2>3, <2>4 DEF Snapshot, code, main
<1>22. CASE CompileBaseline
  <2>1. job.func \in Funcs  BY DEF Requests
  <2>2. /\ wpc' \in {"recv", "filter"} /\ job' \in Requests /\ hasCode' \in BOOLEAN
        /\ unit' \subseteq Funcs /\ point' \in BOOLEAN /\ errors' \subseteq Funcs
    BY <1>22, <2>1, NoJobTyped DEF CompileBaseline, Wait
  <2> QED  BY <1>22, <2>2 DEF CompileBaseline, code, main
<1>23. CASE Filter  BY <1>23 DEF Filter, code, main
<1>24. CASE WriteBaseline
  <2>1. Compiled(fp) \subseteq Compiled(fp)'
    BY <1>24 DEF WriteBaseline, Write, Compiled
  <2> QED  BY <1>24, <2>1, ZenonT(30) DEF WriteBaseline, Write, main, Codes, Tiers
<1>25. ASSUME NEW f \in Funcs, InstallNative(f) PROVE TypeInv'
  BY <1>25 DEF InstallNative, main, Codes
<1>26. CASE InstallResume
  <2>1. <<job.copy, job.func>> \in Copies \X Funcs  BY DEF Requests
  <2> QED  BY <1>26, <2>1, NoJobTyped, ZenonT(30) DEF InstallResume, Wait, main
<1>27. CASE CompileLlvm
  <2>1. /\ wpc' \in {"recv", "llvmWrite"} /\ job' \in Requests /\ hasCode' \in BOOLEAN
        /\ unit' \subseteq Funcs /\ point' \in BOOLEAN /\ llvm' \in {"Waiting", "Due", "Done"}
    BY <1>27, NoJobTyped DEF CompileLlvm, Wait
  <2> QED  BY <1>27, <2>1 DEF CompileLlvm, code, main
<1>28. CASE WriteLlvm
  <2>1. Compiled(fp) \subseteq Compiled(fp)'
    BY <1>28 DEF WriteLlvm, Write, Compiled
  <2> QED  BY <1>28, <2>1, ZenonT(30) DEF WriteLlvm, Write, main, Codes, Tiers
<1>29. CASE LlvmDone  BY <1>29, NoJobTyped DEF LlvmDone, Wait, code, main
<1>30. CASE UNCHANGED vars  BY <1>30 DEF vars, code, main, worker
<1> HIDE DEF TypeInv
<1> QED
  BY <1>1, <1>2, <1>3, <1>4, <1>5, <1>6, <1>7, <1>8, <1>9, <1>10, <1>11, <1>12, <1>13,
     <1>14, <1>15, <1>16, <1>17, <1>18, <1>19, <1>20, <1>21, <1>22, <1>23, <1>24,
     <1>25, <1>26, <1>27, <1>28, <1>29, <1>30
  DEF Next, MainStep, WorkerStep, ServeStep, Interpret, CompileAllStep

\* The types hold in every behaviour.
LEMMA TypeInvAlways == Spec => []TypeInv
BY CodeInvAlways, TypeInvInit, TypeInvStep, PTL DEF Spec

\* Types in every program; in particular the modules are replaced at most once,
\* so a request or a resume point never names a third copy.
THEOREM TypeCorrect == Spec => []TypeOK
<1>1. TypeInv => TypeOK  BY DEF TypeInv
<1> QED  BY <1>1, TypeInvAlways, PTL

-----------------------------------------------------------------------------
(* Where code is published *)

\* What has a pointer and no native entry is still to be handed over: by the
\* worker, or by the program thread that compiled everything.
HandOver ==
    \A f \in Funcs : fp[f] # "none" /\ native[f] = "none" =>
        \/ f \in wtodo
        \/ mpc \in {"pointers", "resumes"}
        \/ mpc = "natives" /\ f \in mtodo

NativeHasCode == \A f \in Funcs : native[f] # "none" => fp[f] # "none"

InstallHasCode == \A f \in wtodo : fp[f] # "none"

InstallOnly == wpc \notin {"native", "llvmNative"} => wtodo = {}

PublishInv == HandOver /\ NativeHasCode /\ InstallHasCode /\ InstallOnly

\* At the start nothing is being published.
LEMMA PublishInvInit == Init => PublishInv
BY DEF Init, PublishInv, HandOver, NativeHasCode, InstallHasCode, InstallOnly

\* What the publishing steps leave alone.
LEMMA PublishOnly ==
    ASSUME NEW f, NEW at, NEW r,
           \/ Execute(f) \/ Enter \/ Dispatch \/ RunJit \/ Warm(at) \/ Call(f)
           \/ Transfer \/ Return \/ Bail \/ SwapModules \/ PromoteCompiled
           \/ CompileAll \/ Stop \/ Receive(r) \/ Quiet \/ Look \/ Snapshot
           \/ CompileBaseline \/ Filter \/ CompileLlvm
    PROVE  /\ UNCHANGED <<fp, native, wtodo>>
           /\ mpc \notin {"pointers", "resumes", "natives"} \/ UNCHANGED <<mpc, mtodo>>
           /\ wpc \notin {"native", "llvmNative"} \/ UNCHANGED wpc
<1>1. UNCHANGED <<fp, native, wtodo>>
  BY DEF Execute, Enter, Dispatch, RunJit, Warm, Call, Transfer, Return, Bail,
         SwapModules, CompileAll, PromoteCompiled, Stop, Receive, Quiet, Look, Snapshot,
         CompileBaseline, Filter, CompileLlvm, code, main, worker
<1>2. mpc \notin {"pointers", "resumes", "natives"} \/ UNCHANGED <<mpc, mtodo>>
  BY DEF Execute, Enter, Dispatch, RunJit, Warm, Call, Transfer, Return, Bail,
         SwapModules, CompileAll, PromoteCompiled, Stop, Receive, Quiet, Look, Snapshot,
         CompileBaseline, Filter, CompileLlvm, main
<1>3. wpc \notin {"native", "llvmNative"} \/ UNCHANGED wpc
  BY DEF Execute, Enter, Dispatch, RunJit, Warm, Call, Transfer, Return, Bail,
         SwapModules, CompileAll, PromoteCompiled, Stop, Receive, Quiet, Look, Snapshot,
         CompileBaseline, Filter, CompileLlvm, worker
<1> QED  BY <1>1, <1>2, <1>3

\* Every step keeps account of what is half published.
LEMMA PublishInvStep == TypeInv /\ PublishInv /\ [Next]_vars => PublishInv'
<1> SUFFICES ASSUME TypeInv, PublishInv, [Next]_vars PROVE PublishInv'
  OBVIOUS
<1> USE DEF PublishInv, HandOver, NativeHasCode, InstallHasCode, InstallOnly
<1>0. /\ fp \in [Funcs -> Codes] /\ native \in [Funcs -> Codes]
      /\ unit \subseteq Funcs /\ wtodo \subseteq Funcs
  BY DEF TypeInv, TypeOK
<1>1. ASSUME NEW f, NEW at, NEW r,
             \/ Execute(f) \/ Enter \/ Dispatch \/ RunJit \/ Warm(at) \/ Call(f)
             \/ Transfer \/ Return \/ Bail \/ SwapModules \/ PromoteCompiled
             \/ CompileAll \/ Stop \/ Receive(r) \/ Quiet \/ Look \/ Snapshot
             \/ CompileBaseline \/ Filter \/ CompileLlvm
      PROVE  PublishInv'
  BY <1>1, PublishOnly
<1>2. CASE Bailout  BY <1>2, <1>0 DEF Bailout, Compiled, code, worker
<1>3. ASSUME NEW f \in Funcs, StorePointer(f) PROVE PublishInv'
  <2>1. mpc' \in {"pointers", "resumes"}  BY <1>3 DEF StorePointer
  <2> QED  BY <1>3, <1>0, <2>1 DEF StorePointer, worker
<1>4. CASE StoreResumes
  <2>1. UNCHANGED <<fp, native, wtodo, wpc>> /\ mpc' = "natives" /\ mtodo' = Compiled(fp)
    BY <1>4 DEF StoreResumes, worker
  <2> QED  BY <1>0, <2>1 DEF Compiled
<1>5. ASSUME NEW f \in Funcs, StoreNative(f) PROVE PublishInv'
  <2>1. UNCHANGED <<fp, wtodo, wpc>> /\ native' = [native EXCEPT ![f] = fp[f]]
    BY <1>5 DEF StoreNative, worker
  <2>2. /\ mpc = "natives" /\ mtodo' = mtodo \ {f}
        /\ mtodo' # {} => mpc' = "natives"
    BY <1>5 DEF StoreNative
  <2>3. NativeHasCode' /\ InstallHasCode' /\ InstallOnly'  BY <1>0, <2>1
  <2>4. HandOver'
    <3> SUFFICES ASSUME NEW g \in Funcs, fp[g] # "none", native'[g] = "none"
                 PROVE  g \in wtodo \/ (mpc' = "natives" /\ g \in mtodo')
      BY <2>1
    <3>1. g # f  BY <1>0, <2>1
    <3>2. native[g] = "none"  BY <1>0, <2>1, <3>1
    <3> QED  BY <2>2, <3>1, <3>2
  <2> QED  BY <2>3, <2>4
<1>6. CASE WriteBaseline \/ WriteLlvm
  <2>1. PICK c \in {"baseline", "llvm"} : fp' = [f \in Funcs |-> IF f \in unit THEN c ELSE fp[f]]
    BY <1>6 DEF WriteBaseline, WriteLlvm, Write
  <2>2. /\ UNCHANGED <<native, mpc, mtodo>> /\ wtodo' = unit /\ wtodo = {}
        /\ wpc' \in {"native", "llvmNative"}
    BY <1>6 DEF WriteBaseline, WriteLlvm, Write, main
  <2> QED  BY <1>0, <2>1, <2>2
<1>7. ASSUME NEW f \in Funcs, InstallNative(f) PROVE PublishInv'
  <2>1. /\ UNCHANGED <<fp, mpc, mtodo, wpc>> /\ f \in wtodo /\ wtodo' = wtodo \ {f}
        /\ \E c \in {"baseline", "llvm"} : native' = [native EXCEPT ![f] = c]
    BY <1>7 DEF InstallNative, main
  <2> QED  BY <1>0, <2>1
<1>8. CASE InstallResume
  <2>1. UNCHANGED <<fp, native, mpc, mtodo, wtodo>> /\ wtodo = {}
    BY <1>8 DEF InstallResume, main
  <2> QED  BY <2>1
<1>9. CASE LlvmDone
  <2>1. UNCHANGED <<fp, native, mpc, mtodo, wtodo>> /\ wtodo = {}
    BY <1>9 DEF LlvmDone, code, main
  <2> QED  BY <2>1
<1>10. CASE UNCHANGED vars  BY <1>10 DEF vars, code, main, worker
<1> HIDE DEF PublishInv
<1> QED
  BY <1>1, <1>2, <1>3, <1>4, <1>5, <1>6, <1>7, <1>8, <1>9, <1>10
  DEF Next, MainStep, WorkerStep, ServeStep, Interpret, CompileAllStep

\* The account holds in every behaviour.
LEMMA PublishInvAlways == Spec => []PublishInv
BY TypeInvAlways, PublishInvInit, PublishInvStep, PTL DEF Spec

\* Whenever nobody is publishing, the interpreter and execute_function find
\* compiled code for the same functions, in every program: the program thread
\* and the worker never undo or forget what the other left half done.
THEOREM TablesAgree == Spec => []PublishedEverywhere
<1>1. TypeInv /\ PublishInv => PublishedEverywhere
  BY DEF TypeInv, TypeOK, PublishInv, HandOver, NativeHasCode, InstallOnly,
         PublishedEverywhere, Compiled
<1> QED  BY <1>1, TypeInvAlways, PublishInvAlways, PTL

-----------------------------------------------------------------------------
(* What becomes of a request *)

\* A place the worker has seen needs no more: the compile failed, or there is
\* code and, for a loop that can have one, a way into it.
Settled(s) ==
    \/ s[1] \in errors
    \/ /\ fp[s[1]] # "none"
       /\ s[2] = "loop" /\ s[1] \in Resumable => \E c \in Copies : <<c, s[1]>> \in resume

Serving == {"look", "snapshot", "compile", "filter", "write", "native"}

\* All places but the one being served are settled.
OthersSettled ==
    \A s \in seen : Settled(s) \/ (wpc \in Serving /\ s = <<job.func, job.at>>)

\* A loop is tried once, for a place that was seen.
ServedSeen == wpc \in {"look", "snapshot"} => <<job.func, job.at>> \in seen
LoopsSeen == \A f \in attempted : <<f, "loop">> \in seen
FirstAttempt == wpc \in {"look", "snapshot"} /\ job.at = "loop" => job.func \notin attempted

\* What the worker knows of the function it serves.
LookedAt == wpc = "snapshot" /\ hasCode => fp[job.func] # "none"
InUnit ==
    /\ wpc \in {"compile", "filter", "write"} => job.func \in unit \/ fp[job.func] # "none"
    /\ wpc = "native" => fp[job.func] # "none"
PointOrResume ==
    wpc \in {"compile", "filter", "write", "native"} /\ job.at = "loop" =>
        point \/ job.func \notin Resumable \/ <<job.copy, job.func>> \in resume

SettleInv ==
    /\ OthersSettled /\ ServedSeen /\ LoopsSeen /\ FirstAttempt
    /\ LookedAt /\ InUnit /\ PointOrResume

\* At the start no request has been made.
LEMMA SettleInvInit == Init => SettleInv
BY DEF Init, SettleInv, OthersSettled, ServedSeen, LoopsSeen, FirstAttempt, LookedAt, InUnit,
       PointOrResume, Serving

\* Code and resume points stay, and so does what is settled.
LEMMA StaysSettled ==
    ASSUME NEW s \in Funcs \X At, Settled(s),
           errors \subseteq errors', resume \subseteq resume',
           \A f \in Funcs : fp[f] # "none" => fp'[f] # "none"
    PROVE  Settled(s)'
BY DEF Settled

\* The unit of a function without code holds the function.
LEMMA UnitHasRoot ==
    ASSUME NEW f \in Funcs, NEW known, NEW resumes, ~hasCode PROVE f \in Unit(f, known, resumes)
BY DEF Unit

\* Code that is there stays there, and so do resume points.
LEMMA CodeStays ==
    ASSUME CodeInv, TypeInv, [Next]_vars
    PROVE  /\ \A f \in Funcs : fp[f] # "none" => fp'[f] # "none"
           /\ resume \subseteq resume'
<1> USE DEF TypeInv, TypeOK
<1> DEFINE Goal == /\ \A f \in Funcs : fp[f] # "none" => fp'[f] # "none"
                   /\ resume \subseteq resume'
<1>1. ASSUME NEW f, NEW at, NEW r,
             \/ Execute(f) \/ Enter \/ Dispatch \/ RunJit \/ Warm(at) \/ Call(f)
             \/ Transfer \/ Return \/ Bail \/ Bailout \/ SwapModules \/ CompileAll
             \/ StoreNative(f) \/ PromoteCompiled \/ Stop \/ Receive(r) \/ Quiet \/ Look
             \/ Snapshot \/ CompileBaseline \/ Filter \/ InstallNative(f) \/ CompileLlvm
             \/ LlvmDone \/ UNCHANGED vars
      PROVE  UNCHANGED <<fp, resume>>
  BY <1>1 DEF Execute, Enter, Dispatch, RunJit, Warm, Call, Transfer, Return, Bail,
              Bailout, SwapModules, CompileAll, StoreNative, PromoteCompiled, Stop,
              Receive, Quiet, Look, Snapshot, CompileBaseline, Filter, InstallNative,
              CompileLlvm, LlvmDone, code, vars
<1>2. CASE UNCHANGED <<fp, resume>>  BY <1>2
<1>3. ASSUME NEW f \in Funcs, StorePointer(f) PROVE Goal  BY <1>3 DEF StorePointer
<1>4. CASE StoreResumes  BY <1>4 DEF StoreResumes
<1>5. CASE WriteBaseline  BY <1>5 DEF WriteBaseline, Write
<1>6. CASE WriteLlvm  BY <1>6 DEF WriteLlvm, Write
<1>7. CASE InstallResume  BY <1>7 DEF InstallResume
<1> HIDE DEF TypeInv
<1> QED
  BY <1>1, <1>2, <1>3, <1>4, <1>5, <1>6, <1>7
  DEF Next, MainStep, WorkerStep, ServeStep, Interpret, CompileAllStep

\* The program thread leaves the worker's state alone, but starts it.
LEMMA MainLeavesWorker ==
    ASSUME MainStep
    PROVE  /\ UNCHANGED <<job, hasCode, unit, point, seen, attempted, errors>>
           /\ UNCHANGED wpc \/ (wpc = "unborn" /\ wpc' = "recv")
<1>1. CASE Enter  BY <1>1 DEF Enter
<1>2. ASSUME NEW f, NEW at,
             \/ Execute(f) \/ Dispatch \/ RunJit \/ Warm(at) \/ Call(f)
             \/ Transfer \/ Return \/ Bail \/ Bailout \/ SwapModules \/ CompileAll
             \/ StorePointer(f) \/ StoreResumes \/ StoreNative(f) \/ PromoteCompiled \/ Stop
      PROVE  UNCHANGED worker
  BY <1>2 DEF Execute, Dispatch, RunJit, Warm, Call, Transfer, Return, Bail, Bailout,
              SwapModules, CompileAll, StorePointer, StoreResumes, StoreNative,
              PromoteCompiled, Stop
<1>3. CASE UNCHANGED worker  BY <1>3 DEF worker
<1> QED  BY <1>1, <1>2, <1>3 DEF MainStep, Interpret, CompileAllStep

\* SettleInv is inductive.
LEMMA SettleInvStep == CodeInv /\ TypeInv /\ SettleInv /\ [Next]_vars => SettleInv'
<1> SUFFICES ASSUME CodeInv, TypeInv, SettleInv, [Next]_vars PROVE SettleInv'
  OBVIOUS
<1>1. /\ \A f \in Funcs : fp[f] # "none" => fp'[f] # "none"
      /\ resume \subseteq resume'
  BY CodeStays
<1>2. /\ job \in Requests /\ job.func \in Funcs /\ job.at \in At /\ job.copy \in Copies
      /\ seen \subseteq Funcs \X At /\ unit \subseteq Funcs /\ attempted \subseteq Funcs
      /\ hasCode \in BOOLEAN
  BY DEF TypeInv, TypeOK, Requests
<1>3. ASSUME errors \subseteq errors', NEW s \in seen, Settled(s) PROVE Settled(s)'
  BY <1>1, <1>2, <1>3, StaysSettled
<1> USE DEF SettleInv
<1>4. ASSUME UNCHANGED <<job, hasCode, unit, point, seen, attempted, errors>>,
             UNCHANGED wpc \/ (wpc = "unborn" /\ wpc' = "recv")
      PROVE  SettleInv'
  <2>1. OthersSettled'  BY <1>3, <1>4 DEF OthersSettled, Serving
  <2>2. ServedSeen' /\ LoopsSeen' /\ FirstAttempt'  BY <1>4 DEF ServedSeen, LoopsSeen, FirstAttempt
  <2>3. LookedAt' /\ InUnit'  BY <1>1, <1>2, <1>4 DEF LookedAt, InUnit
  <2>4. PointOrResume'  BY <1>1, <1>4 DEF PointOrResume
  <2> QED  BY <2>1, <2>2, <2>3, <2>4
\* The worker is done with a request.
<1>5. ASSUME wpc' \in {"recv", "llvm", "llvmWrite", "llvmNative", "exited"},
             UNCHANGED <<seen, attempted>>, errors \subseteq errors',
             wpc \in Serving => \A s : s = <<job.func, job.at>> => Settled(s)'
      PROVE  SettleInv'
  <2>1. OthersSettled'  BY <1>3, <1>5 DEF OthersSettled
  <2>2. ServedSeen' /\ LoopsSeen' /\ FirstAttempt'  BY <1>5 DEF ServedSeen, LoopsSeen, FirstAttempt
  <2>3. LookedAt' /\ InUnit' /\ PointOrResume'  BY <1>5 DEF LookedAt, InUnit, PointOrResume
  <2> QED  BY <2>1, <2>2, <2>3
\* It goes on with the request it has.
<1>6. ASSUME wpc \in Serving, wpc' \in Serving, UNCHANGED <<job, seen, errors>>
      PROVE  OthersSettled'
  BY <1>3, <1>6 DEF OthersSettled
<1>7. CASE MainStep  BY <1>4, <1>7, MainLeavesWorker
<1>8. ASSUME NEW r \in requests, Receive(r) PROVE SettleInv'
  <2>0. UNCHANGED <<hasCode, unit, point, attempted, errors>> /\ wpc = "recv"
    BY <1>8 DEF Receive
  <2>1. CASE wpc' = "exited" /\ UNCHANGED <<job, seen>>
    BY <1>5, <2>0, <2>1 DEF Serving
  <2>2. CASE UNCHANGED <<wpc, job, seen>>  BY <1>4, <2>0, <2>2
  <2>3. CASE wpc' = "look" /\ job' = r /\ seen' = seen \cup {<<r.func, r.at>>}
             /\ <<r.func, r.at>> \notin seen
    <3>1. OthersSettled'  BY <1>3, <2>0, <2>3 DEF OthersSettled, Serving
    <3>2. ServedSeen' /\ LoopsSeen' /\ FirstAttempt'  BY <2>0, <2>3 DEF ServedSeen, LoopsSeen, FirstAttempt
    <3>3. LookedAt' /\ InUnit' /\ PointOrResume'
      BY <2>3 DEF LookedAt, InUnit, PointOrResume
    <3> QED  BY <3>1, <3>2, <3>3
  <2> QED  BY <1>8, <2>1, <2>2, <2>3 DEF Receive
<1>9. CASE Quiet  BY <1>5, <1>9 DEF Quiet, Serving
<1>10. CASE Look
  <2>1. /\ wpc = "look" /\ wpc' = "snapshot" /\ hasCode' = (fp[job.func] # "none")
        /\ UNCHANGED <<fp, job, seen, attempted, errors>>
    BY <1>10 DEF Look, code
  <2>2. OthersSettled'  BY <1>6, <2>1 DEF Serving
  <2>3. ServedSeen' /\ LoopsSeen' /\ FirstAttempt'  BY <2>1 DEF ServedSeen, LoopsSeen, FirstAttempt
  <2>4. LookedAt' /\ InUnit' /\ PointOrResume'
    BY <2>1 DEF LookedAt, InUnit, PointOrResume
  <2> QED  BY <2>2, <2>3, <2>4
<1>11. CASE Snapshot
  <2> DEFINE loop == job.at = "loop" /\ <<job.copy, job.func>> \notin resume
                     /\ job.func \notin attempted
  <2>0. wpc = "snapshot" /\ UNCHANGED <<fp, resume, seen>>  BY <1>11 DEF Snapshot, code
  <2>1. CASE wpc' = "recv" /\ errors' = errors \cup {job.func} /\ UNCHANGED attempted
    <3>1. \A s : s = <<job.func, job.at>> => Settled(s)'  BY <2>1 DEF Settled
    <3> QED  BY <1>5, <2>0, <2>1, <3>1
  <2>2. CASE wpc' = "recv" /\ hasCode /\ ~loop /\ UNCHANGED <<attempted, errors>>
    <3>1. fp'[job.func] # "none"  BY <2>0, <2>2 DEF LookedAt
    <3>2. job.at = "loop" => <<job.copy, job.func>> \in resume'
      BY <2>0, <2>2 DEF FirstAttempt
    <3>3. \A s : s = <<job.func, job.at>> => Settled(s)'  BY <1>2, <3>1, <3>2 DEF Settled
    <3> QED  BY <1>5, <2>0, <2>2, <3>3
  <2>3. CASE /\ wpc' = "compile" /\ unit' = Unit(job.func, Compiled(fp), point')
             /\ point' = (loop /\ job.func \in Resumable)
             /\ attempted' = IF loop THEN attempted \cup {job.func} ELSE attempted
             /\ UNCHANGED <<job, hasCode, errors>>
    <3>1. OthersSettled'  BY <1>6, <2>0, <2>3 DEF Serving
    <3>2. LoopsSeen'  BY <2>0, <2>3 DEF LoopsSeen, ServedSeen
    <3>3. ServedSeen' /\ FirstAttempt' /\ LookedAt'  BY <2>3 DEF ServedSeen, FirstAttempt, LookedAt
    <3>4. InUnit'
      <4>1. hasCode => fp'[job.func] # "none"  BY <2>0 DEF LookedAt
      <4>2. ~hasCode => job.func \in unit'  BY <1>2, <2>3, UnitHasRoot
      <4> QED  BY <2>3, <4>1, <4>2 DEF InUnit
    <3>5. PointOrResume'
      BY <2>0, <2>3 DEF PointOrResume, FirstAttempt
    <3> QED  BY <3>1, <3>2, <3>3, <3>4, <3>5
  <2> QED  BY <1>11, <2>1, <2>2, <2>3 DEF Snapshot, Wait, AddResumePoint
<1>12. CASE CompileBaseline
  <2>1. CASE wpc' = "filter" /\ UNCHANGED <<job, hasCode, unit, point, errors>>
    <3>1. wpc = "compile" /\ UNCHANGED <<fp, resume, seen, attempted>>
      BY <1>12 DEF CompileBaseline, code
    <3>2. OthersSettled'  BY <1>6, <2>1, <3>1 DEF Serving
    <3> QED  BY <2>1, <3>1, <3>2 DEF ServedSeen, LoopsSeen, FirstAttempt, LookedAt, InUnit, PointOrResume
  <2>2. CASE wpc' = "recv" /\ errors' = errors \cup {job.func}
    <3>1. \A s : s = <<job.func, job.at>> => Settled(s)'  BY <2>2 DEF Settled
    <3>2. UNCHANGED <<seen, attempted>>  BY <1>12 DEF CompileBaseline
    <3> QED  BY <1>5, <2>2, <3>1, <3>2
  <2> QED  BY <1>12, <2>1, <2>2 DEF CompileBaseline, Wait
<1>13. CASE Filter
  <2>1. /\ wpc = "filter" /\ wpc' = "write" /\ unit' = unit \ Compiled(fp)
        /\ UNCHANGED <<fp, resume, job, point, seen, attempted, errors>>
    BY <1>13 DEF Filter, code
  <2>2. OthersSettled'  BY <1>6, <2>1 DEF Serving
  <2>3. InUnit'  BY <1>2, <2>1 DEF InUnit, Compiled
  <2> QED  BY <2>1, <2>2, <2>3 DEF ServedSeen, LoopsSeen, FirstAttempt, LookedAt, PointOrResume
<1>14. CASE WriteBaseline
  <2>1. /\ wpc = "write" /\ wpc' = "native"
        /\ fp' = [f \in Funcs |-> IF f \in unit THEN "baseline" ELSE fp[f]]
        /\ UNCHANGED <<resume, job, point, seen, attempted, errors>>
    BY <1>14 DEF WriteBaseline, Write
  <2>2. OthersSettled'  BY <1>6, <2>1 DEF Serving
  <2>3. InUnit'  BY <1>2, <2>1 DEF InUnit
  <2> QED  BY <2>1, <2>2, <2>3 DEF ServedSeen, LoopsSeen, FirstAttempt, LookedAt, PointOrResume
<1>15. ASSUME NEW f \in Funcs, InstallNative(f) PROVE SettleInv'
  BY <1>4, <1>15 DEF InstallNative
<1>16. CASE InstallResume
  <2>1. /\ wpc = "native" /\ wpc' = "recv" /\ UNCHANGED <<fp, seen, attempted, errors>>
        /\ point => <<job.copy, job.func>> \in resume'
    BY <1>16 DEF InstallResume, Wait
  <2>2. fp'[job.func] # "none"  BY <2>1 DEF InUnit
  <2>3. job.at = "loop" /\ job.func \in Resumable => <<job.copy, job.func>> \in resume'
    BY <1>1, <2>1 DEF PointOrResume
  <2>4. \A s : s = <<job.func, job.at>> => Settled(s)'  BY <1>2, <2>2, <2>3 DEF Settled
  <2> QED  BY <1>5, <2>1, <2>4
<1>17. CASE CompileLlvm
  <2>1. wpc = "llvm" /\ wpc' \in {"recv", "llvmWrite"} /\ UNCHANGED <<seen, attempted, errors>>
    BY <1>17 DEF CompileLlvm, Wait
  <2> QED  BY <1>5, <2>1 DEF Serving
<1>18. CASE WriteLlvm
  <2>1. /\ wpc = "llvmWrite" /\ wpc' = "llvmNative"
        /\ UNCHANGED <<seen, attempted, errors>>
    BY <1>18 DEF WriteLlvm, Write
  <2> QED  BY <1>5, <2>1 DEF Serving
<1>19. CASE LlvmDone
  <2>1. /\ wpc = "llvmNative" /\ wpc' = "recv" /\ UNCHANGED <<seen, attempted, errors>>
    BY <1>19 DEF LlvmDone, Wait
  <2> QED  BY <1>5, <2>1 DEF Serving
<1>20. CASE UNCHANGED vars  BY <1>4, <1>20 DEF vars, worker
<1> HIDE DEF SettleInv
<1> QED
  BY <1>7, <1>8, <1>9, <1>10, <1>11, <1>12, <1>13, <1>14, <1>15, <1>16, <1>17, <1>18,
     <1>19, <1>20
  DEF Next, WorkerStep, ServeStep

\* The requests' invariant holds in every behaviour.
LEMMA SettleInvAlways == Spec => []SettleInv
BY CodeInvAlways, TypeInvAlways, SettleInvInit, SettleInvStep, PTL DEF Spec

\* In every program no request the worker is through with was in vain: its
\* function has code and its loop, unless it can have none, a way into it, or
\* the compile failed.
THEOREM RequestsSettle == Spec => []RequestSettled
<1>1. TypeInv /\ SettleInv => RequestSettled
  <2> SUFFICES ASSUME TypeInv, SettleInv, NEW s \in seen,
                      wpc = "recv" \/ job.func # s[1]
               PROVE  Settled(s)
    BY DEF RequestSettled, Settled
  <2> QED  BY DEF SettleInv, OthersSettled, Serving
<1> QED  BY <1>1, TypeInvAlways, SettleInvAlways, PTL
=============================================================================
