------------------------ MODULE ProcessRuntime_proofs ------------------------
(***************************************************************************)
(* Proofs about ProcessRuntime.  Every step of the composition is a step of *)
(* one part and leaves the other alone, so it behaves as each part does by *)
(* itself, and what was proved of the parts holds of it.                   *)
(***************************************************************************)
EXTENDS ProcessRuntime, TLAPS

HP == INSTANCE SharedInstance_proofs
CP == INSTANCE CompileContext_proofs

-----------------------------------------------------------------------------
(* The parts, as the composition and as their proofs name them.            *)

LEMMA PartConstants == HP!Constants /\ CP!Constants
  BY ConstantsAssumption
  DEF Handles!Constants, HP!Constants, Compilers!Constants, CP!Constants

LEMMA HandlesInit == ASSUME Handles!Init PROVE HP!Init
  BY DEF Handles!Init, HP!Init

LEMMA HandlesStep == ASSUME NEW t \in Thread, Handles!Step(t) PROVE HP!Step(t)
  BY DEF Handles!Step, HP!Step, Handles!Goto, HP!Goto, Handles!Owners, HP!Owners,
         Handles!RegisterDrivers, HP!RegisterDrivers, Handles!CheckStatus, HP!CheckStatus,
         Handles!Lock, HP!Lock, Handles!Peek, HP!Peek,
         Handles!CreateInstance, HP!CreateInstance, Handles!RegisterTypes, HP!RegisterTypes,
         Handles!Publish, HP!Publish, Handles!Unlock, HP!Unlock,
         Handles!InstanceFails, HP!InstanceFails,
         Handles!objects, HP!objects, Handles!Made, HP!Made,
         Handles!Released, HP!Released, Handles!CreateDriver, HP!CreateDriver,
         Handles!CreatePool, HP!CreatePool,
         Handles!PoolCreationFails, HP!PoolCreationFails,
         Handles!CreateDevice, HP!CreateDevice, Handles!DeviceFails, HP!DeviceFails,
         Handles!CreateDeviceGroup, HP!CreateDeviceGroup,
         Handles!Destroy, HP!Destroy, Handles!DropInstance, HP!DropInstance,
         Handles!ReleaseInstance, HP!ReleaseInstance

LEMMA HandlesNext == ASSUME [Next]_vars PROVE [HP!Next]_HP!vars
<1> USE DEF handleVars, HP!vars, HP!objects, Handles!objects
<1>1. CASE UNCHANGED vars
  BY <1>1 DEF vars
<1>2. ASSUME NEW t \in Thread, Begin(t) PROVE [HP!Next]_HP!vars
  BY <1>2 DEF Begin, HP!Next, Handles!Create, HP!Create, Handles!Goto, HP!Goto
<1>3. ASSUME NEW t \in Thread, HandleStep(t) PROVE [HP!Next]_HP!vars
  BY <1>3, HandlesStep DEF HandleStep, HP!Next
<1>4. ASSUME NEW t \in Thread, CompilerStep(t) PROVE [HP!Next]_HP!vars
  BY <1>4 DEF CompilerStep
<1>5. ASSUME NEW t \in Thread, NEW u \in Thread, Move(t, u) PROVE [HP!Next]_HP!vars
  BY <1>5 DEF Move, HP!Next, Handles!Move, HP!Move
<1> QED BY <1>1, <1>2, <1>3, <1>4, <1>5 DEF Next

LEMMA CompilersInit == ASSUME Compilers!Init PROVE CP!Init
  BY DEF Compilers!Init, CP!Init

LEMMA CompilersStep == ASSUME NEW t \in Thread, Compilers!Step(t) PROVE CP!Step(t)
  BY DEF Compilers!Step, CP!Step, Compilers!Goto, CP!Goto, Compilers!Has, CP!Has,
         Compilers!Proceed, CP!Proceed, Compilers!End, CP!End, Compilers!Got, CP!Got,
         Compilers!Deleted, CP!Deleted,
         Compilers!Lock, CP!Lock, Compilers!CheckGlobal, CP!CheckGlobal,
         Compilers!MakeContext, CP!MakeContext,
         Compilers!LoadLibrary, CP!LoadLibrary,
         Compilers!LoadLibraryFails, CP!LoadLibraryFails,
         Compilers!LoadSymbols, CP!LoadSymbols,
         Compilers!LoadSymbolsFails, CP!LoadSymbolsFails,
         Compilers!Initialize, CP!Initialize,
         Compilers!CreateSession, CP!CreateSession, Compilers!AddFlags, CP!AddFlags,
         Compilers!BuildFails, CP!BuildFails, Compilers!Execute, CP!Execute,
         Compilers!CreateInvocation, CP!CreateInvocation,
         Compilers!OpenSource, CP!OpenSource, Compilers!ParseSource, CP!ParseSource,
         Compilers!RunPipeline, CP!RunPipeline, Compilers!OpenOutput, CP!OpenOutput,
         Compilers!EmitBytecode, CP!EmitBytecode,
         Compilers!InvocationFails, CP!InvocationFails,
         Compilers!SourceFails, CP!SourceFails, Compilers!ParseFails, CP!ParseFails,
         Compilers!PipelineFails, CP!PipelineFails,
         Compilers!OutputFails, CP!OutputFails,
         Compilers!DestroySession, CP!DestroySession

LEMMA CompilersNext == ASSUME [Next]_vars PROVE [CP!Next]_CP!vars
<1> USE DEF compilerVars, CP!vars
<1>1. CASE UNCHANGED vars
  BY <1>1 DEF vars
<1>2. ASSUME NEW t \in Thread, Begin(t) PROVE [CP!Next]_CP!vars
  BY <1>2 DEF Begin, CP!Next, Compilers!Build, CP!Build, Compilers!Goto, CP!Goto
<1>3. ASSUME NEW t \in Thread, HandleStep(t) PROVE [CP!Next]_CP!vars
  BY <1>3 DEF HandleStep
<1>4. ASSUME NEW t \in Thread, CompilerStep(t) PROVE [CP!Next]_CP!vars
  BY <1>4, CompilersStep DEF CompilerStep, CP!Next
<1>5. ASSUME NEW t \in Thread, NEW u \in Thread, Move(t, u) PROVE [CP!Next]_CP!vars
  BY <1>5 DEF Move
<1> QED BY <1>1, <1>2, <1>3, <1>4, <1>5 DEF Next

-----------------------------------------------------------------------------
(* The theorems.                                                           *)

\* A process is a correct user of both parts: threads that compile behave, as
\* far as handles go, as SharedInstance says, and the other way round.
THEOREM PartsCorrect == Spec => HP!Spec /\ CP!Spec
<1>1. Init => HP!Init /\ CP!Init
  BY HandlesInit, CompilersInit DEF Init
<1>2. [Next]_vars => [HP!Next]_HP!vars
  BY HandlesNext
<1>3. [Next]_vars => [CP!Next]_CP!vars
  BY CompilersNext
<1> QED BY <1>1, <1>2, <1>3, PTL DEF Spec, HP!Spec, CP!Spec

\* The invariants of the parts hold in any process.
THEOREM InvCorrect == Spec => []Inv
<1>1. Spec => []HP!Inv /\ []CP!Inv
  BY PartsCorrect, PartConstants, HP!InvCorrect, CP!InvCorrect
<1>2. HP!Inv => Handles!Inv
  BY DEF Handles!Inv, HP!Inv, Handles!TypeOK, HP!TypeOK, Handles!Placed, HP!Placed,
         Handles!Shared, HP!Shared, Handles!Owned, HP!Owned,
         Handles!Equipped, HP!Equipped, Handles!NothingStranded, HP!NothingStranded,
         Handles!Abandoned, HP!Abandoned, Handles!Object, HP!Object, Handles!Place, HP!Place,
         Handles!Making, HP!Making, Handles!Locked, HP!Locked,
         Handles!Holding, HP!Holding
<1>3. CP!Inv => Compilers!Inv
  BY DEF Compilers!Inv, CP!Inv, Compilers!TypeOK, CP!TypeOK, Compilers!Guards, CP!Guards,
         Compilers!Global, CP!Global, Compilers!Natives, CP!Natives,
         Compilers!Objects, CP!Objects,
         Compilers!Place, CP!Place, Compilers!Guarded, CP!Guarded,
         Compilers!Session, CP!Session, Compilers!Compile, CP!Compile,
         Compilers!Object, CP!Object, Compilers!Kept, CP!Kept,
         Compilers!Changing, CP!Changing
<1> QED BY <1>1, <1>2, <1>3, PTL DEF Inv

\* All handles of a process share one instance, whatever dies and fails.
THEOREM OneInstanceCorrect == Spec => []OneInstance
<1>1. Spec => []HP!OneInstance
  BY PartsCorrect, PartConstants, HP!OneInstanceCorrect
<1>2. HP!OneInstance => OneInstance
  BY DEF OneInstance, Handles!OneInstance, HP!OneInstance
<1> QED BY <1>1, <1>2, PTL

\* The instance of a handle is never released under it.
THEOREM HeldIsLiveCorrect == Spec => []HeldIsLive
<1>1. Spec => []HP!HeldIsLive
  BY PartsCorrect, PartConstants, HP!HeldIsLiveCorrect
<1>2. HP!HeldIsLive => HeldIsLive
  BY DEF HeldIsLive, Handles!HeldIsLive, HP!HeldIsLive
<1> QED BY <1>1, <1>2, PTL

\* An instance that was shared is released with its last handle.
THEOREM ReleasedWithLastHandleCorrect == Spec => []ReleasedWithLastHandle
<1>1. Spec => []HP!ReleasedWithLastHandle
  BY PartsCorrect, PartConstants, HP!ReleasedWithLastHandleCorrect
<1>2. HP!ReleasedWithLastHandle => ReleasedWithLastHandle
  BY DEF ReleasedWithLastHandle, Handles!ReleasedWithLastHandle,
         HP!ReleasedWithLastHandle
<1> QED BY <1>1, <1>2, PTL

\* Nothing made for a Handle is left without an owner, but for two failures.
THEOREM NothingStrandedCorrect == Spec => []NothingStranded
<1>1. Spec => []HP!NothingStranded
  BY PartsCorrect, PartConstants, HP!NothingStrandedCorrect
<1>2. HP!NothingStranded => NothingStranded
  BY DEF NothingStranded, Handles!NothingStranded, HP!NothingStranded,
         Handles!Abandoned, HP!Abandoned
<1> QED BY <1>1, <1>2, PTL

\* All sessions of a process use its one context, which nobody deletes or
\* reloads under them.
THEOREM OneContextCorrect == Spec => []OneContext
<1>1. Spec => []CP!OneContext
  BY PartsCorrect, PartConstants, CP!OneContextCorrect
<1>2. CP!OneContext => OneContext
  BY DEF OneContext, Compilers!OneContext, CP!OneContext, Compilers!Kept, CP!Kept,
         Compilers!Session, CP!Session, Compilers!Compile, CP!Compile
<1> QED BY <1>1, <1>2, PTL

\* Whatever fails in compile, only the session's own object is left.
THEOREM NothingLeaksCorrect == Spec => []NothingLeaks
<1>1. Spec => []CP!NothingLeaks
  BY PartsCorrect, PartConstants, CP!NothingLeaksCorrect
<1>2. CP!NothingLeaks => NothingLeaks
  BY DEF NothingLeaks, Compilers!NothingLeaks, CP!NothingLeaks
<1> QED BY <1>1, <1>2, PTL
=============================================================================
