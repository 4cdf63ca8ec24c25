--------------------------- MODULE ProcessRuntime ---------------------------
(***************************************************************************)
(* The threads of a process that make Handles and compile: SharedInstance  *)
(* and CompileContext, run by the same threads.  A thread compiles between *)
(* its calls on a Handle, with or without one (Graph::compile and          *)
(* Graph::compileToArtifact); the two mutexes are never held together.     *)
(***************************************************************************)
EXTENDS Naturals, FiniteSets

CONSTANTS Thread, Instance, Context, None, MaxCalls, MaxBuilds,
          PoolFails, TypesFail, SymbolsMissing

VARIABLES drivers, mutex, weak, raw, instance, owns, hal, stranded, at, calls
VARIABLES guard, global, context, using, native, stage, builds

Handles   == INSTANCE SharedInstance
Compilers == INSTANCE CompileContext

ASSUME ConstantsAssumption == Handles!Constants /\ Compilers!Constants

handleVars   == <<drivers, mutex, weak, raw, instance, owns, hal, stranded, at, calls>>
compilerVars == <<guard, global, context, using, native, stage, builds>>
vars         == <<handleVars, compilerVars>>

Init == Handles!Init /\ Compilers!Init

HandleStep(t) ==
  /\ stage[t] = "idle"
  /\ Handles!Step(t)
  /\ UNCHANGED compilerVars

CompilerStep(t) ==
  /\ Compilers!Step(t)
  /\ UNCHANGED handleVars

Begin(t) ==
  /\ stage[t] = "idle"
  /\ \/ Handles!Create(t) /\ UNCHANGED compilerVars
     \/ at[t] \in {"idle", "handle"} /\ Compilers!Build(t) /\ UNCHANGED handleVars

Move(t, u) ==
  /\ stage[t] = "idle" /\ stage[u] = "idle"
  /\ Handles!Move(t, u)
  /\ UNCHANGED compilerVars

Next == \E t \in Thread :
  \/ Begin(t) \/ HandleStep(t) \/ CompilerStep(t)
  \/ \E u \in Thread : Move(t, u)

Spec == Init /\ [][Next]_vars

\* The scheduler runs every thread that can run.  Nothing makes a program let
\* go of a Handle, and nothing orders the threads that wait for a mutex.
FairSpec == Spec /\ \A t \in Thread :
  WF_vars(at[t] # "handle" /\ HandleStep(t)) /\ WF_vars(CompilerStep(t))

-----------------------------------------------------------------------------
(* Properties.                                                             *)

\* The inductive invariants of the two parts, with their types.
Inv == Handles!Inv /\ Compilers!Inv

OneInstance            == Handles!OneInstance
HeldIsLive             == Handles!HeldIsLive
ReleasedWithLastHandle == Handles!ReleasedWithLastHandle
NothingStranded        == Handles!NothingStranded
OneContext             == Compilers!OneContext
ContextReady           == Compilers!ContextReady
NothingLeaks           == Compilers!NothingLeaks

\* Every create, destructor, build and execute returns, whatever fails in it
\* and in other threads: no error path leaves a mutex locked.
EveryCallReturns == \A t \in Thread :
  /\ at[t] \notin {"idle", "handle"} ~> at[t] \in {"idle", "handle"}
  /\ stage[t] # "idle" ~> stage[t] = "idle"
=============================================================================
