--------------------------- MODULE CompileContext ---------------------------
(***************************************************************************)
(* The compiler library that all compilations of a process share, and the  *)
(* compile sessions: CompileContext::create, CompileSession::build,        *)
(* execute, and destruction.                                               *)
(*                                                                         *)
(* A static unique_ptr holds the CompileContext, and sessions keep a plain *)
(* pointer to it.  Sessions, invocations, sources and outputs are objects  *)
(* of the library, which C++ destructors and error paths must destroy.     *)
(***************************************************************************)
EXTENDS Naturals, FiniteSets

CONSTANTS
  Thread,          \* threads; each builds one CompileSession at a time
  Context,         \* CompileContext objects that can be allocated
  None,            \* a null pointer; nobody
  SymbolsMissing,  \* the library may lack a symbol that loadSymbols asks for
  MaxBuilds        \* how often a thread builds a session

\* What is assumed of them.
Constants ==
  None \notin Thread \cup Context /\ MaxBuilds \in Nat /\ SymbolsMissing \in BOOLEAN

VARIABLES
  guard,    \* the thread that holds instanceMutex in CompileContext::create
  global,   \* globalInstance
  context,  \* the state of each context
  using,    \* using[t]: the context of t's session, in the making or made
  native,   \* native[t]: the library's objects that t's session has made
  stage,    \* stage[t]: where t stands in it
  builds    \* builds[t]: how often t has built a session

vars == <<guard, global, context, using, native, stage, builds>>

Object  == {"session", "invocation", "source", "output"}
Guarded == {"check", "make", "load", "symbols", "initialize"}
Compile == {"invoke", "open", "parse", "pipeline", "output", "emit"}
Session == {"create", "flags", "built", "done"} \cup Compile
Place   == {"idle", "lock"} \cup Guarded \cup Session

TypeOK ==
  /\ guard   \in Thread \cup {None}
  /\ global  \in Context \cup {None}
  /\ context \in [Context -> {"none", "new", "loaded", "bound", "ready"}]
  /\ using   \in [Thread -> Context \cup {None}]
  /\ native  \in [Thread -> SUBSET Object]
  /\ stage   \in [Thread -> Place]
  /\ builds  \in [Thread -> 0..MaxBuilds]

Init ==
  /\ guard = None /\ global = None
  /\ context = [c \in Context |-> "none"]
  /\ using   = [t \in Thread |-> None]
  /\ native  = [t \in Thread |-> {}]
  /\ stage   = [t \in Thread |-> "idle"]
  /\ builds  = [t \in Thread |-> 0]

Goto(t, place) == stage' = [stage EXCEPT ![t] = place]

-----------------------------------------------------------------------------
(* CompileContext::create                                                  *)

Build(t) ==
  /\ stage[t] = "idle" /\ builds[t] < MaxBuilds
  /\ builds' = [builds EXCEPT ![t] = @ + 1]
  /\ Goto(t, "lock")
  /\ UNCHANGED <<guard, global, context, using, native>>

\* Mutant of Lock: there is no mutex.
LockNothing(t) ==
  /\ stage[t] = "lock"
  /\ guard' = t
  /\ Goto(t, "check")
  /\ UNCHANGED <<global, context, using, native, builds>>

Lock(t) ==
  /\ stage[t] = "lock" /\ guard = None
  /\ guard' = t
  /\ Goto(t, "check")
  /\ UNCHANGED <<global, context, using, native, builds>>

\* Return the context, and release the mutex.
Got(t) ==
  /\ using' = [using EXCEPT ![t] = global]
  /\ guard' = None
  /\ Goto(t, "create")

CheckGlobal(t) ==
  /\ stage[t] = "check"
  /\ IF global # None
       THEN Got(t)
       ELSE Goto(t, "make") /\ UNCHANGED <<guard, using>>
  /\ UNCHANGED <<global, context, native, builds>>

\* Assigning the unique_ptr deletes the context it held.
Deleted == IF global = None THEN context ELSE [context EXCEPT ![global] = "none"]

MakeContext(t) == \E c \in Context :
  /\ stage[t] = "make" /\ context[c] = "none"
  /\ context' = [Deleted EXCEPT ![c] = "new"]
  /\ global'  = c
  /\ Goto(t, "load")
  /\ UNCHANGED <<guard, using, native, builds>>

LoadLibrary(t) ==
  /\ stage[t] = "load"
  /\ context' = [context EXCEPT ![global] = "loaded"]
  /\ Goto(t, "symbols")
  /\ UNCHANGED <<guard, global, using, native, builds>>

\* Mutant of LoadLibraryFails: the context is not deleted.
LoadLibraryFailsKeeps(t) ==
  /\ stage[t] = "load"
  /\ guard' = None
  /\ Goto(t, "idle")
  /\ UNCHANGED <<global, context, using, native, builds>>

LoadLibraryFails(t) ==
  /\ stage[t] = "load"
  /\ context' = Deleted
  /\ global'  = None
  /\ guard'   = None
  /\ Goto(t, "idle")
  /\ UNCHANGED <<using, native, builds>>

LoadSymbols(t) ==
  /\ stage[t] = "symbols"
  /\ context' = [context EXCEPT ![global] = "bound"]
  /\ Goto(t, "initialize")
  /\ UNCHANGED <<guard, global, using, native, builds>>

\* The error is returned, and globalInstance stays what it is.
LoadSymbolsFails(t) ==
  /\ SymbolsMissing
  /\ stage[t] = "symbols"
  /\ guard' = None
  /\ Goto(t, "idle")
  /\ UNCHANGED <<global, context, using, native, builds>>

\* ireeCompilerGlobalInitialize
Initialize(t) ==
  /\ stage[t] = "initialize"
  /\ context' = [context EXCEPT ![global] = "ready"]
  /\ Got(t)
  /\ UNCHANGED <<global, native, builds>>

-----------------------------------------------------------------------------
(* createSession and the rest of CompileSession::build                     *)

\* The session of t ends: its native session is destroyed with it.
End(t) ==
  /\ native' = [native EXCEPT ![t] = @ \ {"session"}]
  /\ using'  = [using EXCEPT ![t] = None]
  /\ Goto(t, "idle")

\* Through a context that lacks symbols this may also be the end of the process.
CreateSession(t) ==
  /\ stage[t] = "create"
  /\ native' = [native EXCEPT ![t] = {"session"}]
  /\ Goto(t, "flags")
  /\ UNCHANGED <<guard, global, context, using, builds>>

\* The backend's flags and those for the statistics
AddFlags(t) ==
  /\ stage[t] = "flags"
  /\ Goto(t, "built")
  /\ UNCHANGED <<guard, global, context, using, native, builds>>

\* No native session, or a flag that the library does not take
BuildFails(t) ==
  /\ stage[t] \in {"create", "flags"}
  /\ End(t)
  /\ UNCHANGED <<guard, global, context, builds>>

-----------------------------------------------------------------------------
(* execute and compile: each error path destroys what was made before it   *)

Has(t, more, less) == native' = [native EXCEPT ![t] = (@ \cup more) \ less]

Execute(t) ==
  /\ stage[t] = "built"
  /\ Goto(t, "invoke")
  /\ UNCHANGED <<guard, global, context, using, native, builds>>

Proceed(t, here, more, less, next) ==
  /\ stage[t] = here
  /\ Has(t, more, less)
  /\ Goto(t, next)
  /\ UNCHANGED <<guard, global, context, using, builds>>

CreateInvocation(t) == Proceed(t, "invoke", {"invocation"}, {}, "open")
OpenSource(t)       == Proceed(t, "open", {"source"}, {}, "parse")
ParseSource(t)      == Proceed(t, "parse", {}, {"source"}, "pipeline")
RunPipeline(t)      == Proceed(t, "pipeline", {}, {}, "output")
OpenOutput(t)       == Proceed(t, "output", {"output"}, {}, "emit")

\* The bytecode is written, or not; the output is kept, and both are destroyed.
EmitBytecode(t)     == Proceed(t, "emit", {}, {"output", "invocation"}, "done")

\* Mutant of ParseFails: the source is destroyed and the invocation is not.
ParseFailsEarly(t)  == Proceed(t, "parse", {}, {"source"}, "done")

InvocationFails(t)  == Proceed(t, "invoke", {}, {}, "done")
SourceFails(t)      == Proceed(t, "open", {}, {"invocation"}, "done")
ParseFails(t)       == Proceed(t, "parse", {}, {"source", "invocation"}, "done")
PipelineFails(t)    == Proceed(t, "pipeline", {}, {"invocation"}, "done")
OutputFails(t)      == Proceed(t, "output", {}, {"invocation"}, "done")

\* ~CompileSession; validateCache destroys sessions it never executes.
DestroySession(t) ==
  /\ stage[t] \in {"built", "done"}
  /\ End(t)
  /\ UNCHANGED <<guard, global, context, builds>>

-----------------------------------------------------------------------------
\* What a thread does once it has begun.
Step(t) ==
  \/ Lock(t) \/ CheckGlobal(t) \/ MakeContext(t)
  \/ LoadLibrary(t) \/ LoadLibraryFails(t)
  \/ LoadSymbols(t) \/ LoadSymbolsFails(t) \/ Initialize(t)
  \/ CreateSession(t) \/ AddFlags(t) \/ BuildFails(t) \/ Execute(t)
  \/ CreateInvocation(t) \/ OpenSource(t) \/ ParseSource(t) \/ RunPipeline(t)
  \/ OpenOutput(t) \/ EmitBytecode(t)
  \/ InvocationFails(t) \/ SourceFails(t) \/ ParseFails(t)
  \/ PipelineFails(t) \/ OutputFails(t)
  \/ DestroySession(t)

Next == \E t \in Thread : Build(t) \/ Step(t)

Spec == Init /\ [][Next]_vars

-----------------------------------------------------------------------------
(* The inductive invariant.                                                *)

\* What create leaves behind in globalInstance.
Kept == {"ready"} \cup IF SymbolsMissing THEN {"loaded"} ELSE {}

\* The mutex and the places of threads agree, and a thread in create finds the
\* global context in the state it left it in.
Guards ==
  /\ \A t \in Thread : stage[t] \in Guarded <=> guard = t
  /\ \A t \in Thread : stage[t] = "make" => global = None
  /\ \A t \in Thread : stage[t] = "load" => global # None /\ context[global] = "new"
  /\ \A t \in Thread : stage[t] = "symbols" => global # None /\ context[global] = "loaded"
  /\ \A t \in Thread : stage[t] = "initialize" => global # None /\ context[global] = "bound"

\* Outside of create the global context, if any, is as create left it; the
\* sessions that there are use it, and it cannot change under them.
Changing(t) == stage[t] \in {"load", "symbols", "initialize"}
Global ==
  /\ \A t \in Thread : using[t] # None <=> stage[t] \in Session
  /\ \A t \in Thread : using[t] # None => using[t] = global
  /\ \A t, u \in Thread : Changing(t) => using[u] = None
  /\ global # None /\ (\A t \in Thread : ~Changing(t)) => context[global] \in Kept

\* The objects of the library that are there at each place, no more and no less.
Objects(place) ==
  CASE place \in {"flags", "built", "invoke", "done"} -> {"session"}
    [] place \in {"open", "pipeline", "output"} -> {"session", "invocation"}
    [] place = "parse" -> {"session", "invocation", "source"}
    [] place = "emit"  -> {"session", "invocation", "output"}
    [] OTHER -> {}

Natives == \A t \in Thread : native[t] = Objects(stage[t])

Inv == TypeOK /\ Guards /\ Global /\ Natives

-----------------------------------------------------------------------------
(* Properties.                                                             *)

\* All sessions of the process use the context that globalInstance holds, and
\* none is deleted or reloaded under them, however threads race in create and
\* whatever fails there ("the first one to acquire the lock will create it,
\* others will see it's already created").
OneContext == \A t \in Thread :
  stage[t] \in Session => using[t] = global /\ context[using[t]] \in Kept

\* A thread that got a context from create has one whose symbols are bound and
\* whose compiler is initialised, whatever failed in earlier calls (create will
\* "load all required function pointers" or return an error).
ContextReady == \A t \in Thread :
  stage[t] \in Session => context[using[t]] = "ready"

\* Nothing of the library outlives its maker: between build and execute, and
\* after an execute that failed anywhere, a session has its native session and
\* nothing else; without a session there is nothing.
NothingLeaks == \A t \in Thread :
  /\ stage[t] \in {"built", "done"} => native[t] = {"session"}
  /\ stage[t] = "idle" => native[t] = {}
=============================================================================
