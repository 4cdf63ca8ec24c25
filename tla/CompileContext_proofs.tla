------------------------ MODULE CompileContext_proofs ------------------------
(***************************************************************************)
(* Proofs about CompileContext, for any number of threads and builds.      *)
(* Sessions hold a plain pointer to the context that a static unique_ptr   *)
(* owns.  It stays good because only a thread that found the unique_ptr    *)
(* null, under the mutex, ever assigns or resets it, and while it is null  *)
(* nobody has a session (Global).                                          *)
(***************************************************************************)
EXTENDS CompileContext, TLAPS

LEMMA InvInit == ASSUME Constants, Init PROVE Inv
  BY DEF Constants, Init, Inv, TypeOK, Guards, Global, Natives, Objects, Changing,
         Place, Guarded, Compile, Session, Object

-----------------------------------------------------------------------------
(* Each action preserves the invariant.                                    *)

LEMMA BuildInv == ASSUME Constants, Inv, NEW t \in Thread, Build(t) PROVE Inv'
<1> USE DEF Constants, Inv, TypeOK, Guards, Global, Natives, Changing, Goto,
            Place, Guarded, Compile, Session, Object, Objects
<1>1. builds'[t] \in 0..MaxBuilds
  BY DEF Build
<1> QED BY <1>1 DEF Build

\* CompileContext::create, under its mutex
LEMMA CreateInv ==
  ASSUME Constants, Inv, NEW t \in Thread, 
         Lock(t) \/ CheckGlobal(t) \/ MakeContext(t) \/ LoadLibrary(t) \/
         LoadLibraryFails(t) \/ LoadSymbols(t) \/ LoadSymbolsFails(t) \/ Initialize(t)
  PROVE  Inv'
<1> USE DEF Constants, Inv, TypeOK, Guards, Global, Natives, Changing, Kept, Goto,
            Place, Guarded, Compile, Session, Object, Objects
<1>1. CASE Lock(t)
  <2>1. TypeOK' BY <1>1 DEF Lock
  <2>2. Guards' BY <1>1 DEF Lock
  <2>3. Global' BY <1>1 DEF Lock
  <2>4. Natives' BY <1>1 DEF Lock
  <2> QED BY <2>1, <2>2, <2>3, <2>4
<1>2. CASE CheckGlobal(t)
  <2>1. TypeOK' BY <1>2 DEF CheckGlobal, Got
  <2>2. Guards' BY <1>2 DEF CheckGlobal, Got
  <2>3. Global' BY <1>2 DEF CheckGlobal, Got
  <2>4. Natives' BY <1>2 DEF CheckGlobal, Got
  <2> QED BY <2>1, <2>2, <2>3, <2>4
<1>3. CASE MakeContext(t)
  <2>1. TypeOK' BY <1>3 DEF MakeContext, Deleted
  <2>2. Guards' BY <1>3 DEF MakeContext, Deleted
  <2>3. Global' BY <1>3 DEF MakeContext, Deleted
  <2>4. Natives' BY <1>3 DEF MakeContext, Deleted
  <2> QED BY <2>1, <2>2, <2>3, <2>4
<1>4. CASE LoadLibrary(t)
  <2>1. TypeOK' BY <1>4 DEF LoadLibrary
  <2>2. Guards' BY <1>4 DEF LoadLibrary
  <2>3. Global' BY <1>4 DEF LoadLibrary
  <2>4. Natives' BY <1>4 DEF LoadLibrary
  <2> QED BY <2>1, <2>2, <2>3, <2>4
<1>5. CASE LoadLibraryFails(t)
  <2>1. TypeOK' BY <1>5 DEF LoadLibraryFails, Deleted
  <2>2. Guards' BY <1>5 DEF LoadLibraryFails, Deleted
  <2>3. Global' BY <1>5 DEF LoadLibraryFails, Deleted
  <2>4. Natives' BY <1>5 DEF LoadLibraryFails, Deleted
  <2> QED BY <2>1, <2>2, <2>3, <2>4
<1>6. CASE LoadSymbols(t)
  <2>1. TypeOK' BY <1>6 DEF LoadSymbols
  <2>2. Guards' BY <1>6 DEF LoadSymbols
  <2>3. Global' BY <1>6 DEF LoadSymbols
  <2>4. Natives' BY <1>6 DEF LoadSymbols
  <2> QED BY <2>1, <2>2, <2>3, <2>4
<1>7. CASE LoadSymbolsFails(t)
  <2>1. TypeOK' BY <1>7 DEF LoadSymbolsFails
  <2>2. Guards' BY <1>7 DEF LoadSymbolsFails
  <2>3. Global' BY <1>7 DEF LoadSymbolsFails
  <2>4. Natives' BY <1>7 DEF LoadSymbolsFails
  <2> QED BY <2>1, <2>2, <2>3, <2>4
<1>8. CASE Initialize(t)
  <2>1. TypeOK' BY <1>8 DEF Initialize, Got
  <2>2. Guards' BY <1>8 DEF Initialize, Got
  <2>3. Global' BY <1>8 DEF Initialize, Got
  <2>4. Natives' BY <1>8 DEF Initialize, Got
  <2> QED BY <2>1, <2>2, <2>3, <2>4
<1> QED BY <1>1, <1>2, <1>3, <1>4, <1>5, <1>6, <1>7, <1>8

\* The session's own life
LEMMA SessionInv ==
  ASSUME Constants, Inv, NEW t \in Thread, 
         CreateSession(t) \/ AddFlags(t) \/ BuildFails(t) \/ Execute(t) \/
         DestroySession(t)
  PROVE  Inv'
<1> USE DEF Constants, Inv, TypeOK, Guards, Global, Natives, Changing, Kept, Goto,
            Place, Guarded, Compile, Session, Object, Objects
<1>1. CASE CreateSession(t)
  <2>1. TypeOK' BY <1>1 DEF CreateSession
  <2>2. Guards' BY <1>1 DEF CreateSession
  <2>3. Global' BY <1>1 DEF CreateSession
  <2>4. Natives' BY <1>1 DEF CreateSession
  <2> QED BY <2>1, <2>2, <2>3, <2>4
<1>2. CASE AddFlags(t)
  <2>1. TypeOK' BY <1>2 DEF AddFlags
  <2>2. Guards' BY <1>2 DEF AddFlags
  <2>3. Global' BY <1>2 DEF AddFlags
  <2>4. Natives' BY <1>2 DEF AddFlags
  <2> QED BY <2>1, <2>2, <2>3, <2>4
<1>3. CASE BuildFails(t)
  <2>1. TypeOK' BY <1>3 DEF BuildFails, End
  <2>2. Guards' BY <1>3 DEF BuildFails, End
  <2>3. Global' BY <1>3 DEF BuildFails, End
  <2>4. Natives' BY <1>3 DEF BuildFails, End
  <2> QED BY <2>1, <2>2, <2>3, <2>4
<1>4. CASE Execute(t)
  <2>1. TypeOK' BY <1>4 DEF Execute
  <2>2. Guards' BY <1>4 DEF Execute
  <2>3. Global' BY <1>4 DEF Execute
  <2>4. Natives' BY <1>4 DEF Execute
  <2> QED BY <2>1, <2>2, <2>3, <2>4
<1>5. CASE DestroySession(t)
  <2>1. TypeOK' BY <1>5 DEF DestroySession, End
  <2>2. Guards' BY <1>5 DEF DestroySession, End
  <2>3. Global' BY <1>5 DEF DestroySession, End
  <2>4. Natives' BY <1>5 DEF DestroySession, End
  <2> QED BY <2>1, <2>2, <2>3, <2>4
<1> QED BY <1>1, <1>2, <1>3, <1>4, <1>5

\* A step of compile keeps the session, and each place has its objects.
LEMMA ProceedInv ==
  ASSUME Constants, Inv, NEW t \in Thread,
         NEW here \in {"invoke"} \cup Compile, NEW next \in {"done"} \cup Compile,
         NEW more \in SUBSET Object, NEW less \in SUBSET Object,
         (Objects(here) \cup more) \ less = Objects(next),
         Proceed(t, here, more, less, next)
  PROVE  Inv'
<1>1. TypeOK'
  BY DEF Inv, TypeOK, Proceed, Has, Goto, Place, Session, Compile, Object
<1>2. Guards'
  BY DEF Inv, TypeOK, Guards, Proceed, Goto, Guarded, Compile
<1>3. Global'
  BY DEF Inv, TypeOK, Global, Changing, Kept, Proceed, Goto, Session, Compile
<1>4. Natives'
  BY DEF Inv, TypeOK, Natives, Proceed, Has, Goto
<1> QED BY <1>1, <1>2, <1>3, <1>4 DEF Inv

\* compile
LEMMA CompileInv ==
  ASSUME Constants, Inv, NEW t \in Thread,
         CreateInvocation(t) \/ OpenSource(t) \/ ParseSource(t) \/ RunPipeline(t) \/
         OpenOutput(t) \/ EmitBytecode(t) \/ InvocationFails(t) \/ SourceFails(t) \/
         ParseFails(t) \/ PipelineFails(t) \/ OutputFails(t)
  PROVE  Inv'
<1> USE DEF Compile, Object, Objects
<1>1. CASE CreateInvocation(t)
  BY <1>1, ProceedInv DEF CreateInvocation
<1>2. CASE OpenSource(t)
  BY <1>2, ProceedInv DEF OpenSource
<1>3. CASE ParseSource(t)
  BY <1>3, ProceedInv DEF ParseSource
<1>4. CASE RunPipeline(t)
  BY <1>4, ProceedInv DEF RunPipeline
<1>5. CASE OpenOutput(t)
  BY <1>5, ProceedInv DEF OpenOutput
<1>6. CASE EmitBytecode(t)
  BY <1>6, ProceedInv DEF EmitBytecode
<1>7. CASE InvocationFails(t)
  BY <1>7, ProceedInv DEF InvocationFails
<1>8. CASE SourceFails(t)
  BY <1>8, ProceedInv DEF SourceFails
<1>9. CASE ParseFails(t)
  BY <1>9, ProceedInv DEF ParseFails
<1>10. CASE PipelineFails(t)
  BY <1>10, ProceedInv DEF PipelineFails
<1>11. CASE OutputFails(t)
  BY <1>11, ProceedInv DEF OutputFails
<1> QED BY <1>1, <1>2, <1>3, <1>4, <1>5, <1>6, <1>7, <1>8, <1>9, <1>10, <1>11

LEMMA InvNext == ASSUME Constants, Inv, [Next]_vars PROVE Inv'
<1>1. CASE UNCHANGED vars
  BY <1>1 DEF vars, Inv, TypeOK, Guards, Global, Natives, Changing
<1>2. ASSUME NEW t \in Thread, Build(t) PROVE Inv'
  BY <1>2, BuildInv
<1>3. ASSUME NEW t \in Thread, Step(t) PROVE Inv'
  BY <1>3, CreateInv, SessionInv, CompileInv DEF Step
<1> QED BY <1>1, <1>2, <1>3 DEF Next

-----------------------------------------------------------------------------
(* The theorems.                                                           *)

\* The mutex, the global context, the sessions and the library's objects always
\* agree, for any number of threads (CompileContext::create, CompileSession).
THEOREM InvCorrect == ASSUME Constants PROVE Spec => []Inv
<1>1. Init => Inv BY InvInit
<1>2. Inv /\ [Next]_vars => Inv' BY InvNext
<1> QED BY <1>1, <1>2, PTL DEF Spec

\* All sessions use the one context, which nobody deletes under them.
THEOREM OneContextCorrect == ASSUME Constants PROVE Spec => []OneContext
<1>1. Inv => OneContext
  <2> SUFFICES ASSUME Inv, NEW t \in Thread, stage[t] \in Session
               PROVE  using[t] = global /\ context[using[t]] \in Kept
    BY DEF OneContext
  <2>1. using[t] # None /\ using[t] = global
    BY DEF Inv, Global
  <2>2. \A u \in Thread : ~Changing(u)
    BY <2>1 DEF Inv, Global
  <2> QED BY <2>1, <2>2 DEF Inv, Global
<1> QED BY <1>1, InvCorrect, PTL

\* When the library has all the symbols, a session's compiler is initialised.
THEOREM ContextReadyCorrect ==
  ASSUME Constants, ~SymbolsMissing PROVE Spec => []ContextReady
<1>1. OneContext => ContextReady
  BY DEF OneContext, ContextReady, Kept
<1> QED BY <1>1, OneContextCorrect, PTL

\* Whatever fails in compile, the session is all that is left.
THEOREM NothingLeaksCorrect == ASSUME Constants PROVE Spec => []NothingLeaks
<1>1. Inv => NothingLeaks
  BY DEF Inv, Natives, Objects, NothingLeaks
<1> QED BY <1>1, InvCorrect, PTL
=============================================================================
