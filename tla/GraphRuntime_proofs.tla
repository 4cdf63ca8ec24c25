------------------------ MODULE GraphRuntime_proofs ------------------------
(***************************************************************************)
(* Proofs about GraphRuntime: the inductive invariant, what an execution   *)
(* runs, what stays executable, whose bytes a context reads, and that the  *)
(* specification implements GraphService.                                  *)
(***************************************************************************)
EXTENDS GraphRuntime, TLAPS

\* Every step keeps every variable in its type.
LEMMA TypeStep ==
  ASSUME TypeOK, \A g \in Graph : Coherent(g), [Next]_vars
  PROVE  TypeOK'
<1> USE DEF TypeOK
<1>0. CASE UNCHANGED vars
  BY <1>0 DEF vars, shape, runtime
<1>1. ASSUME NEW g \in Graph, Build(g) \/ Expose(g) \/ Validate(g) PROVE TypeOK'
  <2>1. CASE Build(g)
    BY <2>1 DEF Build, runtime
  <2>2. CASE Expose(g)
    BY <2>2 DEF Expose, runtime
  <2>3. CASE Validate(g)
    BY <2>3 DEF Validate, runtime
  <2>4. QED BY <1>1, <2>1, <2>2, <2>3
<1>2. ASSUME NEW g \in Graph, Compile(g) PROVE TypeOK'
  <2>1. PICK b \in Backend, n \in 0..MaxSize \cup {Dynamic} :
          kept' = [kept EXCEPT ![g] = @ \cup {[backend |-> b, sig |-> Args(g), need |-> n]}]
    BY <1>2 DEF Compile
  <2>2. [backend |-> b, sig |-> Args(g), need |-> n] \in Artifact
    BY DEF Artifact, Args
  <2>3. kept' \in [Graph -> SUBSET Artifact]
    BY <2>1, <2>2
  <2>4. QED BY <1>2, <2>3 DEF Compile, runtime
<1>3. ASSUME NEW g \in Graph, LoadFromArtifact(g) PROVE TypeOK'
  BY <1>3 DEF LoadFromArtifact, Cleared, shape
<1>4. ASSUME NEW g \in Graph, CreateContext(g) \/ RegisterModules(g) PROVE TypeOK'
  BY <1>4 DEF CreateContext, RegisterModules, shape
<1>5. ASSUME NEW g \in Graph, LoadFails(g) PROVE TypeOK'
  BY <1>5 DEF LoadFails, Cleared, shape
<1>6. ASSUME NEW g \in Graph, Destroy(g) PROVE TypeOK'
  BY <1>6 DEF Destroy, Cleared
<1>7. ASSUME NEW g \in Graph, ResolveFunction(g), Coherent(g) PROVE TypeOK'
  <2>1. bytes[g] \in Artifact /\ ctx[g] = bytes[g]
    BY <1>7, NoneAssumption DEF ResolveFunction, Coherent
  <2>2. bytes[g].backend \in Backend
    BY <2>1 DEF Artifact
  <2>3. QED BY <1>7, <2>1, <2>2 DEF ResolveFunction, shape
<1>8. ASSUME NEW g \in Graph, GetWorkspaceSize(g) PROVE TypeOK'
  <2>1. ctx[g].need \in 0..MaxSize
    BY <1>8 DEF GetWorkspaceSize, Artifact
  <2>2. QED BY <1>8, <2>1 DEF GetWorkspaceSize, shape
<1>9. ASSUME NEW g \in Graph, Execute(g), Coherent(g) PROVE TypeOK'
  <2>1. PICK b \in Backend, w \in 0..MaxSize \cup {None} :
          /\ ran' = [graph |-> g, artifact |-> fn[g], context |-> ctx[g], handle |-> b,
                     args |-> Args(g), room |-> IF w = None THEN 0 ELSE w]
          /\ Loaded(g)
    BY <1>9 DEF Execute, Accepts
  <2>2. fn[g] \in Artifact /\ ctx[g] \in Artifact
    BY <1>9, <2>1, NoneAssumption DEF Execute, Coherent, Agree, Unloaded, Loaded
  <2>3. (IF w = None THEN 0 ELSE w) \in 0..MaxSize
    BY SizeAssumption
  <2>4. Args(g) \in SUBSET Tensor
    BY DEF Args
  <2>5. ran' \in Invocation
    BY <2>1, <2>2, <2>3, <2>4 DEF Invocation
  <2>6. QED BY <1>9, <2>5 DEF Execute, shape, runtime
<1>10. ASSUME NEW g \in Graph, NEW h \in Graph, MoveBytes(g, h) PROVE TypeOK'
  BY <1>10 DEF MoveBytes, shape
<1>11. ASSUME NEW g \in Graph, MoveRest(g), Coherent(g) PROVE TypeOK'
  <2>1. target[g] \in Graph
    BY <1>11 DEF MoveRest, Coherent
  <2>2. QED BY <1>11, <2>1 DEF MoveRest
<1>12. QED
  BY <1>0, <1>1, <1>2, <1>3, <1>4, <1>5, <1>6, <1>7, <1>8, <1>9, <1>10, <1>11 DEF Next

\* A step on the members of g alone leaves the members of another graph coherent.
LEMMA CoherentFrame ==
  ASSUME TypeOK, NEW g \in Graph, NEW x \in Graph, x # g, Coherent(x),
         target' = target, target[x] # g,
         \A y \in Graph \ {g} :
           /\ pc'[y] = pc[y] /\ bytes'[y] = bytes[y] /\ ctx'[y] = ctx[y]
           /\ fn'[y] = fn[y] /\ workspace'[y] = workspace[y] /\ backend'[y] = backend[y]
  PROVE  Coherent(x)'
<1>1. Idle(x)' <=> Idle(x)
  BY DEF Idle
<1>2. CASE pc[x] = "moving"
  <2>1. target[x] \in Graph \ {g}
    BY <1>2 DEF TypeOK, Coherent
  <2>2. QED BY <1>1, <1>2, <2>1 DEF Coherent
<1>3. CASE pc[x] # "moving"
  BY <1>1, <1>3 DEF Coherent
<1>4. QED BY <1>2, <1>3

\* The steps of a load, a query and a destruction keep a graph coherent.
LEMMA CoherentOwn ==
  ASSUME TypeOK, NEW g \in Graph, Coherent(g), \A x \in Graph : target[x] # g,
         \/ LoadFromArtifact(g) \/ CreateContext(g) \/ RegisterModules(g)
         \/ ResolveFunction(g) \/ LoadFails(g) \/ GetWorkspaceSize(g) \/ Destroy(g)
  PROVE  Coherent(g)'
<1>0. /\ bytes \in [Graph -> Artifact \cup {None}]
      /\ ctx \in [Graph -> Artifact \cup {None, Bare}] /\ kept \in [Graph -> SUBSET Artifact]
      /\ pc \in [Graph -> {"idle", "context", "modules", "resolve", "moving"}]
      /\ fn \in [Graph -> Artifact \cup {None}]
      /\ workspace \in [Graph -> 0..MaxSize \cup {None}]
      /\ backend \in [Graph -> Backend \cup {None}]
  BY DEF TypeOK
<1> USE NoneAssumption
<1>1. CASE LoadFromArtifact(g)
  BY <1>0, <1>1 DEF LoadFromArtifact, Cleared, Coherent, Unloaded, Idle
<1>2. CASE CreateContext(g)
  BY <1>0, <1>2 DEF CreateContext, Coherent, Unloaded, Idle
<1>3. CASE RegisterModules(g)
  BY <1>0, <1>3 DEF RegisterModules, Coherent, Unloaded, Idle
<1>4. CASE ResolveFunction(g)
  BY <1>0, <1>4 DEF ResolveFunction, Coherent, Unloaded, Agree, Idle
<1>5. CASE LoadFails(g)
  BY <1>0, <1>5 DEF LoadFails, Cleared, Coherent, Unloaded, Agree, Idle
<1>6. CASE GetWorkspaceSize(g)
  <2>1. /\ Idle(g) /\ ctx[g] \in Artifact /\ pc' = pc /\ target' = target
        /\ bytes' = bytes /\ ctx' = ctx /\ fn' = fn /\ backend' = backend
    BY <1>6 DEF GetWorkspaceSize
  <2>2. /\ bytes[g] # None /\ ctx[g] = bytes[g] /\ fn[g] = bytes[g]
        /\ backend[g] = bytes[g].backend /\ workspace[g] \in {None, ctx[g].need}
    BY <1>0, <2>1 DEF Coherent, Agree, Unloaded
  <2>3. ctx[g].need \in 0..MaxSize
    BY <1>6, <2>1 DEF GetWorkspaceSize, Artifact
  <2>4. workspace'[g] = ctx[g].need
    BY <1>0, <1>6, <2>2, <2>3 DEF GetWorkspaceSize
  <2>5. QED BY <2>1, <2>2, <2>4 DEF Coherent, Agree, Idle
<1>7. CASE Destroy(g)
  BY <1>0, <1>7 DEF Destroy, Cleared, Coherent, Unloaded, Agree, Idle
<1>8. QED BY <1>1, <1>2, <1>3, <1>4, <1>5, <1>6, <1>7

\* Nothing is moved to a graph with a load under way.
LEMMA NotATarget ==
  ASSUME TypeOK, \A x \in Graph : Coherent(x),
         NEW g \in Graph, Idle(g) \/ pc[g] \in {"context", "modules", "resolve"}
  PROVE  \A x \in Graph : target[x] # g
<1> SUFFICES ASSUME NEW x \in Graph, target[x] = g PROVE FALSE
  OBVIOUS
<1>1. pc[x] = "moving"
  BY NoneAssumption DEF Coherent
<1>2. pc[g] = "idle"
  BY <1>1 DEF Coherent
<1>3. QED BY <1>2 DEF Idle

LEMMA CoherentStep ==
  ASSUME TypeOK, \A x \in Graph : Coherent(x), [Next]_vars
  PROVE  \A x \in Graph : Coherent(x)'
<1>0. /\ bytes \in [Graph -> Artifact \cup {None}]
      /\ ctx \in [Graph -> Artifact \cup {None, Bare}]
      /\ pc \in [Graph -> {"idle", "context", "modules", "resolve", "moving"}]
      /\ fn \in [Graph -> Artifact \cup {None}]
      /\ target \in [Graph -> Graph \cup {None}]
      /\ workspace \in [Graph -> 0..MaxSize \cup {None}]
      /\ backend \in [Graph -> Backend \cup {None}]
  BY DEF TypeOK
<1>1. CASE UNCHANGED <<pc, target, runtime>>
  BY <1>1 DEF Coherent, Idle, runtime
<1>2. ASSUME NEW g \in Graph,
             \/ LoadFromArtifact(g) \/ CreateContext(g) \/ RegisterModules(g)
             \/ ResolveFunction(g) \/ LoadFails(g) \/ GetWorkspaceSize(g) \/ Destroy(g)
      PROVE  \A x \in Graph : Coherent(x)'
  <2>1. Idle(g) \/ pc[g] \in {"context", "modules", "resolve"}
    BY <1>2 DEF LoadFromArtifact, CreateContext, RegisterModules, ResolveFunction,
       LoadFails, GetWorkspaceSize, Destroy
  <2>2. \A x \in Graph : target[x] # g
    BY <2>1, NotATarget
  <2>3. /\ target' = target
        /\ \A y \in Graph \ {g} :
             /\ pc'[y] = pc[y] /\ bytes'[y] = bytes[y] /\ ctx'[y] = ctx[y]
             /\ fn'[y] = fn[y] /\ workspace'[y] = workspace[y] /\ backend'[y] = backend[y]
    BY <1>0, <1>2 DEF LoadFromArtifact, CreateContext, RegisterModules, ResolveFunction,
       LoadFails, GetWorkspaceSize, Destroy, Cleared
  <2>4. QED BY <1>2, <2>2, <2>3, CoherentOwn, CoherentFrame
<1>3. ASSUME NEW g \in Graph, NEW h \in Graph, MoveBytes(g, h), NEW x \in Graph
      PROVE  Coherent(x)'
  <2>1. /\ g # h /\ Idle(g) /\ Idle(h) /\ UNCHANGED <<ctx, fn, workspace, backend>>
        /\ bytes' = [bytes EXCEPT ![h] = bytes[g], ![g] = None]
        /\ pc' = [pc EXCEPT ![g] = "moving"] /\ target' = [target EXCEPT ![g] = h]
    BY <1>3 DEF MoveBytes
  <2>2. \A y \in Graph : target[y] # g /\ target[y] # h
    BY <2>1 DEF Idle
  <2>3. Agree(bytes[g], ctx[g], fn[g], workspace[g], backend[g])
    BY <2>1 DEF Coherent
  <2>4. target[g] = None /\ target[h] = None
    BY <1>0, <2>1 DEF Coherent, Idle
  <2>5. CASE x = g
    <3>1. pc'[x] = "moving" /\ target'[x] = h /\ bytes'[h] = bytes[g] /\ bytes'[x] = None
      BY <1>0, <2>1, <2>5
    <3>2. pc'[h] = "idle"
      BY <1>0, <2>1 DEF Idle
    <3>3. \A y \in Graph \ {x} : target'[y] \notin {x, h}
      BY <1>0, <2>1, <2>2, <2>5
    <3>4. ~Idle(x)'
      BY <3>1 DEF Idle
    <3>5. h # None
      BY NoneAssumption
    <3>6. Agree(bytes'[h], ctx'[x], fn'[x], workspace'[x], backend'[x])
      BY <2>1, <2>3, <2>5, <3>1
    <3>7. QED BY <2>1, <2>5, <3>1, <3>2, <3>3, <3>4, <3>5, <3>6 DEF Coherent
  <2>6. CASE x = h
    <3>1. ~Idle(x)'
      BY <1>0, <2>1, <2>6 DEF Idle
    <3>2. pc'[x] = "idle" /\ target'[x] = None
      BY <1>0, <2>1, <2>4, <2>6 DEF Idle
    <3>3. QED BY <3>1, <3>2 DEF Coherent
  <2>7. CASE x # g /\ x # h
    <3>1. /\ pc'[x] = pc[x] /\ target'[x] = target[x] /\ bytes'[x] = bytes[x]
      BY <1>0, <2>1, <2>7
    <3>2. Idle(x)' => Idle(x)
      BY <1>0, <2>1, <2>4, <3>1 DEF Idle
    <3>3. CASE pc[x] = "moving"
      <4>1. /\ target[x] \in Graph \ {g, h} /\ pc[target[x]] = "idle"
        BY <1>0, <2>2, <3>3 DEF Coherent
      <4>2. bytes'[target[x]] = bytes[target[x]] /\ pc'[target[x]] = "idle"
        BY <1>0, <2>1, <4>1
      <4>3. \A y \in Graph \ {x} : target'[y] \notin {x, target[x]}
        BY <1>0, <2>1, <2>7, <3>3, <4>1 DEF Coherent
      <4>4. QED BY <2>1, <3>1, <3>2, <3>3, <4>1, <4>2, <4>3 DEF Coherent
    <3>4. CASE pc[x] # "moving"
      BY <2>1, <3>1, <3>2, <3>4 DEF Coherent
    <3>5. QED BY <3>3, <3>4
  <2>8. QED BY <2>5, <2>6, <2>7
<1>4. ASSUME NEW g \in Graph, MoveRest(g), NEW x \in Graph
      PROVE  Coherent(x)'
  <2> DEFINE h == target[g]
  <2>1. /\ pc[g] = "moving" /\ h \in Graph /\ h # g /\ pc[h] = "idle" /\ bytes[g] = None
        /\ Agree(bytes[h], ctx[g], fn[g], workspace[g], backend[g])
        /\ \A y \in Graph \ {g} : target[y] \notin {g, h}
    BY <1>0, <1>4 DEF MoveRest, Coherent
  <2> HIDE DEF h
  <2>2. /\ pc' = [pc EXCEPT ![g] = "idle"] /\ target' = [target EXCEPT ![g] = None]
        /\ bytes' = bytes
        /\ ctx' = [ctx EXCEPT ![h] = ctx[g], ![g] = None]
        /\ fn' = [fn EXCEPT ![h] = fn[g], ![g] = None]
        /\ workspace' = [workspace EXCEPT ![h] = workspace[g], ![g] = None]
        /\ backend' = [backend EXCEPT ![h] = backend[g], ![g] = None]
    BY <1>4 DEF MoveRest, h
  <2>3. target[h] = None
    BY <1>0, <2>1 DEF Coherent
  <2>4. CASE x = g
    <3>1. /\ ctx'[x] = None /\ fn'[x] = None /\ workspace'[x] = None /\ backend'[x] = None
          /\ bytes'[x] = None /\ pc'[x] = "idle" /\ target'[x] = None
      BY <1>0, <2>1, <2>2, <2>4
    <3>2. QED BY <3>1 DEF Coherent, Agree, Unloaded
  <2>5. CASE x = h
    <3>1. /\ ctx'[x] = ctx[g] /\ fn'[x] = fn[g] /\ workspace'[x] = workspace[g]
          /\ backend'[x] = backend[g] /\ bytes'[x] = bytes[x] /\ pc'[x] = "idle"
          /\ target'[x] = None
      BY <1>0, <2>1, <2>2, <2>3, <2>5
    <3>2. Agree(bytes'[x], ctx'[x], fn'[x], workspace'[x], backend'[x])
      BY <2>1, <2>5, <3>1
    <3>3. QED BY <3>1, <3>2 DEF Coherent
  <2>6. CASE x # g /\ x # h
    <3>1. /\ ctx'[x] = ctx[x] /\ fn'[x] = fn[x] /\ workspace'[x] = workspace[x]
          /\ backend'[x] = backend[x] /\ bytes'[x] = bytes[x] /\ pc'[x] = pc[x]
          /\ target'[x] = target[x]
      BY <1>0, <2>1, <2>2, <2>6
    <3>2. target[g] = h
      BY DEF h
    <3>3. Idle(x)' => Idle(x)
      <4>1. \A y \in Graph : target'[y] # x => target[y] # x
        BY <1>0, <2>2, <2>6, <3>2
      <4>2. QED BY <3>1, <4>1 DEF Idle
    <3>4. CASE pc[x] = "moving"
      <4>1. target[x] \in Graph \ {g, h} /\ pc[target[x]] = "idle"
        BY <1>0, <2>1, <2>6, <3>4 DEF Coherent
      <4>2. bytes'[target[x]] = bytes[target[x]] /\ pc'[target[x]] = "idle"
        BY <1>0, <2>2, <4>1
      <4>3. \A y \in Graph \ {x} : target'[y] \notin {x, target[x]}
        BY <1>0, <2>2, <3>4, <4>1, NoneAssumption DEF Coherent
      <4>4. QED BY <3>1, <3>3, <3>4, <4>2, <4>3 DEF Coherent
    <3>5. CASE pc[x] # "moving"
      BY <3>1, <3>3, <3>5 DEF Coherent
    <3>6. QED BY <3>4, <3>5
  <2>7. QED BY <2>4, <2>5, <2>6
<1>5. QED
  BY <1>1, <1>2, <1>3, <1>4 DEF Next, Build, Expose, Validate, Compile, Execute, vars

LEMMA ExecuteStep ==
  ASSUME TypeOK, \A x \in Graph : Coherent(x), ExecuteSound, [Next]_vars
  PROVE  ExecuteSound'
<1>1. CASE ran' = None \/ ran' = ran
  BY <1>1 DEF ExecuteSound
<1>2. ASSUME NEW g \in Graph, Execute(g) PROVE ExecuteSound'
  <2>1. PICK b \in Backend, pack \in SUBSET Tensor, w \in 0..MaxSize \cup {None} :
          /\ Idle(g) /\ Accepts(g, b, pack, w)
          /\ ran' = [graph |-> g, artifact |-> fn[g], context |-> ctx[g], handle |-> b,
                     args |-> Args(g), room |-> IF w = None THEN 0 ELSE w]
    BY <1>2 DEF Execute
  <2>2. fn[g] = ctx[g] /\ b = fn[g].backend /\ workspace[g] = fn[g].need
    BY <2>1 DEF Accepts, Loaded, Coherent, Agree, Unloaded
  <2>3. workspace[g] \in 0..MaxSize
    BY <2>1 DEF Accepts, TypeOK
  <2>4. fn[g].need # Dynamic
    BY <2>2, <2>3, NoneAssumption
  <2>5. (IF w = None THEN 0 ELSE w) >= workspace[g]
    BY <2>1, <2>3, SizeAssumption DEF Accepts, RoomFits
  <2>6. QED BY <2>1, <2>2, <2>4, <2>5 DEF ExecuteSound
<1>3. QED
  BY <1>1, <1>2 DEF Next, vars, Build, Expose, Validate, Compile, LoadFromArtifact,
     CreateContext, RegisterModules, ResolveFunction, LoadFails, GetWorkspaceSize,
     MoveBytes, MoveRest, Destroy

LEMMA InvInit == Init => Inv
BY DEF Init, Inv, TypeOK, ExecuteSound, Coherent, Agree, Unloaded, Idle

LEMMA InvStep == Inv /\ [Next]_vars => Inv'
BY TypeStep, CoherentStep, ExecuteStep DEF Inv

\* Between calls the members of a graph agree on what is loaded, whatever failed,
\* was reloaded, edited or moved.
THEOREM InvCorrect == Spec => []Inv
BY InvInit, InvStep, PTL DEF Spec

\* An execution runs the artifact in the context, on a handle of its backend, with
\* the workspace it needs.
THEOREM ExecuteSoundCorrect == Spec => []ExecuteSound
<1>1. Inv => ExecuteSound
  BY DEF Inv
<1>2. QED BY <1>1, InvCorrect, PTL

-----------------------------------------------------------------------------
(* Callers that do not edit a graph they have compiled.                    *)

\* What the caller keeps, and what is loaded, was compiled for the arguments that
\* execute passes.
Fits(g) ==
  /\ \A a \in kept[g] : a.sig = Args(g)
  /\ Idle(g) \/ pc[g] \in {"context", "modules", "resolve"}
       => bytes[g] \in kept[g] \cup {None}
  /\ pc[g] = "moving" => bytes[target[g]] \in kept[g] \cup {None}

LEMMA FitsStep ==
  ASSUME ~Edits, Inv, \A x \in Graph : Fits(x), [Next]_vars
  PROVE  \A x \in Graph : Fits(x)'
<1>0. /\ TypeOK /\ \A x \in Graph : Coherent(x)
      /\ bytes \in [Graph -> Artifact \cup {None}] /\ kept \in [Graph -> SUBSET Artifact]
      /\ pc \in [Graph -> {"idle", "context", "modules", "resolve", "moving"}]
      /\ target \in [Graph -> Graph \cup {None}]
      /\ built \in [Graph -> SUBSET Tensor] /\ sorted \in [Graph -> SUBSET Tensor]
      /\ exposed \in [Graph -> SUBSET Tensor]
  BY DEF Inv, TypeOK
<1>1. SUFFICES ASSUME NEW x \in Graph PROVE Fits(x)'
  OBVIOUS
<1>2. CASE UNCHANGED vars
  BY <1>2 DEF vars, shape, runtime, Fits, Args, Idle
<1>3. ASSUME NEW g \in Graph, Build(g) \/ Expose(g) \/ Validate(g) PROVE Fits(x)'
  <2>1. /\ kept[g] = {} /\ UNCHANGED <<kept, pc, target, bytes>>
        /\ \A y \in Graph \ {g} : sorted'[y] = sorted[y] /\ exposed'[y] = exposed[y]
    BY <1>0, <1>3 DEF Build, Expose, Validate, MayEdit, runtime
  <2>2. CASE x = g
    BY <2>1, <2>2 DEF Fits, Idle
  <2>3. CASE x # g
    BY <2>1, <2>3 DEF Fits, Idle, Args
  <2>4. QED BY <2>2, <2>3
<1>4. ASSUME NEW g \in Graph, Compile(g) PROVE Fits(x)'
  <2>1. PICK b \in Backend, n \in 0..MaxSize \cup {Dynamic} :
          kept' = [kept EXCEPT ![g] = @ \cup {[backend |-> b, sig |-> Args(g), need |-> n]}]
    BY <1>4 DEF Compile
  <2>2. UNCHANGED <<sorted, exposed, pc, target, bytes>>
    BY <1>4 DEF Compile, runtime
  <2>3. Args(x)' = Args(x)
    BY <2>2 DEF Args
  <2>4. \A a \in kept'[x] : a.sig = Args(x)
    BY <1>0, <2>1 DEF Fits
  <2>5. kept[x] \subseteq kept'[x]
    BY <1>0, <2>1
  <2>6. QED BY <2>2, <2>3, <2>4, <2>5 DEF Fits, Idle
<1>5. ASSUME NEW g \in Graph,
             \/ LoadFromArtifact(g) \/ CreateContext(g) \/ RegisterModules(g)
             \/ ResolveFunction(g) \/ LoadFails(g)
      PROVE  Fits(x)'
  <2>1. /\ UNCHANGED <<shape, target>>
        /\ \A y \in Graph \ {g} : pc'[y] = pc[y] /\ bytes'[y] = bytes[y]
        /\ pc'[g] # "moving"
    BY <1>0, <1>5 DEF LoadFromArtifact, CreateContext, RegisterModules, ResolveFunction,
       LoadFails, Cleared
  <2>2. Idle(g) \/ pc[g] \in {"context", "modules", "resolve"}
    BY <1>5 DEF LoadFromArtifact, CreateContext, RegisterModules, ResolveFunction, LoadFails
  <2>3. \A y \in Graph : target[y] # g
    BY <1>0, <2>2, NotATarget
  <2>4. CASE x = g
    <3>1. bytes'[g] \in kept[g] \cup {None}
      BY <1>0, <1>5, <2>2 DEF LoadFromArtifact, CreateContext, RegisterModules,
         ResolveFunction, LoadFails, Cleared, Fits
    <3>2. QED BY <2>1, <2>4, <3>1 DEF Fits, Args, shape
  <2>5. CASE x # g
    <3>1. Idle(x)' => Idle(x)
      BY <2>1, <2>5 DEF Idle
    <3>2. pc[x] = "moving" => bytes'[target[x]] = bytes[target[x]]
      BY <1>0, <2>1, <2>3 DEF Coherent
    <3>3. QED BY <2>1, <2>5, <3>1, <3>2 DEF Fits, Args, shape
  <2>6. QED BY <2>4, <2>5
<1>6. ASSUME NEW g \in Graph, GetWorkspaceSize(g) \/ Execute(g) PROVE Fits(x)'
  <2>1. UNCHANGED <<kept, sorted, exposed, pc, target, bytes>>
    BY <1>6 DEF GetWorkspaceSize, Execute, shape, runtime
  <2>2. QED BY <2>1 DEF Fits, Args, Idle
<1>7. ASSUME NEW g \in Graph, NEW h \in Graph, MoveBytes(g, h) PROVE Fits(x)'
  <2>1. /\ g # h /\ Idle(g) /\ Idle(h) /\ UNCHANGED <<kept, sorted, exposed>>
        /\ bytes' = [bytes EXCEPT ![h] = bytes[g], ![g] = None]
        /\ pc' = [pc EXCEPT ![g] = "moving"] /\ target' = [target EXCEPT ![g] = h]
    BY <1>7 DEF MoveBytes, shape
  <2>2. Args(x)' = Args(x)
    BY <2>1 DEF Args
  <2>3. \A y \in Graph : target[y] # g /\ target[y] # h
    BY <2>1 DEF Idle
  <2>4. CASE x = g
    <3>1. pc'[x] = "moving" /\ bytes'[target'[x]] = bytes[x]
      BY <1>0, <2>1, <2>4
    <3>2. ~(Idle(x)')
      BY <3>1 DEF Idle
    <3>3. QED BY <2>1, <2>2, <2>4, <3>1, <3>2 DEF Fits
  <2>5. CASE x = h
    <3>1. pc'[x] = "idle" /\ ~(Idle(x)')
      BY <1>0, <2>1, <2>5 DEF Idle
    <3>2. QED BY <2>1, <2>2, <3>1 DEF Fits
  <2>6. CASE x # g /\ x # h
    <3>1. pc'[x] = pc[x] /\ bytes'[x] = bytes[x] /\ target'[x] = target[x]
      BY <1>0, <2>1, <2>6
    <3>2. target[g] = None
      BY <1>0, <2>1 DEF Coherent, Idle
    <3>3. Idle(x)' => Idle(x)
      <4>1. \A y \in Graph : target'[y] # x => target[y] # x
        BY <1>0, <2>1, <3>2, NoneAssumption
      <4>2. QED BY <3>1, <4>1 DEF Idle
    <3>4. pc[x] = "moving" => bytes'[target[x]] = bytes[target[x]]
      BY <1>0, <2>1, <2>3 DEF Coherent
    <3>5. QED BY <2>1, <2>2, <3>1, <3>3, <3>4 DEF Fits
  <2>7. QED BY <2>4, <2>5, <2>6
<1>8. ASSUME NEW g \in Graph, MoveRest(g) PROVE Fits(x)'
  <2> DEFINE h == target[g]
  <2>1. /\ pc[g] = "moving" /\ h \in Graph /\ h # g /\ pc[h] = "idle"
        /\ \A y \in Graph \ {g} : target[y] \notin {g, h}
    BY <1>0, <1>8 DEF MoveRest, Coherent
  <2>2. target[g] = h
    OBVIOUS
  <2> HIDE DEF h
  <2>3. /\ pc' = [pc EXCEPT ![g] = "idle"] /\ target' = [target EXCEPT ![g] = None]
        /\ bytes' = bytes
        /\ kept' = [kept EXCEPT ![h] = kept[g], ![g] = {}]
        /\ sorted' = [sorted EXCEPT ![h] = sorted[g], ![g] = {}]
        /\ exposed' = [exposed EXCEPT ![h] = exposed[g], ![g] = {}]
    BY <1>8, <2>2 DEF MoveRest
  <2>4. bytes[h] \in kept[g] \cup {None} /\ bytes[g] = None
    BY <1>0, <2>1, <2>2 DEF Fits, Coherent
  <2>5. CASE x = g
    <3>1. kept'[x] = {} /\ bytes'[x] = None /\ pc'[x] = "idle"
      BY <1>0, <2>1, <2>3, <2>4, <2>5
    <3>2. QED BY <3>1 DEF Fits
  <2>6. CASE x = h
    <3>1. kept'[x] = kept[g] /\ sorted'[x] = sorted[g] /\ exposed'[x] = exposed[g]
          /\ bytes'[x] = bytes[x] /\ pc'[x] = "idle"
      BY <1>0, <2>1, <2>3, <2>6
    <3>2. Args(x)' = Args(g)
      BY <3>1 DEF Args
    <3>3. \A a \in kept'[x] : a.sig = Args(g)
      BY <3>1 DEF Fits
    <3>4. QED BY <2>4, <2>6, <3>1, <3>2, <3>3 DEF Fits
  <2>7. CASE x # g /\ x # h
    <3>1. /\ kept'[x] = kept[x] /\ sorted'[x] = sorted[x] /\ exposed'[x] = exposed[x]
          /\ bytes' = bytes /\ pc'[x] = pc[x] /\ target'[x] = target[x]
      BY <1>0, <2>1, <2>3, <2>7
    <3>2. Idle(x)' => Idle(x)
      <4>1. \A y \in Graph : target'[y] # x => target[y] # x
        BY <1>0, <2>2, <2>3, <2>7
      <4>2. QED BY <3>1, <4>1 DEF Idle
    <3>3. QED BY <3>1, <3>2 DEF Fits, Args
  <2>8. QED BY <2>5, <2>6, <2>7
<1>9. ASSUME NEW g \in Graph, Destroy(g) PROVE Fits(x)'
  <2>1. /\ UNCHANGED <<pc, target>> /\ Idle(g)
        /\ \A y \in Graph \ {g} : /\ bytes'[y] = bytes[y] /\ kept'[y] = kept[y]
                                  /\ sorted'[y] = sorted[y] /\ exposed'[y] = exposed[y]
        /\ kept'[g] = {} /\ bytes'[g] = None
    BY <1>0, <1>9 DEF Destroy, Cleared
  <2>2. CASE x = g
    BY <1>0, <2>1, <2>2 DEF Fits, Idle, Coherent
  <2>3. CASE x # g
    <3>1. pc[x] = "moving" => bytes'[target[x]] = bytes[target[x]]
      BY <1>0, <2>1 DEF Coherent, Idle
    <3>2. QED BY <2>1, <2>3, <3>1 DEF Fits, Args, Idle
  <2>4. QED BY <2>2, <2>3
<1>10. QED
  BY <1>2, <1>3, <1>4, <1>5, <1>6, <1>7, <1>8, <1>9 DEF Next

\* What is loaded can be executed with the tensors it was compiled for, and is
\* passed the arguments its function takes, when callers do not edit a graph they
\* have compiled; getWorkspaceSize, other loads, failures and moves do not matter.
THEOREM RemainsExecutableCorrect == ASSUME ~Edits PROVE Spec => []RemainsExecutable
<1> DEFINE FInv == Inv /\ \A x \in Graph : Fits(x)
<1>1. Init => FInv
  <2>1. Init => \A x \in Graph : Fits(x)
    BY DEF Init, Fits
  <2>2. QED BY <2>1, InvInit
<1>2. FInv /\ [Next]_vars => FInv'
  BY InvStep, FitsStep
<1>3. FInv => RemainsExecutable
  <2> SUFFICES ASSUME FInv, NEW g \in Graph, Idle(g), Loaded(g), workspace[g] # None
               PROVE  /\ Accepts(g, ctx[g].backend, ctx[g].sig, ctx[g].need)
                      /\ Args(g) = ctx[g].sig
    BY DEF RemainsExecutable
  <2>1. TypeOK /\ Coherent(g)
    BY DEF Inv
  <2>2. /\ ctx[g] = bytes[g] /\ bytes[g] # None /\ backend[g] = ctx[g].backend
        /\ workspace[g] = ctx[g].need
    BY <2>1 DEF Coherent, Agree, Unloaded, Loaded
  <2>3. Args(g) = ctx[g].sig
    BY <2>2 DEF Fits
  <2>4. workspace[g] \in 0..MaxSize
    BY <2>1 DEF TypeOK
  <2>5. PackFits(g, ctx[g].sig)
    BY <2>3 DEF PackFits, Args
  <2>6. RoomFits(g, ctx[g].need)
    BY <2>2, <2>4, SizeAssumption DEF RoomFits
  <2>7. QED BY <2>2, <2>3, <2>5, <2>6 DEF Accepts
<1> HIDE DEF FInv
<1>4. QED BY <1>1, <1>2, <1>3, PTL DEF Spec

\* The bytes a context refers to outlive it, when no graph is move-assigned: a load
\* and a destruction release the context first.
THEOREM BytesOutliveContextCorrect ==
  ASSUME ~Moves PROVE Spec => []BytesOutliveContext
<1> DEFINE Still == \A g \in Graph : target[g] = None
<1>1. Init => Still
  BY DEF Init
<1>2. TypeOK /\ Still /\ [Next]_vars => Still'
  <2> SUFFICES ASSUME TypeOK, Still, [Next]_vars PROVE target' = target \/ Still'
    OBVIOUS
  <2>1. CASE UNCHANGED vars
    BY <2>1 DEF vars
  <2>2. ASSUME NEW g \in Graph,
               \/ Build(g) \/ Expose(g) \/ Validate(g) \/ Compile(g) \/ LoadFromArtifact(g)
               \/ CreateContext(g) \/ RegisterModules(g) \/ ResolveFunction(g)
               \/ LoadFails(g) \/ GetWorkspaceSize(g) \/ Execute(g) \/ Destroy(g)
        PROVE  target' = target
    BY <2>2 DEF Build, Expose, Validate, Compile, LoadFromArtifact, CreateContext,
       RegisterModules, ResolveFunction, LoadFails, GetWorkspaceSize, Execute, Destroy
  <2>3. ASSUME NEW g \in Graph, NEW h \in Graph, MoveBytes(g, h) PROVE FALSE
    BY <2>3 DEF MoveBytes
  <2>4. ASSUME NEW g \in Graph, MoveRest(g) PROVE Still'
    <3>1. target' = [target EXCEPT ![g] = None] /\ target \in [Graph -> Graph \cup {None}]
      BY <2>4 DEF MoveRest, TypeOK
    <3>2. QED BY <3>1
  <2>5. QED BY <2>1, <2>2, <2>3, <2>4 DEF Next
<1>3. Inv /\ Still => BytesOutliveContext
  <2> SUFFICES ASSUME Inv, Still, NEW g \in Graph, ctx[g] \in Artifact
               PROVE  bytes[g] = ctx[g]
    BY DEF BytesOutliveContext
  <2>1. Coherent(g) /\ TypeOK
    BY DEF Inv
  <2>2. Idle(g) \/ pc[g] \in {"context", "modules", "resolve"}
    BY <2>1, NoneAssumption DEF Coherent, TypeOK, Idle
  <2>3. QED BY <2>1, <2>2, NoneAssumption DEF Coherent, Agree, Unloaded
<1>4. Inv => TypeOK
  BY DEF Inv
<1> HIDE DEF Still
<1>5. QED BY <1>1, <1>2, <1>3, <1>4, InvCorrect, PTL DEF Spec
-----------------------------------------------------------------------------
(* Every step of the specification is a step of GraphService.              *)

\* What the service shows of one graph.
Shown(g) == IF backend[g] = None THEN None ELSE fn[g]
Sized(g) == workspace[g] # None

\* A step that leaves the function, the backend and the workspace size alone.
LEMMA NothingShown ==
  ASSUME fn' = fn, backend' = backend, workspace' = workspace
  PROVE  serviceLoaded' = serviceLoaded /\ serviceSized' = serviceSized
BY DEF serviceLoaded, serviceSized

\* A step after which one graph shows something else.
LEMMA Shows ==
  ASSUME NEW g \in Graph,
         \A x \in Graph \ {g} :
           fn'[x] = fn[x] /\ backend'[x] = backend[x] /\ workspace'[x] = workspace[x]
  PROVE  /\ serviceLoaded' = [serviceLoaded EXCEPT ![g] = Shown(g)']
         /\ serviceSized'  = [serviceSized EXCEPT ![g] = Sized(g)']
<1>1. \A x \in Graph \ {g} : Shown(x)' = Shown(x) /\ Sized(x)' = Sized(x)
  BY DEF Shown, Sized
<1>2. /\ serviceLoaded = [x \in Graph |-> Shown(x)]
      /\ serviceLoaded' = [x \in Graph |-> Shown(x)']
  BY DEF serviceLoaded, Shown
<1>3. serviceLoaded' = [serviceLoaded EXCEPT ![g] = Shown(g)']
  BY <1>1, <1>2
<1>4. serviceSized' = [serviceSized EXCEPT ![g] = Sized(g)']
  BY <1>1 DEF serviceSized, Sized
<1>5. QED BY <1>3, <1>4

\* A load ends with an artifact, and begins or fails with none.
LEMMA LoadStep ==
  ASSUME TypeOK, NEW g \in Graph, Coherent(g), \A x \in Graph : target[x] # g,
         LoadFromArtifact(g) \/ ResolveFunction(g) \/ LoadFails(g) \/ Destroy(g)
  PROVE  Service!Load(g)
<1>0. /\ fn \in [Graph -> Artifact \cup {None}]
      /\ workspace \in [Graph -> 0..MaxSize \cup {None}]
      /\ backend \in [Graph -> Backend \cup {None}]
      /\ bytes \in [Graph -> Artifact \cup {None}]
      /\ ctx \in [Graph -> Artifact \cup {None, Bare}]
  BY DEF TypeOK
<1>1. /\ ran' = None
      /\ \A x \in Graph \ {g} :
           fn'[x] = fn[x] /\ backend'[x] = backend[x] /\ workspace'[x] = workspace[x]
  BY <1>0 DEF LoadFromArtifact, ResolveFunction, LoadFails, Destroy, Cleared
<1>2. workspace'[g] = None
  <2>1. CASE LoadFromArtifact(g) \/ LoadFails(g) \/ Destroy(g)
    BY <1>0, <2>1 DEF LoadFromArtifact, LoadFails, Destroy, Cleared
  <2>2. CASE ResolveFunction(g)
    BY <2>2 DEF ResolveFunction, Coherent, Unloaded
  <2>3. QED BY <2>1, <2>2
<1>3. Shown(g)' \in Artifact \cup {None}
  <2>1. CASE LoadFromArtifact(g) \/ LoadFails(g) \/ Destroy(g)
    <3>1. backend'[g] = None
      BY <1>0, <2>1 DEF LoadFromArtifact, LoadFails, Destroy, Cleared
    <3>2. QED BY <3>1 DEF Shown
  <2>2. CASE ResolveFunction(g)
    <3>1. fn'[g] = bytes[g]
      BY <1>0, <2>2 DEF ResolveFunction, Coherent
    <3>2. QED BY <1>0, <3>1 DEF Shown
  <2>3. QED BY <2>1, <2>2
<1>4. (Sized(g)') = FALSE
  BY <1>2 DEF Sized
<1>5. QED BY <1>1, <1>3, <1>4, Shows DEF Service!Load

LEMMA ServiceInit == Init => Service!Init
BY DEF Init, Service!Init, serviceLoaded, serviceSized

LEMMA ServiceStep ==
  ASSUME Inv, [Next]_vars
  PROVE  [Service!Next]_(Service!vars)
<1>0. /\ TypeOK /\ \A x \in Graph : Coherent(x)
      /\ fn \in [Graph -> Artifact \cup {None}]
      /\ workspace \in [Graph -> 0..MaxSize \cup {None}]
      /\ backend \in [Graph -> Backend \cup {None}]
      /\ ctx \in [Graph -> Artifact \cup {None, Bare}]
      /\ target \in [Graph -> Graph \cup {None}]
  BY DEF Inv, TypeOK
<1>1. CASE UNCHANGED vars
  BY <1>1, NothingShown DEF vars, runtime, Service!vars
<1>2. ASSUME NEW g \in Graph,
             \/ Build(g) \/ Expose(g) \/ Validate(g) \/ Compile(g)
             \/ CreateContext(g) \/ RegisterModules(g) \/ \E h \in Graph : MoveBytes(g, h)
      PROVE  Service!Other
  <2>1. ran' = None /\ fn' = fn /\ backend' = backend /\ workspace' = workspace
    BY <1>2 DEF Build, Expose, Validate, Compile, CreateContext, RegisterModules,
       MoveBytes, runtime
  <2>2. QED BY <2>1, NothingShown DEF Service!Other
<1>3. ASSUME NEW g \in Graph,
             LoadFromArtifact(g) \/ ResolveFunction(g) \/ LoadFails(g) \/ Destroy(g)
      PROVE  Service!Load(g)
  <2>1. Idle(g) \/ pc[g] \in {"context", "modules", "resolve"}
    BY <1>3 DEF LoadFromArtifact, ResolveFunction, LoadFails, Destroy
  <2>2. QED BY <1>0, <1>3, <2>1, NotATarget, LoadStep
<1>4. ASSUME NEW g \in Graph, GetWorkspaceSize(g) PROVE Service!Query(g)
  <2>1. /\ fn' = fn /\ backend' = backend /\ ran' = None
        /\ \A x \in Graph \ {g} : workspace'[x] = workspace[x]
    BY <1>0, <1>4 DEF GetWorkspaceSize
  <2>2. backend[g] # None /\ fn[g] # None
    BY <1>0, <1>4, NoneAssumption DEF GetWorkspaceSize, Coherent, Agree, Unloaded, Artifact
  <2>3. serviceLoaded[g] # None
    BY <2>2 DEF serviceLoaded
  <2>4. workspace'[g] # None
    <3>1. ctx[g].need \in 0..MaxSize
      BY <1>4 DEF GetWorkspaceSize, Artifact
    <3>2. QED BY <1>0, <1>4, <3>1, NoneAssumption DEF GetWorkspaceSize
  <2>5. (Sized(g)') = TRUE
    BY <2>4 DEF Sized
  <2>6. serviceSized' = [serviceSized EXCEPT ![g] = TRUE]
    BY <2>1, <2>5, Shows
  <2>7. serviceLoaded' = serviceLoaded
    BY <2>1 DEF serviceLoaded
  <2>8. QED BY <2>1, <2>3, <2>6, <2>7 DEF Service!Query
<1>5. ASSUME NEW g \in Graph, Execute(g) PROVE Service!Run(g)
  <2>1. PICK b \in Backend, w \in 0..MaxSize \cup {None} :
          /\ ran' = [graph |-> g, artifact |-> fn[g], context |-> ctx[g], handle |-> b,
                     args |-> Args(g), room |-> IF w = None THEN 0 ELSE w]
          /\ Loaded(g) /\ workspace[g] # None
    BY <1>5 DEF Execute, Accepts
  <2>2. ctx[g] = fn[g]
    BY <1>0, <1>5, <2>1 DEF Execute, Loaded, Coherent, Agree, Unloaded
  <2>3. serviceLoaded[g] = fn[g] /\ serviceLoaded[g] # None /\ serviceSized[g]
    BY <2>1 DEF serviceLoaded, serviceSized, Loaded
  <2>4. TypeOK' /\ ExecuteSound'
    BY InvStep DEF Inv
  <2>5. ran'.graph = g /\ ran'.artifact = fn[g] /\ ran'.context = fn[g]
    BY <2>1, <2>2
  <2>6. ran' \in Invocation \cup {None}
    BY <2>4 DEF TypeOK
  <2>7. ran' # None
    <3>1. fn[g] \in Artifact
      BY <1>0, <2>1 DEF Loaded
    <3>2. ran' \in Invocation
      <4>1. b \in Backend /\ Args(g) \in SUBSET Tensor
        BY <1>0 DEF Args, TypeOK
      <4>2. (IF w = None THEN 0 ELSE w) \in 0..MaxSize
        BY SizeAssumption
      <4>3. QED BY <2>1, <2>2, <3>1, <4>1, <4>2 DEF Invocation
    <3>3. QED BY <3>2, InvocationAssumption
  <2>8. ran'.handle = fn[g].backend /\ ran'.room >= fn[g].need
    BY <2>4, <2>5, <2>7 DEF ExecuteSound
  <2>9. serviceLoaded' = serviceLoaded /\ serviceSized' = serviceSized
    BY <1>5, NothingShown DEF Execute, runtime
  <2>10. QED BY <2>3, <2>5, <2>7, <2>8, <2>9 DEF Service!Run
<1>6. ASSUME NEW g \in Graph, MoveRest(g) PROVE Service!Move(g, target[g])
  <2> DEFINE h == target[g]
  <2>1. h \in Graph /\ h # g
    BY <1>0, <1>6 DEF MoveRest, Coherent
  <2>2. /\ ran' = None
        /\ fn' = [fn EXCEPT ![h] = fn[g], ![g] = None]
        /\ workspace' = [workspace EXCEPT ![h] = workspace[g], ![g] = None]
        /\ backend' = [backend EXCEPT ![h] = backend[g], ![g] = None]
    BY <1>6 DEF MoveRest
  <2> HIDE DEF h
  <2>3. \A x \in Graph : Shown(x)' = IF x = g THEN None ELSE IF x = h THEN Shown(g) ELSE Shown(x)
    BY <1>0, <2>1, <2>2 DEF Shown
  <2>4. \A x \in Graph : workspace'[x] = IF x = g THEN None
                                         ELSE IF x = h THEN workspace[g] ELSE workspace[x]
    BY <1>0, <2>1, <2>2
  <2>5. serviceLoaded' = [serviceLoaded EXCEPT ![h] = serviceLoaded[g], ![g] = None]
    <3>1. /\ serviceLoaded = [x \in Graph |-> Shown(x)]
          /\ serviceLoaded' = [x \in Graph |-> Shown(x)']
      BY DEF serviceLoaded, Shown
    <3>2. QED BY <2>1, <2>3, <3>1
  <2>6. serviceSized' = [serviceSized EXCEPT ![h] = serviceSized[g], ![g] = FALSE]
    BY <2>1, <2>4 DEF serviceSized
  <2>7. QED BY <2>2, <2>5, <2>6 DEF Service!Move, h
<1>7. CASE Next
  <2>1. PICK g \in Graph :
          \/ Build(g) \/ Expose(g) \/ Validate(g) \/ Compile(g)
          \/ LoadFromArtifact(g) \/ CreateContext(g) \/ RegisterModules(g)
          \/ ResolveFunction(g) \/ LoadFails(g)
          \/ GetWorkspaceSize(g) \/ Execute(g)
          \/ \E h \in Graph : MoveBytes(g, h)
          \/ MoveRest(g) \/ Destroy(g)
    BY <1>7 DEF Next
  <2>2. CASE MoveRest(g)
    <3>1. target[g] \in Graph
      BY <1>0, <2>2 DEF MoveRest, Coherent
    <3>2. QED BY <1>6, <2>2, <3>1 DEF Service!Next
  <2>3. QED BY <1>2, <1>3, <1>4, <1>5, <2>1, <2>2 DEF Service!Next
<1>8. QED BY <1>1, <1>7

\* The members of a graph, set by different calls, left by failing ones and moved
\* one at a time, keep the promise of GraphService, edits included.
THEOREM ImplementsServiceCorrect == Spec => ImplementsService
<1>1. Init => Service!Init
  BY ServiceInit
<1>2. Inv /\ [Next]_vars => [Service!Next]_(Service!vars)
  BY ServiceStep
<1>3. QED BY <1>1, <1>2, InvCorrect, PTL DEF Spec, ImplementsService, Service!Spec
=============================================================================
