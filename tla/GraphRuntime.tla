---------------------------- MODULE GraphRuntime ----------------------------
(***************************************************************************)
(* The runtime half of a fusilli Graph: validate, loadFromArtifact,        *)
(* getWorkspaceSize, execute, move assignment and destruction.             *)
(*                                                                         *)
(* A load clears what was loaded, takes the bytes, and builds a context in *)
(* steps that may each fail.  execute trusts four members that different   *)
(* calls set: the context, the function resolved in it, the backend it was *)
(* loaded for and the workspace size that was queried; and it takes its    *)
(* arguments from the tensor sets that validate sorted.  A graph may be    *)
(* edited, validated and compiled again while an artifact is loaded.       *)
(*                                                                         *)
(* An artifact is what the properties tell apart of a VMFB: its backend,   *)
(* the tensors of its signature and the workspace it needs.  Callers load  *)
(* an artifact with a handle of its backend, as the API demands.           *)
(***************************************************************************)
EXTENDS Naturals, FiniteSets

CONSTANTS
  Graph,    \* slots for Graph objects
  Backend,
  Tensor,   \* the tensors a graph may have
  MaxSize,  \* largest workspace size
  MaxKept,  \* how many artifacts a caller keeps of one graph
  Edits,    \* callers edit a graph they have already compiled
  Moves,    \* callers move-assign graphs
  Dynamic,  \* the workspace size depends on the data
  None,     \* a null pointer, an empty optional, or no bytes
  Bare      \* a context with no bytecode module in it yet

ASSUME SizeAssumption == MaxSize \in Nat /\ MaxKept \in Nat
ASSUME FlagAssumption == Edits \in BOOLEAN /\ Moves \in BOOLEAN

Artifact == [backend : Backend, sig : SUBSET Tensor, need : 0..MaxSize \cup {Dynamic}]

ASSUME NoneAssumption ==
  /\ None \notin Artifact \cup Backend \cup Graph \cup 0..MaxSize
  /\ Bare \notin Artifact \cup {None}
  /\ Dynamic \notin 0..MaxSize

VARIABLES
  built,      \* built[g]: fullGraphInputs_ and fullGraphOutputs_
  exposed,    \* exposed[g]: those neither virtual nor scalar
  sorted,     \* sorted[g]: fullGraphInputsSorted_ and fullGraphOutputsSorted_
  valid,      \* valid[g]: isValidated_
  kept,       \* kept[g]: artifacts of g that its caller has
  pc,         \* pc[g]: where a load, or the move from g, stands
  target,     \* target[g]: the graph g is being moved to
  bytes,      \* bytes[g]: loadedArtifactBytes_
  ctx,        \* ctx[g]: the artifact vmContext_ refers to
  fn,         \* fn[g]: the artifact whose entry vmFunction_ is
  workspace,  \* workspace[g]: workspaceSize_
  backend,    \* backend[g]: loadedBackend_
  ran         \* the invocation made by the last step, if it was an execute

shape   == <<built, exposed, sorted, valid, kept>>
runtime == <<bytes, ctx, fn, workspace, backend>>
vars    == <<shape, pc, target, runtime, ran>>

Invocation == [graph : Graph, artifact : Artifact, context : Artifact,
               handle : Backend, args : SUBSET Tensor, room : 0..MaxSize]

ASSUME InvocationAssumption == None \notin Invocation

TypeOK ==
  /\ built     \in [Graph -> SUBSET Tensor]
  /\ exposed   \in [Graph -> SUBSET Tensor]
  /\ sorted    \in [Graph -> SUBSET Tensor]
  /\ valid     \in [Graph -> BOOLEAN]
  /\ kept      \in [Graph -> SUBSET Artifact]
  /\ pc        \in [Graph -> {"idle", "context", "modules", "resolve", "moving"}]
  /\ target    \in [Graph -> Graph \cup {None}]
  /\ bytes     \in [Graph -> Artifact \cup {None}]
  /\ ctx       \in [Graph -> Artifact \cup {None, Bare}]
  /\ fn        \in [Graph -> Artifact \cup {None}]
  /\ workspace \in [Graph -> 0..MaxSize \cup {None}]
  /\ backend   \in [Graph -> Backend \cup {None}]
  /\ ran       \in Invocation \cup {None}

Init ==
  /\ built     = [g \in Graph |-> {}]
  /\ exposed   = [g \in Graph |-> {}]
  /\ sorted    = [g \in Graph |-> {}]
  /\ valid     = [g \in Graph |-> FALSE]
  /\ kept      = [g \in Graph |-> {}]
  /\ pc        = [g \in Graph |-> "idle"]
  /\ target    = [g \in Graph |-> None]
  /\ bytes     = [g \in Graph |-> None]
  /\ ctx       = [g \in Graph |-> None]
  /\ fn        = [g \in Graph |-> None]
  /\ workspace = [g \in Graph |-> None]
  /\ backend   = [g \in Graph |-> None]
  /\ ran       = None

\* Nothing is under way on g, nor is g being moved to.
Idle(g) == pc[g] = "idle" /\ \A h \in Graph : target[h] # g

\* What execute pushes, and what the emitted function takes: both walk the
\* sorted sets and skip virtual outputs and scalar inputs.
Args(g) == sorted[g] \cap exposed[g]

-----------------------------------------------------------------------------
(* Building, validating and compiling.                                     *)

MayEdit(g) == Edits \/ kept[g] = {}

\* A node is added; its tensors are exposed or not.
Build(g) == \E t \in Tensor \ built[g] :
  /\ Idle(g) /\ MayEdit(g)
  /\ built' = [built EXCEPT ![g] = @ \cup {t}]
  /\ \/ exposed' = [exposed EXCEPT ![g] = @ \cup {t}]
     \/ UNCHANGED exposed
  /\ ran' = None
  /\ UNCHANGED <<sorted, valid, kept, pc, target, runtime>>

\* setOutput, setIsVirtual
Expose(g) == \E t \in built[g] :
  /\ Idle(g) /\ MayEdit(g)
  /\ exposed' = [exposed EXCEPT ![g] = IF t \in @ THEN @ \ {t} ELSE @ \cup {t}]
  /\ ran' = None
  /\ UNCHANGED <<built, sorted, valid, kept, pc, target, runtime>>

\* validate.  The sorted sets only ever grow; a failure after
\* inferPropertiesNode leaves them grown and isValidated_ as it was.
Validate(g) ==
  /\ Idle(g) /\ MayEdit(g)
  /\ sorted' = [sorted EXCEPT ![g] = @ \cup built[g]]
  /\ \/ valid' = [valid EXCEPT ![g] = TRUE]
     \/ UNCHANGED valid
  /\ ran' = None
  /\ UNCHANGED <<built, exposed, kept, pc, target, runtime>>

\* compileToArtifact; nothing that is loaded changes.
Compile(g) == \E b \in Backend, n \in 0..MaxSize \cup {Dynamic} :
  LET a == [backend |-> b, sig |-> Args(g), need |-> n] IN
  /\ Idle(g) /\ valid[g]
  /\ Cardinality(kept[g] \cup {a}) <= MaxKept
  /\ kept' = [kept EXCEPT ![g] = @ \cup {a}]
  /\ ran'  = None
  /\ UNCHANGED <<built, exposed, sorted, valid, pc, target, runtime>>

-----------------------------------------------------------------------------
(* loadFromArtifact and createVmContext                                    *)

\* Mutant of Cleared: the workspace size of the last artifact survives.
ClearedButSize(g, b) ==
  /\ bytes'   = [bytes EXCEPT ![g] = b]
  /\ ctx'     = [ctx EXCEPT ![g] = None]
  /\ fn'      = [fn EXCEPT ![g] = None]
  /\ backend' = [backend EXCEPT ![g] = None]
  /\ UNCHANGED workspace
\* clearRuntimeState, and then bytes b.
Cleared(g, b) ==
  /\ bytes'     = [bytes EXCEPT ![g] = b]
  /\ ctx'       = [ctx EXCEPT ![g] = None]
  /\ fn'        = [fn EXCEPT ![g] = None]
  /\ workspace' = [workspace EXCEPT ![g] = None]
  /\ backend'   = [backend EXCEPT ![g] = None]

LoadFromArtifact(g) == \E a \in kept[g] :
  /\ Idle(g) /\ valid[g]
  /\ Cleared(g, a)
  /\ pc'  = [pc EXCEPT ![g] = "context"]
  /\ ran' = None
  /\ UNCHANGED <<shape, target>>

\* vmContext_ owns the context before any module is in it.
CreateContext(g) ==
  /\ pc[g] = "context"
  /\ ctx' = [ctx EXCEPT ![g] = Bare]
  /\ pc'  = [pc EXCEPT ![g] = "modules"]
  /\ ran' = None
  /\ UNCHANGED <<shape, target, bytes, fn, workspace, backend>>

\* The HAL module and the bytecode module, which refers to the bytes.
RegisterModules(g) ==
  /\ pc[g] = "modules"
  /\ ctx' = [ctx EXCEPT ![g] = bytes[g]]
  /\ pc'  = [pc EXCEPT ![g] = "resolve"]
  /\ ran' = None
  /\ UNCHANGED <<shape, target, bytes, fn, workspace, backend>>

\* The function, and, back in loadFromArtifact, the backend of the handle.
ResolveFunction(g) ==
  /\ pc[g] = "resolve"
  /\ fn'      = [fn EXCEPT ![g] = ctx[g]]
  /\ backend' = [backend EXCEPT ![g] = bytes[g].backend]
  /\ pc'      = [pc EXCEPT ![g] = "idle"]
  /\ ran'     = None
  /\ UNCHANGED <<shape, target, bytes, ctx, workspace>>

\* Mutant of LoadFails: what createVmContext left half built stays.
LoadFailsUncleared(g) ==
  /\ pc[g] \in {"context", "modules", "resolve"}
  /\ pc'  = [pc EXCEPT ![g] = "idle"]
  /\ ran' = None
  /\ UNCHANGED <<shape, target, runtime>>

LoadFails(g) ==
  /\ pc[g] \in {"context", "modules", "resolve"}
  /\ Cleared(g, None)
  /\ pc'  = [pc EXCEPT ![g] = "idle"]
  /\ ran' = None
  /\ UNCHANGED <<shape, target>>

-----------------------------------------------------------------------------
(* getWorkspaceSize and execute                                            *)

GetWorkspaceSize(g) ==
  /\ Idle(g)
  /\ ctx[g] \in Artifact
  /\ ctx[g].need # Dynamic
  /\ workspace' = [workspace EXCEPT ![g] =
                     IF @ = None \/ ctx[g].need > @ THEN ctx[g].need ELSE @]
  /\ ran' = None
  /\ UNCHANGED <<shape, pc, target, bytes, ctx, fn, backend>>

\* Mutant of RoomFits: a workspace of exactly the size needed is too small.
RoomExceeds(g, w) == workspace[g] = 0 \/ (w # None /\ w > workspace[g])

\* The checks execute makes before it invokes the function, for a handle of
\* backend b, a pack of tensors and a workspace of w bytes (None: no buffer).
Loaded(g)         == ctx[g] # None /\ fn[g] # None /\ backend[g] # None
PackFits(g, pack) == pack \cap sorted[g] = Args(g)
RoomFits(g, w)    == workspace[g] = 0 \/ (w # None /\ w >= workspace[g])
Accepts(g, b, pack, w) ==
  /\ Loaded(g)
  /\ b = backend[g]
  /\ workspace[g] # None
  /\ PackFits(g, pack)
  /\ RoomFits(g, w)

Execute(g) == \E b \in Backend, pack \in SUBSET Tensor, w \in 0..MaxSize \cup {None} :
  /\ Idle(g)
  /\ Accepts(g, b, pack, w)
  /\ ran' = [graph |-> g, artifact |-> fn[g], context |-> ctx[g], handle |-> b,
             args |-> Args(g), room |-> IF w = None THEN 0 ELSE w]
  /\ UNCHANGED <<shape, pc, target, runtime>>

-----------------------------------------------------------------------------
(* Moves and destruction.                                                  *)

\* h = std::move(g), first part: members are assigned in the order of their
\* declaration, loadedArtifactBytes_ before vmContext_.
MoveBytes(g, h) ==
  /\ Moves
  /\ g # h /\ Idle(g) /\ Idle(h)
  /\ bytes'  = [bytes EXCEPT ![h] = bytes[g], ![g] = None]
  /\ pc'     = [pc EXCEPT ![g] = "moving"]
  /\ target' = [target EXCEPT ![g] = h]
  /\ ran'    = None
  /\ UNCHANGED <<shape, ctx, fn, workspace, backend>>

\* Mutant of MoveRest: the workspace size is left out of a hand-written move.
MoveRestButSize(g) ==
  LET h == target[g] IN
  /\ pc[g] = "moving"
  /\ ctx'     = [ctx EXCEPT ![h] = ctx[g], ![g] = None]
  /\ fn'      = [fn EXCEPT ![h] = fn[g], ![g] = None]
  /\ backend' = [backend EXCEPT ![h] = backend[g], ![g] = None]
  /\ built'   = [built EXCEPT ![h] = built[g], ![g] = {}]
  /\ exposed' = [exposed EXCEPT ![h] = exposed[g], ![g] = {}]
  /\ sorted'  = [sorted EXCEPT ![h] = sorted[g], ![g] = {}]
  /\ valid'   = [valid EXCEPT ![h] = valid[g], ![g] = FALSE]
  /\ kept'    = [kept EXCEPT ![h] = kept[g], ![g] = {}]
  /\ pc'      = [pc EXCEPT ![g] = "idle"]
  /\ target'  = [target EXCEPT ![g] = None]
  /\ ran'     = None
  /\ UNCHANGED <<bytes, workspace>>

\* The context and all members after it; g then goes out of scope.
MoveRest(g) ==
  LET h == target[g] IN
  /\ pc[g] = "moving"
  /\ ctx'       = [ctx EXCEPT ![h] = ctx[g], ![g] = None]
  /\ fn'        = [fn EXCEPT ![h] = fn[g], ![g] = None]
  /\ workspace' = [workspace EXCEPT ![h] = workspace[g], ![g] = None]
  /\ backend'   = [backend EXCEPT ![h] = backend[g], ![g] = None]
  /\ built'     = [built EXCEPT ![h] = built[g], ![g] = {}]
  /\ exposed'   = [exposed EXCEPT ![h] = exposed[g], ![g] = {}]
  /\ sorted'    = [sorted EXCEPT ![h] = sorted[g], ![g] = {}]
  /\ valid'     = [valid EXCEPT ![h] = valid[g], ![g] = FALSE]
  /\ kept'      = [kept EXCEPT ![h] = kept[g], ![g] = {}]
  /\ pc'        = [pc EXCEPT ![g] = "idle"]
  /\ target'    = [target EXCEPT ![g] = None]
  /\ ran'       = None
  /\ UNCHANGED bytes

\* ~Graph: members are destroyed in reverse order, the context before the bytes.
Destroy(g) ==
  /\ Idle(g)
  /\ built[g] # {} \/ valid[g]
  /\ Cleared(g, None)
  /\ built'   = [built EXCEPT ![g] = {}]
  /\ exposed' = [exposed EXCEPT ![g] = {}]
  /\ sorted'  = [sorted EXCEPT ![g] = {}]
  /\ valid'   = [valid EXCEPT ![g] = FALSE]
  /\ kept'    = [kept EXCEPT ![g] = {}]
  /\ ran'     = None
  /\ UNCHANGED <<pc, target>>

-----------------------------------------------------------------------------
Next == \E g \in Graph :
  \/ Build(g) \/ Expose(g) \/ Validate(g) \/ Compile(g)
  \/ LoadFromArtifact(g) \/ CreateContext(g) \/ RegisterModules(g)
  \/ ResolveFunction(g) \/ LoadFails(g)
  \/ GetWorkspaceSize(g) \/ Execute(g)
  \/ \E h \in Graph : MoveBytes(g, h)
  \/ MoveRest(g) \/ Destroy(g)

Spec == Init /\ [][Next]_vars

-----------------------------------------------------------------------------
(* Properties.                                                             *)

\* An invocation runs the function of the artifact that is in the context, on a
\* handle of the artifact's backend, with room for its workspace: no stale
\* function, backend or workspace size survives a load, a failed load or a move.
ExecuteSound == ran # None =>
  /\ ran.artifact = ran.context
  /\ ran.handle = ran.artifact.backend
  /\ ran.artifact.need # Dynamic /\ ran.room >= ran.artifact.need

\* A caller that passes the tensors an artifact was compiled for, and the
\* workspace it needs, can execute it as long as it is loaded, and passes what
\* its function takes ("that artifact remains executable until a later
\* loadFromArtifact() replaces it", compileToArtifact).
RemainsExecutable == \A g \in Graph :
  Idle(g) /\ Loaded(g) /\ workspace[g] # None =>
    /\ Accepts(g, ctx[g].backend, ctx[g].sig, ctx[g].need)
    /\ Args(g) = ctx[g].sig

\* The bytes a context refers to are alive as long as it is ("keep it alive for
\* as long as the VM context is alive", loadedArtifactBytes_).
BytesOutliveContext == \A g \in Graph :
  ctx[g] \in Artifact => \E h \in Graph : bytes[h] = ctx[g]

-----------------------------------------------------------------------------
(* The inductive invariant.                                                *)

Unloaded(c, f, w, b) == c = None /\ f = None /\ w = None /\ b = None

\* All members agree that v is loaded, or that nothing is.
Agree(v, c, f, w, b) ==
  IF v = None THEN Unloaded(c, f, w, b)
  ELSE c = v /\ f = v /\ b = v.backend /\ w \in {None, v.need}

Coherent(g) ==
  /\ (target[g] # None) <=> (pc[g] = "moving")
  /\ Idle(g) => Agree(bytes[g], ctx[g], fn[g], workspace[g], backend[g])
  /\ pc[g] = "context" => bytes[g] # None
                          /\ Unloaded(ctx[g], fn[g], workspace[g], backend[g])
  /\ pc[g] = "modules" => bytes[g] # None /\ ctx[g] = Bare
                          /\ Unloaded(None, fn[g], workspace[g], backend[g])
  /\ pc[g] = "resolve" => bytes[g] # None /\ ctx[g] = bytes[g]
                          /\ Unloaded(None, fn[g], workspace[g], backend[g])
  /\ pc[g] = "moving"  =>
       /\ target[g] # g /\ pc[target[g]] = "idle"
       /\ \A h \in Graph \ {g} : target[h] \notin {g, target[g]}
       /\ bytes[g] = None
       /\ Agree(bytes[target[g]], ctx[g], fn[g], workspace[g], backend[g])

Inv == TypeOK /\ ExecuteSound /\ \A g \in Graph : Coherent(g)

-----------------------------------------------------------------------------
(* The abstract specification this one implements.                         *)

serviceLoaded == [g \in Graph |-> IF backend[g] = None THEN None ELSE fn[g]]
serviceSized  == [g \in Graph |-> workspace[g] # None]

Service == INSTANCE GraphService WITH loaded <- serviceLoaded, sized <- serviceSized

\* The members of Graph, set by different calls and left by failing ones, keep
\* the promise of GraphService.
ImplementsService == Service!Spec
=============================================================================
