# A verification project for fusilli

Fusilli is a header-only C++ graph API over the IREE compiler and runtime. A
program builds a `Graph` of tensor operations, validates it (which infers the
missing properties of tensors and fixes the order of the arguments), compiles it
to a VMFB artifact through files in a cache directory, loads the artifact onto a
device and executes it on the caller's buffers. This directory holds TLA+
modules that model its stateful core, TLC configurations that check them, and
TLAPS proofs of what matters most.

## Inventory

| component | source (`include/fusilli/`) | state | operations | hard behaviour |
|---|---|---|---|---|
| compile cache | `graph/graph.h`, `support/cache.h` | `Graph::cache_`, four files per directory, the directory | `compileToArtifact`, `getCompiledArtifact`, `validateCache`, `generateCompiledArtifact`, destruction, move, rename | a call is many file-system effects and may fail after any of them; graphs whose names sanitise alike share a directory; what is on disk outlives what is in memory |
| graph runtime | `graph/graph.h`, `backend/runtime.h` | `vmContext_`, `loadedArtifactBytes_`, `vmFunction_`, `workspaceSize_`, `vmInputListCapacity_`, `loadedBackend_`, `isValidated_` | `validate`, `loadFromArtifact`, `getWorkspaceSize`, `execute`, move, destruction | a load fails half way; the graph is edited after it was loaded; the context refers to bytes another member owns |
| shared instance | `backend/runtime.h`, `backend/handle.h` | once flag, `weakInstance`, instance reference counts | `createSharedInstance`, `Handle::create`, handle destruction | threads race to create, and destroy, one process-wide object |
| compile sessions | `backend/compile_session.h` | the singleton `CompileContext`, the compiler library, sessions | `CompileContext::create`, `createSession`, `compile`, destruction | the library is initialised once; a failing initialisation; objects outliving the library |
| compile command | `backend/compile_command.h`, `support/external_tools.h` | none | `build`, `toString`, `writeTo`, `execute` | failure of an external process |
| tensor attributes | `attributes/tensor_attributes.h` | dims, strides, virtual and scalar flags | setters, `validate`, `getPhysicalDim`, permutations, stride generation | broadcast, unit dimensions, layouts |
| nodes | `node/*.h` | attributes | `preValidateNode`, `inferPropertiesNode`, `postValidateNode` | shape and type inference over ranks, padding, dilation, groups; what an earlier call inferred |
| node attributes, context | `attributes/*.h`, `graph/context.h` | ports, parameters, default data types | setters, `fillFromContext` | a type is filled in at another time than it is compared |
| asm emitter | `support/asm_emitter.h` | none | text emission | names that collide after filtering |
| data buffers | `backend/buffer.h`, `backend/runtime.h`, `support/int_types.h` | the reference of a Buffer to a buffer view | `allocate`, `import`, `allocateRaw`, `read`, moves; the argument list of `execute` | reference counts over shared views and every early return; elements of half a byte |
| samples | `samples/` | none | a graph, its buffers, one execution | the library must go on accepting them |
| logging, memory streams, processes, dynamic loading | `support/*.h` | sinks, handles | | |

How they interact: `Graph::compile` calls `compileToArtifact`, which goes through
the compile cache to a `CompileSession` or a `CompileCommand` and reads the
output file back, and then `loadFromArtifact`, which needs the shared instance
and device of a `Handle`. `execute` depends on what `validate` sorted, on what
the load cached and on the query of the workspace size.

## The modules

| module | models | lines |
|---|---|---|
| `CompileCache` | `compileToArtifact` and everything of the cache behind it | 446 |
| `CompileService` | what a caller of `compileToArtifact` may rely on, with no cache in sight | 62 |
| `CompileCache_proofs` | its theorems, and the refinement of `CompileService` | 1433 |
| `GraphRuntime` | the runtime members of `Graph`: load, query, execute, move, destroy | 376 |
| `GraphService` | what the API comments of loading and executing promise | 58 |
| `GraphRuntime_proofs` | its theorems, and the refinement of `GraphService` | 750 |
| `AsmEmitter` | the templates of `asm_emitter.h` as SSA statements | 352 |
| `GraphBuild` | builders, names, `validate`, and the program that `AsmEmitter` makes of the graph | 349 |
| `GraphBuild_proofs` | type correctness, that made-up names never meet, that programs define before they use and write each result once | 5080 |
| `SharedInstance` | `Handle`, what is made for it, and the VM instance all handles share | 355 |
| `CompileContext` | the compiler library and the compile sessions | 290 |
| `ProcessRuntime` | the two above, run by the same threads | 76 |
| `SharedInstance_proofs`, `CompileContext_proofs`, `ProcessRuntime_proofs` | the parts' invariants, and their transfer to the composition | 222, 217, 178 |
| `TensorLayout` | dims, strides, dynamic dims and permutations of one tensor | 156 |
| `ShapeInference` | `validate` on dims, strides and data types, node by node, over several calls | 726 |
| `ShapeInference_proofs` | that layouts, dims and data types of accepted graphs are right, and that a second call accepts them again, for tensors of any rank | 6908 |
| `Samples` | the graphs that the programs of `samples/` build, and the buffers they bring | 489 |
| `DeviceBuffer` | Buffers, their references, and the arguments of `execute` | 478 |
| `DeviceBuffer_proofs` | that nothing held is released, what is lost, that the argument list is as long as it was counted, that a read is exact | 4362 |

`MC*` modules hold the constants and the symmetry of the runs. Operators whose
comment begins with "Mutant of" are plausible bugs of the definition below them;
no specification uses them. Each is put in the place of the definition it names
to see that a property notices.

### CompileCache

`pc[g]` is where a call of `compileToArtifact` on the graph `g` stands, `req[g]`
what it was asked (`emitAsm`'s text, backend, `remove`), `result[g]` what the
latest call returned. `home[g]` is the directory that the sanitised name selects,
`cache[g]` is `cache_`, `file` the four files of each directory and `dirs` the
directories that exist. There is one action per effect on the file system:

| action | code (`graph.h`) |
|---|---|
| `Begin` | entry of `compileToArtifact`, with what `emitAsm` gives |
| `CheckHit`, `CheckMiss`, `CheckFindsNoFile`, `CheckBuildFails` | `validateCache` and the branches `getCompiledArtifact` takes on it |
| `CreateFile`, `CreateFails` | the four `CacheFile::create`, in order |
| `WriteInput`, `WriteCommand`, `Execute`, `GenerateFails` | the rest of `generateCompiledArtifact`; a failure destroys the files of the call if `remove` |
| `Commit` | `cache_ = ...`, which destroys the old `CachedAssets` after the new files were written |
| `Read` | `readFileBytes` of the output |
| `Rename`, `Destroy`, `MoveAssign` | `setName`; destruction; move assignment followed by the end of the source |

`Serialised` is an assumption on callers: no two calls on one directory at the
same time. The code has no lock there, so what needs the assumption says so, and
what holds under any overlap (`TypeOK`, `NoOrphanFiles`, `CacheLivesWithGraph`)
is checked or proved without it. `NeverAnotherArtifact` and `ImplementsService` are
among the former: they say what partial failures, moves and removals leave of one call for
the next, and nothing of calls that overlap in a directory, for which they are false
(with `Serialised = FALSE` TLC finds a call that returns what another one compiled
between its check and its read).

### GraphRuntime

The variables are the members of `Graph` of the same names or, for `built`,
`exposed` and `sorted`, its sets of tensors; `kept[g]` are the artifacts the
caller has of `g`, `pc[g]` where `loadFromArtifact` or a move assignment stands,
and `ran` the invocation of the last step. `Build`, `Expose` and `Validate`
change the graph; `Compile` gives the caller an artifact of it;
`LoadFromArtifact` clears what was loaded and takes the bytes, and then
`CreateContext`, `RegisterModules`, `ResolveFunction` or `LoadFails` follow as in
`createVmContext`; `GetWorkspaceSize` and `Execute` are the functions of those
names, with all their refusals in their guards; `MoveBytes` and `MoveRest` split
the defaulted move assignment where its order matters; `Destroy` is `~Graph`.

### GraphBuild and AsmEmitter

A plan is a sequence of builder calls. The caller makes inputs (`NewTensor`),
follows a plan (`AddNode`: the naming that every `Graph::conv...`, `layernorm`,
`pointwise`, `sdpa`, `customOp` does, and the node it appends), names things
(`SetName`), marks results (`SetOutput`) and validates in between, in any order.
A name is a sequence of parts, so that concatenation and its accidents are
visible. `Validate` has the check of unique symbols, the fill of the sorted sets
(which stays when a node refuses afterwards) and those refusals of the nodes
that no shape decides; the others are a choice to refuse at any time. `Program` is what
`emitAsm` writes of an accepted graph: a statement has the values it defines and
the values it uses.

### SharedInstance, CompileContext, ProcessRuntime

`SharedInstance` follows a thread through `Handle::create` (`Create`,
`RegisterDrivers`, `CheckStatus`, `Lock`, `Peek`, `CreateInstance`,
`RegisterTypes`, `Publish`, `Unlock`, `InstanceFails`, `CreateDriver`, `CreatePool`,
`PoolCreationFails`, `CreateDevice`, `DeviceFails`, `CreateDeviceGroup`) and through
the destructor (`Destroy`, `DropInstance`, `ReleaseInstance`), which takes no
mutex. `Move` moves a handle between threads. `hal[t]` are the driver, pool, device
and group that the thread's Handle, or its `create`, has to release; what the
last one who could release it did not is `stranded`. `PoolFails` and `TypesFail`
say whether the two steps can fail whose failure leaks.
The last `shared_ptr` and the release of the instance are two steps, since
another thread may lock the `weak_ptr` between them.

`CompileContext` follows a thread through `CompileContext::create` (`Lock`,
`CheckGlobal`, `MakeContext`, `LoadLibrary`, `LoadSymbols`, `Initialize` and the
failures), `CompileSession::build` (`CreateSession`, `AddFlags`, `BuildFails`),
`compile` (`CreateInvocation`, `OpenSource`, `ParseSource`, `RunPipeline`,
`OpenOutput`, `EmitBytecode` and a failure of each) and `DestroySession`;
`native[t]` are the objects of the library that its session owes a destruction.

`ProcessRuntime` instantiates both with the same threads. A thread is in at most
one of the two, which is why the two mutexes are never held together.

### TensorLayout and ShapeInference

`TensorLayout` translates the helpers of `tensor_attributes.h`: stride orders,
strides from dims (contiguous, channels-last, like another tensor), broadcast
axes, `ValidPhysical` (the check of cumulative products), the permutations
between logical and physical, and `PhysicalDim`. `std::sort` on equal strides is
a choice of any order it may give.

`ShapeInference` has one case per kind of node or chain of nodes: `SetTensor` is
an edit by the caller, and a call of `validate` is `Begin`, a `ValidateNode` or
`RefuseNode` per node (`preValidateNode`, `inferPropertiesNode`,
`postValidateNode` of the class), and `Conclude`. What a call infers stays in
the tensors when the call fails, and is what the next call checks. A tensor also
has its data type (`NotSet` until the caller or `FilledFromContext` gives one),
its flags and the axes that are dynamic; a case has the two types of the graph's
context. A mode is a parameter of the node, as far as a check depends on it.

### Samples

Each operator with the name of a source file is the graph that file builds: its
nodes with their parameters, the attributes of its tensors, and for each tensor
outside the graph the data type of the buffer the program allocates or imports
for it. A file that executes its builder on several types, shapes or modes
(`GENERATE`, a table) is a set of programs. `Programs` is a part of the cases
of the `ShapeInference` run, with their outputs set or unset between calls.

### DeviceBuffer

`holds[s]` is the view of the Buffer `s`, `view` and `storage` are IREE's buffer
views and buffers with their reference counts, `lent` the views whose maker,
outside the library, still has its own reference.

| action | code |
|---|---|
| `Allocate`, `AllocateRaw`, `Import` | `Buffer::allocate`, `allocateRaw`, `import` (`runtime.h`) |
| `AllocateRawFails` | the storage of `allocateRaw` is made and its view is not |
| `Move`, `Destroy` | move assignment and construction, the deleter of `bufferView_` (`buffer.h`) |
| `Lend`, `TakeBack` | a caller makes a view and releases it |
| `Execute`, `PushArg`, `SkipArg`, `PushWorkspace`, `PushFence`, `Invoke` | `Graph::execute`, one action per tensor of the graph's sorted outputs and inputs, and per further entry of the VM list |
| `ExecuteFails`, `PushFails` | each of its early returns |

A graph is the sequence of its sorted outputs and inputs, with the flags that
`execute` looks at: a virtual output and a scalar input are passed over (`Passed`). A call
has the tensors of now, the tensors of the time the graph was loaded, which an edit may have
made others, and the Buffers of the variantPack, which may lack one or have one too many.
`ListCapacity` translates the loops of `createVmContext` that count the arguments of the loaded
graph, and not those of `execute` that push them: that the two agree is `CapacityExact`.
`Invoke` writes each output that was passed, and the workspace.

`Download` is `Buffer::read`; `Pack`, `Unpack`, `Clamp` and `SignExtended` are
`Int4`, whose constructor takes an `int8_t`: a value has those 8 bits before it is
clamped (`Given`), and the conversion to them is the caller's. Buffers of the call stay as they are while it runs; all others may be
moved, assigned, imported and destroyed, by other threads too. The properties
compare the counts with the references that exist (`ViewHolders`,
`StorageHolders`).

## The runs

| run | instance | states | what it shows |
|---|---|---|---|
| `CompileCache` | 2 graphs, 1 directory, 2 inputs, 2 backends, `remove` either way, serialised | 40,953 | the inductive invariant; what is on disk is one artifact with its input and command, no call returns another's artifact, a fresh result is exact; every step is one of `CompileService` |
| `CompileCacheRemove` | 2 graphs, 2 directories, 2 inputs, 1 backend, `remove` always, calls overlap | 112,297 | no file is left without a user |
| `CompileCacheTorn` | 1 graph, 2 directories, 2 inputs, `remove` never | violated | `ResultExact`: after a failed recompilation an empty or partial output is a cache hit |
| `GraphRuntime` | 2 graphs, 2 backends, 1 tensor, 2 kept artifacts, moves, no edits | 401,015 | coherence of the members, `ExecuteSound`, `RemainsExecutable`; every step is one of `GraphService`; that an edit makes `execute` take other arguments cannot happen here, and is the next run |
| `GraphRuntimeStale` | 1 graph, 2 tensors, edits | violated | `RemainsExecutable`: editing and validating a loaded graph changes what `execute` takes |
| `GraphRuntimeDangling` | 2 graphs, moves | violated | `BytesOutliveContext`: assignment releases bytes before the context that refers to them |
| `GraphBuild` | every builder and template, up to 2 nodes, 2 inputs, 1 user name | 1,214,785 | `SingleAssignment`, `DefinedBeforeUse`, `ResultsWritten`, `DefaultNamesUnique` |
| `GraphBuildRepeat` | one node that takes a tensor twice | violated | `SingleAssignment` |
| `ProcessRuntime` | 2 threads, 2 instances, 2 contexts, 2 calls and 1 build each | 409,229 | one live instance, one context, `NothingStranded`, no leaks, every call returns |
| `ProcessRuntimePartial` | the same, smaller | violated | `ContextReady`: a second `create` returns the context whose symbols failed to load |
| `ShapeInference` | all kinds of node and all programs of `samples/`, 841 initial graphs; ranks up to 4, dims up to 4 apart from the programs | 148,145 | `LayoutFaithful`, `RuntimeSizesFaithful`, `ShapesFollow`, `MixedProductsBatched`, `Revalidates`; `SamplesAccepted`, `SampleBuffersFit` |
| `DeviceBuffer` | 3 Buffers, 2 views, 2 storages, 5 requests, 2 graphs with a virtual and a scalar tensor, 1 call at a time, 1 lost reference | 390,818 | `HeldIsAlive`, `NothingElseLost`, `CapacityExact`, `ReadExact` |

Why the bounds are enough. The cache compares an input and a command by
equality, so two values of each tell a hit from a miss in every way; two graphs
and one directory give sharing, two directories renames. The main run has one
directory, because the refinement is slow to check with two; serialised calls in
two directories rest on the proofs, which are for all constants. In
`GraphRuntime` two artifacts that differ in backend or workspace are enough for
anything stale to show; the artifacts a caller keeps and the size of a
workspace are bounded by `MaxKept` and `MaxSize`. `GraphBuild` takes two nodes
because a collision of names needs two symbols, and one user name that is also a
made-up name (`pointwise_1`) so that it can happen; three nodes add depth, not a
new kind of pair. `ProcessRuntime` bounds the calls by `MaxCalls` and `MaxBuilds`:
two calls per thread give a create after the release of the instance, against
another thread's create and destructor; two instances tell a reused one from a
new one. In `ShapeInference` a case has a few values per tensor: a fitting
one, one that does not fit, an unset one and a broadcast or channels-last one;
every case is accepted in some state but the training mode of rmsnorm, which the
code always refuses. The sizes of a dynamic dim at run time are 1, 2 and 3 beside
the representative. In `DeviceBuffer`, two views and three Buffers give a view
that two Buffers hold while the third one's is assigned over; a call is of one of
two graphs (a virtual output, an output and an input; an output and a scalar), and its list was
counted for that graph or for a shorter one, as after an edit, with one Buffer perhaps in two
places, and an optional workspace; the
requests have an odd number of 4-bit elements, values to clamp, two bytes per
element, a number of elements that differs from the shape's, and a shape whose
size wraps in `size_t`. `Width` is 5 bits and `Capacity` 8 bytes, so that the
wrap is within reach; `MaxLost` bounds the failures that leak.

Where deadlock is not checked, the system may stop: `GraphBuild` when the plan is
done and everything valid, the process when every thread has used up its calls.

### Fairness

Only `ProcessRuntime` has a liveness property, `EveryCallReturns`, under weak
fairness of every thread's steps inside `create`, a destructor, `build` and
`execute`: the operating system runs each thread that can run, and the code has
no other waits than the two mutexes. Keeping a handle is not forced to end
(`at[t] # "handle"`), nor is beginning a call. `std::mutex` promises no order;
weak fairness suffices because the other threads begin finitely many calls, so
the mutex is in the end free for good. With callers that never stop it would
take strong fairness of `Lock`, which the code does not justify.

## The proofs

TLAPS checks the 40 theorems listed in PROJECT.json, and the lemmas they rest
on, for every value of the constants that their modules'
assumptions admit. Each safety theorem is `Spec => []P` from an inductive
invariant, with one step per action.

* **CompileCache.** Under `Serialised`, `Inv` is `TypeOK` with `Exclusive` (two
  calls in progress touch different directories), `Progress` (what a call has put
  into its directory at each point), `DiskConsistent`, `NeverAnotherArtifact` and
  `FreshExact`. `DiskConsistent` alone is not inductive: `Execute` writes an
  output, which is consistent only because `Progress` has the call's own input
  and command in the files, and those stay because of `Exclusive`. Without
  `Serialised`, `KeepInv` (nobody removes) gives that the files of every cache
  stay, `RemoveInv` (everybody removes) gives `NoOrphanFiles`, and `TypeOK`
  needs neither.
  The refinement: under `Serialised` each step maps to a step of
  `CompileService` or a stutter. `Begin` is `Ask`, `Read` is `Succeed` by `Inv`, failures are
  `Fail`, and destruction and moves are `Forget`.
* **GraphRuntime.** `Inv` is `TypeOK`, `ExecuteSound` and `Coherent` for each
  graph: `Agree` between calls, and what is set and what is not at each step of a
  load and of a move. `RemainsExecutable` needs `Fits` in addition (the sorted sets
  are those of the artifacts the caller keeps) and `~Edits`;
  `BytesOutliveContext` follows from `Inv` under `~Moves`. The violated runs show
  that neither assumption can go. The refinement of `GraphService` maps
  `loaded` to the function while the backend is set, and `sized` to a workspace size that is
  there.
* **GraphBuild, names.** `IInv` is `TypeOK` with `NodesNumbered` (the made-up name of
  the k-th node is its kind and k-1) and `TensorsNamed` (a made-up tensor name
  is its node's name and a port). The lemma the proof turns on is that kind, number
  and port can be read back from such a name, which is why `PlanAssumption`
  demands that no kind is a proper prefix of another and the ports of a call differ.
  The code's kinds satisfy it.
* **GraphBuild, programs.** `DefinedBeforeUse` and `ResultsWritten` are about text that
  is concatenated, so they are read off its pieces. `Adds(p, K, A)` says that each
  statement of the piece `p` uses only values of `K` or of earlier statements of `p`,
  and that `p` leaves the values `A` behind; two pieces that fit compose, and so
  do a sequence of pieces one after another. A lemma per template of `AsmEmitter` establishes it
  for a template, under any names, and `EmitNodeAdds` for a node with the
  conversions of its operands around it. That the pieces fit is `BuildInv`: `TypeOK`; every tensor
  that is no input is an output of a node (`EachMade`); every operand of a node is an input
  of the graph or an output of a node before it (`EachGiven`); and what `validate` found
  holds until the next edit (`AsValidated`). TLC finds the three of them true on the
  run `GraphBuild`. Neither property is inductive, since a program is made
  from scratch of the graph there is. `ResultsWritten` needs in addition
  that every statement of a node defines a value (`Plain`), so that the only
  writes are those of `GraphPost`, and that accepted names are unique, so that no
  two of them are alike.
* **ProcessRuntime.** The parts are proved alone. `SharedInstance` needs `Placed`
  (places, mutex and ownership agree), `Shared` (whoever holds an instance holds
  the one of the `weak_ptr`; whoever makes one found that nobody holds any; a dying
  one has no other owner), `Owned` and `Equipped` (the HAL objects at each place, no
more and no less), from which `NothingStranded` follows: nothing is left but the
two known leaks, each only if its constant allows the failure. `CompileContext` needs `Guards`, `Global`
  and `Natives` (the library's objects at each place, no more and no less). The
  composition implements each part's specification (`PartsCorrect`), so the
  parts' theorems hold of it. `ContextReady` is proved if the library has all its
  symbols; the run `ProcessRuntimePartial` refutes it otherwise.
* **DeviceBuffer.** `HeldIsAlive` is proved by counting. A view has as many
  holders as there are Buffers that point to it, its maker, and places of the
  list that have it; a storage those of the views on it and of the list. Each is the
  cardinality of a set that a step extends or reduces by one element, and the
  count changes by as much; the return of `execute` removes all places of the list
  at once, and with the last holder of a view one view of its storage. `IInv` adds to
  `HeldIsAlive` that counts and links fit (`Memory`), and what a call is at
  (`Called`: its Buffers keep their views, one reference was pushed per step).
  `CapacityExact` needs an invariant of its own, `Progressed`: the list has one entry for each
tensor before `next` that is passed, and one for each step after the tensors. That set is extended
by one element by `PushArg` and by none by `SkipArg` (`OneFurther`), and at the end it is what
the two loops of `createVmContext` counted, outputs and inputs apart. `NothingElseLost` compares `lost` with two sums
  over all views and storages; each term is a count less its holders, at least 0
  by `HeldIsAlive`. A step changes the terms of at most a few members, the sum by as
  much (`LossesAfter`), and `Balanced` is the result of adding the four ways to lose a
  reference. `ReadExact` needs `Written`: a view that is alive shows a storage
  whose bytes decode to what was given, and no other view that is alive shows that
  storage, so that a function that writes through one view changes what no other
  shows; a call writes the views of its outputs and of its workspace, which by
  `Progressed` are there. The lemmas below it say that an element that is packed in half a byte, or
  in two, is the one that is unpacked, and that a request that fits `Capacity`
  has a size that did not wrap. `TypeOK` comes last: that the counts are numbers
  rests on all of the above.
* **ShapeInference, layouts.** `LayoutFaithful` is about sorting. A stride that
  passes the check of `ValidPhysical` is the product of the dims of the faster
  axes, so axes with equal strides are unit ones but for one, and any order that
  `std::sort` may leave them in is a permutation that is inverted by the other one
  and in which the row-major address of a coordinate is its address by strides.
  `EverySizeFaithful` says the same of every size a dynamic dim may have, of
  which `RuntimeSizesFaithful` has three. The invariant is `AcceptedLaidOut`, which
  the last loop of `validate` establishes and every setter gives up with `accepted`.
* **ShapeInference, dims.** For each kind of node but the pointwise and the custom ones a lemma says
  that what it infers and accepts `Follows`: for a reduction that each axis is kept or reduced; for
  a norm that its output, its statistics, its scale and its bias have their shapes, of which
  the last two are compared before they are inferred (`ScaleShape`) and the others
  after (`NormShapes`, `BatchNormShapes`); another that a node fills what is unset and changes nothing
  that is set (`Filled`). The invariant `Validated` has both: what was found
  of the nodes before `at` is still true, since it is about dims that are set,
  when later nodes and later calls have filled what was left. `ShapesFollow`
  is not inductive without it: a node that was validated is checked against
  tensors that the nodes after it write.
* **ShapeInference, types.** `MixedProductsBatched` depends on when a type is filled.
  `Settled` says what a validated node leaves for later: where it left no type
  the context had none for that tensor, what is forced is forced, and the
  operands of a product have one type or are batched. The theorem needs that virtual tensors
  are outputs (see the assumptions): only then has the context one type for the
  operands it gives any.
* **ShapeInference, a second call.** `Revalidates` rests on `AllAgain`: every node that
  was passed passes `Again`. `Again` says that the dims and strides that the node's checks look
  at are set (`Known`), that its last checks hold, and that its first checks hold if the
  types of a product fit and a norm's input tells its axes apart (`Regular`). A later node
  changes nothing that is set, so `Again` stays (`KnownStays`, `AgainAlike`); that a node which
  was just accepted has it is one lemma per kind of node (`ValidatedAgain`). The two that need
  an argument: the stride inferred for the scale of a norm is in the format that the check
  asks for, since an order that preserves the strides of a contiguous or channels-last
  input with distinct strides is the one order of that format (`OrderIsFormat`; it
  fails for equal strides and for a stride of 0); and the operands of a product have strides when
  its turn comes (`OperandsDense`), since no node but a pointwise one leaves a tensor with dims
  and without strides (`InferredDense`). An accepted graph has every dim, stride and type set, so that
  a second call has nothing to infer (`SecondCallKeeps`), and none of its nodes can be refused
  (`AcceptedRegular`).

The library's induction theorems take an operator and cannot be used. Sums and
products are folds over finite sets, and are proved by the smallest set for which
the claim would fail (`SmallestSet`); the same is done for prefixes of a
sequence.

What the theorems assume of the constants, beyond their types, and why the code
justifies it: `Serialised` where named (callers; there is no lock); `PlanAssumption`
(kinds and ports as in `graph.h`);
`BuildersAssumption` (each call of a plan is one that the builders and nodes admit:
`preValidateNode` in `pointwise_node.h:68` refuses a mode with another number of inputs, the one in
`custom_op_node.h:56` a custom op without inputs or outputs; a custom op has
at most three of each, which is a bound of the model); of `DeviceBuffer`, that a request's elements are
in the range of their C++ type, that a graph is a sequence of tensors, that Buffers, views and
storages are finitely many, and that no device has half of what `size_t` can count
(`WidthAssumption`: otherwise a size that wrapped would be a size that fits; the theorem on
reads says nothing of such sizes); of
`ShapeInference`, that strides and dilations of convolutions are numbers and the strides are not 0
(`CasesAssumption`: the code divides by them and checks no sign) and that the
outputs of a node are tensors its builder made, and virtual tensors are outputs
(`BuiltAssumption`: `outputTensor`, `graph.h:646`; the setter of the flag is public, and a
caller who makes an input virtual is outside of the theorem on types: such an
input is given the intermediate type of the context), and that an operand of a product
that no earlier node infers has strides whenever the caller gave it dims
(`OperandsAssumption`: `checkBatchDims`, `matmul_node.h:240`, asks for the order of its
axes, and `tensor_attributes.h:738` asserts that the strides are there). TLC evaluates each
assumption on the constants of its runs.

Only model-checked:

* `SingleAssignment` of `GraphBuild`: it is false for arbitrary names of the caller
  (`GraphBuildRepeat` is one way), so it rests on the names of the run.
* `SamplesAccepted` and `SampleBuffersFit`, which are about the programs of
  `samples/`, that is about constants of a run.
* `EveryCallReturns`: liveness under fairness and `ENABLED` are out of the prover's
  reach.

## What the code does that its text does not say

Five runs end in a counterexample to a sentence of the repository; PROJECT.json
quotes each under "findings". In short:

1. `CompileCacheTorn`: a failed recompilation leaves a truncated output beside
   the new input and command, which the retry takes for a hit.
2. `GraphRuntimeStale`: a graph that is edited and validated again is no longer
   executable with the tensors its loaded artifact was compiled for.
3. `GraphRuntimeDangling`: move assignment replaces the bytes before the context.
4. `GraphBuildRepeat`: a node that takes a tensor twice makes MLIR with one value
   defined twice.
5. `ProcessRuntimePartial`: `CompileContext::create` after a failed `loadSymbols`
   returns the half-loaded context as a success.

Others were met while modelling and have no run:

* If the files of a cache are gone, `validateCache` fails instead of reporting a
  miss, now and at each later call. A hit ignores the `remove` flag of the call; a recompilation after a rename
  leaves the old directory, empty, behind; overlapping calls in one directory can
  return each other's artifacts (this is what `Serialised` excludes).
* Matmul accepts batch dims of which one divides the other (2 and 4). A
  convolution whose filter does not fit infers an extent of 1 or less, since the
  division truncates. A pointwise node never compares the dims of its output with
  its inputs, be they inferred for earlier inputs or set by the caller.
  `ShapesFollow` leaves these three out, each at its place, and custom ops, which
  infer and check no shape.
* LayerNorm and RmsNorm give SCALE and BIAS strides in the order of X's. If X
  has equal strides (X {2,3,1,4}, contiguous, gives SCALE {12,4,12,1}) the result
  is neither contiguous nor channels-last, and a second `validate`, or a second norm
  with this SCALE, refuses it. A stride of 0, which a
  contiguous X has where a dim is 0, mixes the order up as well (X {1,0,3} with the
  strides {0,3,1}). `Revalidates` leaves such inputs out (`TiedNorm`), and its proof shows that
  every other input is accepted again.
* No check of the two gradients of a convolution compares the filter's rank with the
  tensor's, and a product takes the batch dim 1 where the other operand has 0.
  `ShapesFollow` leaves out these two as well; its proof showed them.
* A pointwise output takes the stride of a broadcast input, which the end of
  `validate` refuses. Checks of matmul, the convolution gradients and the scales
  read dims or strides before they are known to be there; the cases give them.
* A matmul compares the types of its operands before those that a custom op makes
  have one: such a product of two types is accepted once and refused by the next
  call (`CustomFed`, `MixedCustomFed`). A type left to the context counts as another
  one than the same type set explicitly, and a product of rank 2 of the two is
  refused.
* A tensor keeps the type it was given while virtual when it becomes an output.
  The dynamic dims of an input are not those of the output, and the two are never
  compared.
* `setName` after `validate` changes the key by which the set of sorted tensors is
  ordered. A scalar literal is written with the width of its value, under the
  type set by `setDataType`. An input that no node takes may have an empty name.
  Name filtering happens after names were checked to be unique, and a custom op named
  `main` defines a second one.
* A failed driver registration's status is consumed by the first error. A raw
  instance is not released if registering the HAL types fails, nor the driver if
  the proactor pool cannot be made, nor the storage of a workspace if its view
  cannot, nor a reference that the argument list cannot take. `NothingStranded` and
  `NothingElseLost` name these four and admit no other.

## What is not modelled, and why

* Ports an operation cannot do without and parameters it must have are there in
  `ShapeInference`; the range of a dropout, compute types and the values of
  scalars are left out, as no shape or type depends on them.
* The text of types, attributes and MLIR bodies in `AsmEmitter`; characters
  within one part of a name, and so what the name filter erases.
* What the programs of `samples/` compute and compare, and the artifacts of those in
  `samples/aot` (`GraphRuntime` has what they do with them). Benchmarks and tests.
* What IREE does on a device: `DeviceBuffer` has its reference counts, and a function
  that writes its outputs and its workspace. The conversions of `half` and `bf16`.
* Logging, memory streams, dynamic loading, the command line of the compiler: wrappers
  without state of their own. Their failures are outcomes of the steps that call
  them.
* Exit-time destruction of the static context, and move assignment of sessions.
* Two threads in one `Graph` object: its members have no lock, so that would be
  a data race; a model gives each object to one caller at a time.

The components, each with its status, and all hazards with the properties that
cover them are in PROJECT.json.

## Plan

Done, in this order: the cache and its service; the runtime and its service;
names and emission; the two process-wide objects and their composition; layouts
and shapes; data types, dynamic dims and scalars in them; the programs of the
samples; buffers and the arguments of a call; the HAL objects of a Handle; the proofs
about buffers, about layouts, dims and types, and about emitted programs.

1. Model: the end of the static compiler context at exit; exact reads of unset
   dims; strides from a layout.
2. Compose `CompileCache` with `GraphRuntime` as `Graph::compile` does, so that
   the bytes a load takes are those a call returned, torn ones included; and
   `GraphRuntime` with `DeviceBuffer`, so that the list's capacity is the one of
   the artifact in the context.
3. Check: the behaviour of equal strides, and that of pointwise outputs, each
   against the comment it disagrees with; three nodes in `GraphBuild` for a
   smaller set of builders.
4. Prove: `SingleAssignment` for names
   that callers may give safely (which takes a condition on names that the code does not check);
   `NoOrphanFiles`-like results for caches that mix flags.
