# Specifications of the HiAI DDK

TLA+ models of the HiAI Foundation DDK (`src/`), the C and C++ library through
which applications build, load and run neural-network models on the NPU. All
source paths below are relative to the repository; the implementation is under
`src/src/framework` and `src/src/infra`.

## 1. The system

| Component | State it keeps | Operations | Talks to |
|---|---|---|---|
| Model manager, C++ API (`model_manager/core`) | the C manager handle, the wrapped listener, the run contexts, the native handles lent to the ROM; `modelManagerMutex_`, `listenerMutex_` | Init, Run, RunAsync, RunAipp, SetPriority, Cancel, DeInit, and the C callbacks | the C runtime layer (calls); the user's listener (callbacks) |
| V1 model manager (`model_manager/compatible`) | the loaded models, task-id counters, the V1 listener | Init, Load, Process, UnLoadModel, Cancel, OnRunDone | the C++ model manager |
| Model runtime, C layer (`model_runtime/core`) | the repository of runtimes with their `dlopen` handles and function tables; model handles tagged with a runtime index | LoadByType, TryBuild, TryRestore, manager create, init, run, deinit, destroy | plug-in libraries, the direct runtime |
| Direct runtime (`model_runtime/direct`) | per object `manager_`, `userListener_`; process-wide `g_callBackMap`, three mutexes, two condition variables; the container of loaded managers | Init, DeInit, destruction, RunAsync, RunAipp, the six ROM callbacks, tensor queries | the ROM (calls and callbacks on foreign threads) |
| Dynamic libraries (`infra/dl_helper`, `util/hiai_foundation_dl_helper.c`) | handle, symbol cache | Init, GetSymbol, Deinit | the loader |
| Compute graph (`graph/core`) | nodes with in and out anchors, edges held at both ends, graph inputs and outputs, per-node store | add, remove and move nodes and edges, insert before and after, sort, prune, bypass | the IR transformers, the builder, the serializer |
| Option records (`model_runtime/core/*_options_v1.c`, `model_builder/om`) | C records of options with arrays they own | create, get, set, destroy; conversion of the C++ options | the runtime layer |
| Operators (`graph/operator*.cpp`) | links by weak pointers, descriptors, subgraph builders | SetInput, register, build a graph | the graph |
| Attributes, tensors (`graph`) | messages, wrappers made once, values with a type of their own | get, set, clone | the graph, persistence |
| Persistence (`graph/persistance`, the serializers) | protobuf messages | save, load | the graph |
| IR transformers (`compatible`) | tables of converters, the stamp of a node | rewrite a node to a version and back | the graph |
| AIPP in the builder (`model_builder/ir/aipp`) | none | fuse chains of image operators, describe their parameters | the graph, custom data of the built model |
| Compatibility of models (`model_runtime/direct/model_compatible`) | the static flag `IS_MERGED`, for all calls of the process | rewrite a model for the ROM at hand before it is restored | the file, the transformers, quantisation, the ROM's version |
| Built model (`model`, `model_runtime/direct`) | buffer or file name, custom data, tensor descriptors | build, restore, save, describe | the runtime layer, the ROM |
| Tensors and AIPP parameters (`tensor`) | buffers over memory of four origins, AIPP parameters | create, get, set, release, convert before a run | the managers, the ROM |
| Layout conversion, half precision (`util/tensor`, `infra/math`) | none | convert arrays of weights | the builder |
| Quantisation (`omg`) | none | convert weights to fewer bits and back | the builder, the compatibility of models |

A call of an application goes down the stack (C++ manager, C layer, direct
runtime, ROM); an asynchronous answer comes up the same stack on a thread of
the ROM. The direct runtime is where the two directions meet: one table,
`g_callBackMap`, holds what every manager of the process waits for, whether
the waiter is a thread blocked in Init (load), a thread blocked in a deleter
(unload) or user code that expects `onRunDone`.

What is hard here:

* **Concurrency.** API threads of several managers, queries of built models and
  the ROM's callback threads share the table, the container and the reference
  counts of the ROM's manager objects. Callbacks notify condition variables
  without holding the mutex of the waiter.
* **Failure.** The ROM may refuse a request, never answer, answer late or
  twice, answer with an error, or announce that its service died. Init and
  unload give up after ten seconds.
* **Ordering.** An answer may overtake the registration of its request, or
  arrive after the manager was de-initialised, initialised again or destroyed.
* **Lifetime.** The deleter of a ROM manager captures `this`, and a query may
  be the last to drop the manager. The C records, tensor buffers, descriptors
  and messages are owned by hand, through functions that may be those of a
  plug-in, of a ROM of either generation, or local ones.
* **Partial failure.** Conversions of options, buffers and graphs work through
  lists and may fail anywhere: an allocation, a function the ROM lacks, an
  operator that cannot be converted.
* **Versions.** One application meets ROMs and plug-ins of many versions, so
  most data goes through a conversion and often back.

What makes each component right:

* direct runtime: no handshake outlives its waiter; Init succeeds only for a
  model that was loaded; a run is reported once, or its owner knows why not;
  nothing is reported after destruction; a ROM manager is destroyed once, when
  nobody refers to it; every call returns;
* C++ manager: the listener of one Init never receives the answers of another;
  contexts of runs are freed once; failed initialisations leave a usable object;
* C layer: every loaded runtime is in the repository once; a model handle goes
  back to the runtime that made it; no handle refers to an unloaded runtime;
* compute graph: both ends of an edge agree; removing or moving a node leaves
  no dangling edge; a sort is a permutation that respects the edges;
* option records, built models, buffers, AIPP parameters: everything is freed
  once, by the function that fits it, whatever failed; what is converted or
  saved says what the original said;
* operators, attributes, persistence: a link is known at both its ends, the
  graph mirrors the operators, a file gives the graph back, a typed read
  answers what was set;
* transformers, AIPP fusion, layouts, numbers: the result computes the same
  (the same element at the same place, the same parameters to the same input,
  the same attributes after a round trip), and the layout conversions stay within
  their buffers;
* compatibility of models, quantisation: the rewritten file has each weight once,
  and its graph the meaning it had, in a form the ROM understands.

`PROJECT.json` lists every component with its status, and the hazards with
their lines. A hazard that the code does not master, so that the properties name it
as an exception or leave its case out, has a note that says so and no property.

## 2. Modules

### DirectModelManager

The asynchronous core, `model_runtime/direct`.

*Threads.* A manager object `m` is used by one API thread at a time, which
`ModelManagerImpl::modelManagerMutex_` one layer up guarantees, so `m` names
both the object and the thread that is inside one of its calls. A reader is a
thread inside `DirectBuiltModelImpl::GetIONDTensorDesc`. Every callback of the
ROM holds `g_callBackLock` for all of its body.

*State.* `pc`, `op`, `local`, `stamp`, `result`, `expired` are the locals of a
thread; `manager` and `userListener` are the members of an object,
`modelManagerMap` the container, `callBackMap` and `mutex` the globals;
`handler` says which callback holds `g_callBackLock` while user code runs
(all other critical sections of this lock are single steps). `legacy`,
`issued`, `nextStamp`, `deaths` are the ROM; `loaded`, `completed`, `notified`
are history.

*Actions.* `InitBegin`, `LoadSync`, `LoadAsync`, `LoadRefused`, `InitDone` are
Init; `LockMutex`, `CheckPredicate`, `Block`, `Timeout`, `EndWait` are
`wait_for` as InitAsync and UnloadAsync use it, with the window between the
predicate and the sleep in which a notification is lost; `DropLocal`,
`UnloadSync`, `UnloadAsync`, `UnloadRefused`, `DestroyLegacy` are the deleter of
`shared_ptr<HIAI_ModelManager>`, on whatever thread drops the last reference;
`BeginDeInit`, `ReleaseManager`, `DropListener`, `Purge` are DeInit and the
destructor; `RunAsync`, `RunAipp`, `Query` are themselves; the others are the
callbacks. A callback that calls user code begins and ends in separate steps.

*Environment.* The ROM is external: it refuses, answers late, more than once,
with an error, or not at all, and announces the death of the service. Its only
promise is that stamps are not reused. An object is not created again after its
destruction. Spurious wake-ups add nothing: another thread's answer wakes all
sleepers of a condition variable already. The null checks of DeInit on an object
never initialised are covered by `ReleaseManager` with `manager[m] = None`.

*Left out.* Refusals that change no state (SetPriority, Run and the
synchronous RunAipp, a ROM that refuses a run), `onTimeout` (an empty function),
the data race on `userListener_` (section 6).

Operators whose comment says "Faulty variant" are not part of the behaviour;
each is a plausible slip in the code that one of the properties rules out.

### RunLedger

The abstract specification of the asynchronous runs: accepted, then reported,
or announced dead, or dropped with its manager; each once. `DirectModelManager`
defines the refinement mapping (`runStatus`, `runOwner`, `openManagers`) and
`RunsLedger` is `Ledger!Spec` under it.

### DirectModelManager_proofs

TLAPS proofs about `DirectModelManager`, section 5: types, safety of the handshakes,
the answers and the ROM managers, and the refinement of `RunLedger`.

### ModelManager

`ModelManagerImpl` (`model_manager/core`), the C++ API an application holds,
above `HIAI_MR_ModelManager_*`. The runtime below is `RunLedger`, which
`DirectModelManager` implements; the module instantiates it and every
asynchronous step of the object is a step of that ledger.

*Threads.* Any number of users call one object. Init, UnLoad and the submission
of a run hold `modelManagerMutex_`; a callback holds the runtime's callback lock
for its whole body (`callback`, at most one) and takes `listenerMutex_` inside.

*State.* `modelManager`, `listener`, `cListener`, `inits`, `context` are
`modelManager_`, `listener_`, `cListener_` and the `RunAsyncContext` objects on
the heap; `pc`, `op`, `arg`, `ret` the threads' locals; `userListener` and
`ready` what the runtime keeps per handle. `made`, `robbed` and `bound` are history.

*Actions.* `InitBegin` .. `InitLoad` are Init with each early return;
`RunAsync`, `RunAippModel`, `SubmitAccepted`, `SubmitSync`, `SubmitRefused`,
`RunReturn` the two ways to run, with the window between the runtime's
acceptance and the return in which the answer may already come; `DeInitEarly`,
`DeInit`, `UnLoadDeinit`, `UnLoadReset`, `DeInitClear` and `Destruct` the way
down; `AnswerBegin`, `AnswerLock`, `AnswerUnlock`, `AnswerEnd` the static
`OnRunDone`, which deletes the context last.

*Overtaking.* Any thread may call Init while another's DeInit has not returned.
DeInit clears `listener_` and `cListener_` after it released
`modelManagerMutex_` (`model_manager_impl.cpp:432-443`), so an Init that overtakes
it loses the listener it has just installed. The history variable `robbed` holds
the handles this happened to. The model has all these behaviours, and the
properties name what is lost: see section 6.

### AiModelMngerClient

The V1 interface (`model_manager/compatible/HiAiModelManagerService.cpp`): one
client with its two maps from names to managers and to built models, above
`IModelManager` objects that are again `RunLedger`. Load works through a list
one model a step (`LoadModel`, `LoadFails`, `LoadReturn`), and undoes what it
did when one fails; `UnLoadModel`, `DeInit`, `Clear` go through all loaded
managers; `Process` finds a manager, `GenerateRead`, `GenerateWrite`,
`GenerateReturn` are the three accesses to the counter of stamps, `RunAsync` and
`RunNow` the submission; `OnRunDone` and `OnServiceDied` come from the runtime.

*Environment.* Init, Load and UnLoadModel run while no other thread is inside a
call (`Alone`, `NoLoader`): they change maps that all others read without a lock.

### ModelRuntimeRepo

The repository of runtimes (`model_runtime/core/hiai_model_runtime_repo.c`,
`hiai_model_runtime.c`, the option tables of `hiai_model_builder_types.c` and
`hiai_model_manager_types.c`). A thread walks over the five types of runtimes
(`index`), checks without and then under the lock (`Check`, `Lock`,
`Recheck`), loads (`Create`, `CreateNothing`, `Add`, `Unlock`) and asks
(`Got`, `Nothing`, `Refused`, `Accepted`, `NotFound`, `Found`). `TryRestore`,
`TryBuild`, `FindHcl`, `NeedTable` begin the four calls that walk, which differ
in the types they visit and in when they stop; `LockTable`, `InitTable`,
`UnlockTable` initialise a table of option functions once. `Destroy` frees a
built model, `Install` adds the plug-in while the process runs, `DeInit` is the
static destructor.

*State.* `runtimes`, `g_runtimesMutex`, `enhanceChecked`, `funcs`,
`g_initMutex` are the static variables, `memory` and `builtModels` the heap, the
others a thread's locals; `asked` is history. `device` says which libraries
exist and what symbols they have: any value of `Device`, so the proofs hold for
every phone. The order of `HIAI_ModelRuntimeType` is that of the numbers.

### GraphSorter

`GraphSorter::SortNodesDFS` (`graph/core/cgraph/graph_sorter.cpp`) and the write
back, `QuickQueryNodes::UpdateNodes`. `Visit` and `PrepareNoEntryNodes` count
the edges each node waits for and set up the stack; `WalkNode` and `WalkEdge`
take a node from its top and its out edges one by one, in any order;
`CheckGraphValid` decides, `UpdateNode` swaps the nodes into place. `nodes` is
`store_`; `noEntryNodes`, `dataIter`, `nodeEdgeMap`, `dfsNodes` are the members
of the sorter. `Kind` keeps of a node's type what the two lists of
`node_checker.cpp` and the test for NextIteration tell apart. `edges` holds data
and control edges, those of nodes that were moved to another graph included. A
`std::stable_sort` is a permutation chosen by its definition (`StableSort`).

### ComputeGraph

The editing of graphs: `GraphModifier`, `GraphBypasser`, `GraphPruner`,
`LegacyGraph::RemoveNode`, `GraphTopoWalker::DFSWalk` over `GraphStore` and the
anchors. `store`, `inputs`, `outputs` are the lists of each graph, `change` the
flag of its walker, `edges` the peers of all anchors (both ends at once, since
`LinkTo` and `Unlink` change both). A control edge has the index `CTRL` at both
ends, as in the code.

One action is one call. A call that changes several edges takes them one by one
(`Step`: link, unlink with or without a notification, link unless it is there),
to the first failure, as `HIAI_EXPECT_EXEC` does; what was
done before stays done. A loop of the code over edges is a fold with a name of its
own (`ConstSteps`, `RelinkAll`, `LinkTo`, `LinkPoints`). `Commit` writes the outcome: the nodes that are gone
leave the store and the lists, which `Erase` sorts by pointer (`Address`), and
`change` is set if a listener was told. The order of an anchor's peers is any
order. The sort inside `DFSWalk` is any result `GraphSorter` may have: an order
with data first, or a failure.

`AddNode` takes a new node or a pointer to one: the code asks only the graph the
node comes to, so a node may be in two graphs, and then an edge between two such
nodes is told to the walker of one graph only. `shared` remembers the nodes this
was done to; `NodesOwned` allows no others in two graphs, and `OrderCurrent` says
nothing of a graph that has one. A constant that another graph holds keeps its
edges when a graph lets go of it (`Released`); the last graph that does frees it.
`MoveNode` gives the node up before it asks the other graph, which may refuse it.

`call` records the kind of the last call and its node for the properties about
steps: what other nodes read and wait for after an insertion or a bypass
(`ReadersKept`), which edges survive any removal (`OthersKept`),
what pruning may take (`PruneKeepsOutputs`).

### Values: TransTensor, Fp16, Quantize, AippColors, IrNode, IrConverters, IrTransformer, AippGraph

These model code that computes a result from its arguments; they have no
VARIABLES, and an MC module gives them their inputs.

`TransTensor` (`util/tensor/trans_tensor.cpp`): descriptors with their checks and
32-bit sizes, the mode of a pair of element types, and every copy as the set of
its element moves, which a reference layout decides about. `Int32Max`,
`CubeSize`, `Int8C0` and the limits of the code are parameters. The vector code
of an `ARM_NEON` build is modelled beside the scalar code.

`Fp16` (`infra/math/fp16_t.cpp`): a half is its 16 bits, a float its three
fields, both conversions bit for bit.

`Quantize` (`omg/quantize_optimizer`): filters to INT8, INT4 or 2 bits with a
scale for all or for each output channel, the packing, and the way back for a
filter, a bias and a graph; the tests whether a graph is quantised, from its
attribute, its constants or the notes of the old form. A tensor knows the bytes
of its element, since sizes are compared in bytes. A product of a filter and
its scale is a product of whole numbers.

`AippColors`, `AippGraph` (`model_builder/ir/aipp`, `model/aipp`,
`tensor/aipp/aipp_para_impl.cpp`): the matrices of the colour conversions in
builder and runtime; the search for chains of image operators, their fusion into
Aipp nodes with the note of the parameters, and the runtime's way back from that
note to the inputs of a run. The marks of the model's inputs in
`ConvertInputTensorDesc` are a `std::vector<bool>` sized by the data descriptors
(`aipp_input_converter.cpp:416`) and indexed by the inputs of the model (402, 407,
423): `Bits` gives the indices that its whole words hold, and beyond them the
model's answer is undefined.

`IrNode`, `IrConverters`, `IrTransformer` (`compatible`): a node is a record of
its type, attributes, input endpoints, the constants among them, and subgraphs.
`IrNode` has the edits the transformers make (add, remove, move an input; read
and write a constant), each of which may fail and says so in `ok`;
`IrConverters` one operator per conversion function; `IrTransformer` the two
tables, the order of their passes, the stamps, the verification of reserved
fields and the test of compatibility.

### ModelCompatible

`HIAI_MakeDirectCompatibleModel` (`model_runtime/direct/model_compatible`) and the
files it reads and writes (`common/helper/om_file_helper.cpp`). `rom` is the
version the ROM gives, `IS_MERGED` the static flag, `call` the calls in progress,
each with the file it was given, its graph, and what it returned. The calls run
in threads of their own and share the flag: `MakeDirectCompatibleModel` sorts the
buffers, `Load` looks at the graph, refuses what the ROM cannot run and sets the
flag, `Remake` gives the merged weights back to their constants and clears it,
`Convert` dequantises, puts and removes casts and takes the operators to their
version, `SaveModel` reads the flag to write the file. `Build` is the other path,
of a graph that comes from the builder, and touches nothing shared. `Again`
gives a result to a new call. `raced` is history: another call wrote the flag
between this call's mark and its save. The nodes are those of `IrNode`, and the
conversion of operators is `TransferToTargetVersion` of `IrTransformer` itself.

### OptionRecords

The C records of options (`hiai_model_build_options_v1.c`,
`hiai_model_manager_options_v1.c`), the functions that dispatch to them or to a
plug-in, and `BuildOptionUtil`, which converts the C++ options. `heap` is a
machine: live blocks, a count of the mallocs and the numbers of those that fail,
the functions the plug-in lacks, and whether a block was misused. `mine` is what
the application must still destroy, `converted` the result of the last
conversion with what it was made from. An action is one conversion or one call
of a C function.

### BuiltModel

Built models from `BuiltModelImpl` over the C layer down to
`DirectBuiltModelImpl`, `CustomDataUtil`, the files, and the builders that make
them. A buffer or file is a sequence of cells (the tag and length of custom data,
the header, the body), so writers that append and readers that split meet.
`models` are the objects, `files` the paths, `descs` the live descriptors, `rom`
the symbols the ROM has, `saved` history, `output` the buffer of the IR build
API. An action is one call of the API, with the ROM's answers and failing
allocations chosen inside. `GetCustomData` of the builder checks only its first read:
where a length points outside of the buffer, what it finds is any custom data.

### AippPara

The AIPP parameters of an image (`aipp_para_impl.cpp`, `HiAiAippPara.cpp`,
`hiai_tensor_aipp_para*.c`): the C objects (`handles`) with their table of
functions (`table`), which the plug-in or the local code fills, and the buffer
(`buffer`) the setters of the application's object fill. `late` remembers what
was changed behind a resize or a colour conversion.

### OperatorGraph

The way of an IR graph (`graph/operator*.cpp`, `op_desc.cpp`, the builder of
`graph.cpp`, `graph_checker.cpp`, the serializers of node and graph, `model.cpp`).
`app` is the network an application builds with the calls it has still to make,
in any order; `ops` the operators, `graph` what the last `SetInputs` built,
`file` what Save wrote, `copy` what Load made of it. A file names nodes and
counts inputs, which is why the order of descriptors matters.

### Attributes

The attributes of a tensor descriptor (`attr_value.cpp`, `attributes_holder.cpp`,
`attr_utils.cpp`, `proto_attr_def.cpp`, `proto_tensor_desc_def.cpp`): `attrs`
maps a name to the message of the attribute (its case, the value, which wrappers
were made and which look at a message that is gone), `desc` the members of the
descriptor, `value` an AttrValue with the type it remembers, `view` a tensor that
looks into an attribute. `said` and `broken` are history: what the last accepted
call set (at first what the descriptor came with, `Found`), and what a failed set or a
wrong getter has spoilt.

### TensorBuffers

Tensor buffers (`tensor/base`, `image`, `compatible/AiTensor.cpp`): `heap` holds
the DDK's records, plain memory, and ROM objects of two generations (`tensor`,
`nd`), `rom` the functions a library exports. `mine` and `tensors` are what the
application holds. The makers try one function after the other; `PreRun` turns
the buffers of a run into objects of the first generation for an old HCL
runtime. `heap.lost` collects what a failed `make_shared` or a missing function
leaves behind. `InputsFit` is the application's part: sizes are numbers, and the
memory it lends is as large as it says (the assumption `BufferInputs`).

### Records, Records_proofs

`Records` puts the components that own memory or messages side by side: they share
no state, so `part` chooses the one a behaviour exercises and the variables of the
others stay `Idle`. It extends `TensorBuffers` and has instances of `OptionRecords`,
`BuiltModel`, `AippPara`, `OperatorGraph` and `Attributes`, so that the properties
of the run `records` are the ones the theorems name, and it holds the assumptions on
the constants of the four that are proved about. `Records_proofs` has their
theorems; those of `TensorBuffers` stand in `TensorBuffers_proofs`.

### MC modules

`MCDirectModelManager`, `MCModelManager`, `MCAiModelMngerClient` define the
symmetry sets for TLC; `MCModelRuntimeRepo` also the devices that are tried,
`MCGraphSorter` and `MCComputeGraph` the nodes and edges.

`MCTensors` draws an input and calls a function of the value modules; `what` says
which one. `MCAipp`, `MCIr` and `MCQuantize` hold inputs and properties of three
of them, `MCModels` the ROMs and files of `ModelCompatible`.
`MCRecords` holds the values `Records` is checked with.

## 3. Runs

| Run | Configuration | Properties | Question |
|---|---|---|---|
| `direct_safety` | `DirectSafety.cfg`: 2 managers, 2 ROM managers, 4 stamps, 1 service death | `LoadsSound`, `AnswersSound`, `RunsLedger` | Do handshakes and runs of two managers stay apart, whatever the ROM answers? 1.2 million states |
| `direct_query` | `DirectQuery.cfg`: 1 manager, 2 readers, 3 ROM managers, 3 stamps, 1 death | `TypeOK`, `LegacySound` | Who owns, unloads and destroys a ROM manager that queries borrow? 0.5 million states |
| `direct_liveness` | `DirectLiveness.cfg`: 2 managers, 2 stamps, 1 death | `CallsReturn` | Does every call return? 0.2 million states |
| `manager_safety` | `ManagerSafety.cfg`: 2 users, 2 listeners, 2 contexts, 2 handles, 3 calls of Init, which may overtake a DeInit | `TypeOK`, `ContextsSound`, `CallbacksSound`, `CallsReturn` | Is each context freed once and by whom, does an answer reach the listener that was set when its run was submitted, and can the three locks be waited for in a circle? 0.9 million states |
| `client_safety` | `ClientSafety.cfg`: 2 users, 2 names, 3 managers, 2 runs, lists of up to 2 names, stamps modulo 2 | `TypeOK`, `ModelsSound`, `FailedLoadUnloads` | Do the maps and the managers stay in step through failing loads, repeated names and unloads? 0.3 million states |
| `client_stamps` | `ClientStamps.cfg`: the same, stamps modulo 5 | `StampsUnique`, violated | Do two calls of Process get different stamps? No: section 4, Finding |
| `repo_safety` | `RepoSafety.cfg`: 2 threads, 4 objects, 1 built model, 2 tables in 2 files, every set of usable libraries, old or new, or the plug-in installed at any time | `TypeOK`, `LibrariesSound`, `ChoiceSound`, `OptionsUnderstood` | Is each library loaded once, one HCL at most, and are options given to the library that made them? 3.3 million states |
| `repo_liveness` | `RepoLiveness.cfg`: 3 objects, 1 table, a malformed local library | `CallEnds` | Does every call end when a library frees its own object? 0.2 million states |
| `graph_sorter` | `Sorter.cfg`: 4 lists of up to 5 nodes, every subset of their 11 edges, 4 orders of the inputs | `TypeOK`, `SortedIsTopological`, `InputsInOrder`, `FailureJustified`, `ListedOnce` | Is the result of a sort an order, the one the user asked for, and is there always a reason when it fails? 0.6 million states |
| `graph_edits` | `Graphs.cfg`: 4 pairs of graphs over 6 nodes, every sequence of 3 calls | `TypeOK`, `StructureSound`, `EdgesKept`, `PruneKeepsOutputs` | Do graphs stay well formed, is a walk without a sort in order, and does an edit keep what the rest of the graph reads? 0.5 million states |
| `functions` | `Tensors.cfg` on `MCTensors` | `SizesSound`, `LayoutSound`, `NumbersExact`, `AippSound`, `TransferSound`, `ModelsRestored` | Do the conversions compute what their definitions say: sizes without overflow, every element at its place, numbers to nearest, AIPP parameters to the input they belong to, operators to another version and back, models to what their ROM takes? 0.2 million states |
| `records` | `Records.cfg` on `MCRecords` | `OptionsSound`, `BuiltModelsSound`, `ParaSound`, `LinksSound`, `GraphsSound`, `AttributesSound`, `BuffersSound` | Is everything owned once and freed once whatever fails, and does what was converted, saved or set come back? 0.7 million states |

What the properties of the last two say:

* `SizesSound`: a descriptor that passes the checks has its true size and strides,
  and no move leaves a buffer. `LayoutSound`: a change of layout takes every element
  to its place and clears the rest; NEON code agrees but in one named case.
  `NumbersExact`: the nearest half, ties to even, and never a small one for what
  overflows; a half is unchanged there and back;
  a filter that is quantised and taken back is as near as its scale allows, each
  element by the scale of its output channel; a dequantised graph is quantised nowhere
  and keeps its links but those through a removed node.
* `AippSound`: builder and runtime have the same colour matrices; a fused graph
  loses no node's input but one that branches off inside a chain; the inputs of a run
  are taken apart the way the graph's inputs were put together, and are described so
  where the description is defined (always, for as many inputs as a word has bits).
* `TransferSound`: the stamp fits the ROM, a round trip gives the operator back but
  for what is listed in `MCIr`, a constant that is taken away is kept as an
  attribute, and what passed the verification passes it again.
* `ModelsRestored`: the file the ROM is given has each weight once, unless another
  call came between; its operators have the version of the chip; casts apart, every
  operator reads what it read; the casts behind the inputs and the order of the
  filters are those of the chip; the configuration stays, the file can be loaded, and
  restoring it again changes nothing more, but for the casts named there.
* `OptionsSound`: no double free, no lost block, and the record says what the
  options said. `BuiltModelsSound`: a save gives the model and its custom data back;
  descriptors belong to one model. `ParaSound`: a resize takes the cropped image, a
  colour conversion is that of the format, objects reach their own library.
* `LinksSound`: the two operators of a link agree on it, once. `GraphsSound`: the
  graph that is built has exactly the links, inputs and subgraphs of its operators
  (`GraphMirrorsNetwork`), a file gives the graph back, and what was loaded can be
  saved and loaded again (`GraphsComeBack`).
* `AttributesSound`: a typed read answers the last accepted set; no wrapper of a
  message that is gone is used. `BuffersSound`: memory is released once by the
  function that fits it, none is lost, a buffer is as large as it says, and a run on
  an old runtime gets objects it understands.

*Bounds.* `MaxStamp` bounds requests, `Legacy` the initialisations, `MaxDeath`
the announced deaths; all three appear in guards. Four stamps are a load, a run
and an unload of one manager with a load of the other in between, or two runs
under a re-initialisation; the interactions of the table are pairwise. Three ROM
managers allow a borrowed one, a private one of a query, and a re-initialisation.
One death is enough: the callback leaves nothing behind but the table.

`MaxInit` bounds the calls of Init, `MaxList` the list given to Load; `Context`,
`Handle`, the managers of a client and `Object` are memory that is not used
again after it was freed, except in `ModelRuntimeRepo`, where freed memory is
handed out again. Three Inits are two that succeed and one that fails between
them. Stamps modulo 2 wrap around in a run of two. Four objects
are one more than the repository ever holds: one HCL library, direct and binary;
in `Phones` two HCL libraries and direct.

The edges of `MCGraphSorter` hold a loop over NextIteration, a cycle, two edges
between the same nodes and edges from and to a node of another graph; the nodes
every kind. `SIZE_MAX` is only larger than the number of edges.

The pairs of graphs in `MCComputeGraph` are a chain that is not in order, with
its outputs listed; a node between control edges beside weights with two readers;
data with two readers beside a node with one input taken; and two graphs whose
nodes are not linked, one of which may be given to the other graph as well, so that
an edge added there is not told to the first. `MAX_CALLS` is
three: each property relates one call to the state before it, which two calls
bring into every shape the properties tell apart (a list with a node twice, a
node of another graph, an edge within a sorted store).

The bounds of `functions` and `records` are those of their MC modules:

* `TransTensor`: shapes of one to six small dimensions around `CubeSize` = 4 and
  `Int8C0` = 8, so that blocks are full, partly filled and several;
  `Int32Max` = 1023 and `MaxCount` = 960 let a product wrap. `Fp16`: all
  exponents with the mantissas at which a rounding turns, and floats around them.
* `MCAipp`: two or three image operators in every arrangement that the search
  tells apart, three orders of the inputs; `WordBits` = 4 (64 in the code) is more than
  some of these models have inputs and less than others. `MCIr`: for each operator type the forms
  its converters tell apart, each version, and a ROM from each generation.
* `MCQuantize`: filters of two to eight elements with values around the ends of the
  ranges and the ties, right and wrong numbers of scales, packed types with an odd
  and an even count; graphs with one or two operators, an output shape that is a
  constant or not, old and new notes. `MCModels`: a ROM for each comparison of
  versions, files with right and wrong tables, merged, plain and mixed weights,
  casts of both versions behind and away from inputs. Two calls are enough: one
  spoils the flag of the other, and a result that is given to a second call has
  every form a later one could meet.
* `OptionRecords`: one failing malloc out of 16 in a conversion, which is all of
  them; sequences of C calls with up to `MaxCount` = 5 allocations.
  `BuiltModel`: one object, one path, five files as they are delivered, three
  ROMs; what matters are sequences of saves and restores over one file.
* `AippPara`: two objects, `MaxSets` = 3 setters, two batches (the code allows
  127). `OperatorGraph`: thirteen networks of up to four operators, one per rule,
  their calls in every order. `Attributes`: one name, eleven values, four calls.
* `TensorBuffers`: four libraries, `MaxCalls` = 4, `MaxHeld` = 2, `Int32Max` = 15;
  one allocation of a call fails, or creators refuse, or an object is larger than
  asked for.

Deadlock is checked in every run but `graph_edits`, `functions` and `records`, where
the caller may stop at any time; elsewhere there is one legitimate end, in `DirectModelManager` every
manager destroyed and every query over, in `ModelManager` the object destroyed,
in `ModelRuntimeRepo` the process over (`Exited`), in `GraphSorter` the sort over. A refused request keeps the bounds on
stamps from stopping anybody.

## 4. Fairness

`Fairness` says that a thread inside a call is scheduled (`WF` of `InCall`), that
user code called back returns (`WF` of `InCallback`), and that a sleeper passes
its deadline however often it is woken before (`SF` of `Timeout`): `wait_for`
computes an absolute deadline once. Nothing is assumed of the users, who need
not call, or of the ROM, which need not answer.

`ModelManager`: `WF` of `InCall(u)` and of `InCallback`. A weak condition is
enough for the locks: each round of a call uses up a context or an Init, so
nobody can be overtaken for ever. That a callback ends is what makes UnLoad end:
the runtime's deinit takes the callback lock, which a callback holds while it
waits for nothing but `listenerMutex_`, held for a few assignments only.

`ModelRuntimeRepo`: `WF` of `Continue(t)`, and `SF` of `Lock(t)` and
`LockTable(t)`: calls may follow each other without end here (a library that is
absent is looked for again by every call), so the mutexes must be handed out
fairly.

`GraphSorter`, `ComputeGraph` and the modules of `functions` and `records` have no
liveness property and no fairness. Each action of the last three is a whole call
that ends; the sort consumes finite lists, and lists a node once (`ListedOnce`).

### Finding

`Generate` in the V1 client reads its atomic counter, writes it and reads it
again: two threads can return one stamp, which the comment above it excludes.
`PROJECT.json` states it with its lines.

A second disagreement has no run, because one line of code and one of comment
show it: `fp16_t.cpp:216` says "Exponent overflow/NaN converts to signed inf/NaN",
and lines 217 to 219 (and `Fp16Normalize`, for what is rounded up to the next
power of two) store the largest finite half, 0x7BFF, with the sign of the float.
`Fp16` models the lines; `NearestHalf` is strict up to the point where a half
overflows, and beyond it asks only that the sign is kept and the half is not below
0x7BFF, which the lines and the comment both satisfy.

Other places where the code does less than it says are in section 6.

## 5. Proofs

Every theorem is about the specification with arbitrary constants, under the
module's named assumptions on them. Invariants are proved in
three steps: the initial states, one lemma per part of the inductive invariant
with a step for every action, and the implication. Action properties and the
refinement take the inductive invariant as given and go through the actions.
`TypeOK` is part of every invariant. The theorems of a module `M` stand in
`M_proofs`; those of `AippPara`, `Attributes`, `BuiltModel` and `OperatorGraph` stand
in `Records_proofs`, about the specification `RecordsSpec`, where a step of another
component leaves their variables alone.
The invariants of the runs are conjunctions of the parts named below:
`LoadsSound`, `AnswersSound`, `ContextsSound`, `CallbacksSound`, `ModelsSound`,
`LibrariesSound` and `ChoiceSound` are proved by the theorems `LoadsAreSound`,
`AnswersAreSound` and so on, from one theorem per part.

**DirectModelManager.** `TypeCorrect` needs `Control`, which ties `pc` to the
other locals (who has a local manager, who has a stamp, which call is under way).
*HandshakesAwaited* adds `FreshEmpty` (an entry of `g_callBackMap` is below the
ROM's next stamp: a request never meets an old entry) and `WaitedIssued` (a
waiter's stamp was issued by its own request). *NoneAnsweredAfterDestroy* adds
`Quiet`: a destroyed object has no entry left. *RunsReportedOnce* adds
`ReportedGone`: what was reported is out of the table, which is why a second
answer finds nothing. *LoadsJustified* adds a chain of four facts from the ROM's
answer to Init's result (`HeldUsed`, `Answers`, `Results`). *LegaciesAreSound* is about the ROM managers, which `shared_ptr` counts. `LocalHeld`
says at which points of its code a thread has one, `Owned` that whoever refers to
one finds it alive and an object refers to its own only, `Lent` that the container
lends what an object holds that is not in the course of DeInit, `Referred` that
nothing lives unreferenced, and `AloneInDeleter` that nothing else refers to a manager
while its deleter runs; `EntryOwnerAlive` needs `WaitedIssued` besides. The last reference may be a query's, so the deleter may
run in a thread that never owned the manager; that is why `Owned` and `Lent` are
about the owner recorded in the manager and not about the thread.
*RunsKeepLedger* is the refinement of `RunLedger`: the mapped initial state is the
ledger's, and each action maps to one step of the ledger or to none. It rests on the
invariants above and on `Books`: no thread of Init or UnLoad waits for the stamp
of a run (`WaitsForHandshake`), the entry of a run names the manager that accepted
it, which is not gone, and a stamp the ROM has not issued stands for no run
(`RunBooks`), the callback a thread is about to make for a run is about one that is
accepted (`RunHandled`), and OnServiceDied has told the owners of all the runs it
has passed (`Told`). Two actions need the older ones most: a late answer
whose run is no longer in the table must report nothing (`ReportedGone`), and a
Destroy must find no run of its object in the table (`Quiet`), which makes it `Close`.

**ModelManager.** `IInv` is the conjunction of `Owns` (critical sections),
`Args`, `PcOp` (locals), `Alone`, `Living` (nobody is in a call to a destroyed
object), `Listening` (the runtime knows one C listener, for the present handle),
`Runs`, `Calling`, `Submitting` and `Deleted` (where a context stands follows
where its run stands). No theorem restricts who calls what when, except that
nobody uses the object while it is destroyed: an Init may overtake a DeInit, and the
invariant then says that the handle is in `robbed` and has no listener for the
rest of its life. The crux is `Submitting`: after the runtime accepted a run
its answer may come, and free the context, before the submitter has looked at
the status.

**AiModelMngerClient.** `IInv`: `Exclusive` (a thread that changes the maps is
alone), `MapsAgree`, `Distinct`, `Installed`, `Known` (names and managers that
are up correspond one to one), `Targets` (the manager Process found stays up)
and `Runs`. `FailedLoadLeavesNothing` is an action property, from the same
invariant: a Load that fails returns with no manager up.

**ModelRuntimeRepo.** `IInv`: `Frames`, `Mutex`, `Fetched`, `Quiet`,
`LoadedOnce`, `ExitUnloadsAll`, `RuntimesOwned`. It says that between the
second check and `Add` the place in the repository stays empty. The theorems
about the choice of the library hold while the device does not change and rest
on `ChosenInv`: `Missing` (what was looked for in vain cannot be loaded),
`Walks` (a thread that still looks for an HCL library found none before),
`HclChosen` (the one HCL in the repository is the first the device has),
`OptionsFit` and `Asked`.

**GraphSorter.** `IInv`: `TypeOK`, `Stored` (the list is a permutation of the
given one), `Lists` (stack and result hold each node once), `Counts`
(`nodeEdgeMap` is `Left`, the number of edges not yet walked, less one for
NextIteration, modulo the wrap below zero), `InOrder` (a listed node stands
behind its sources but for one edge of a NextIteration) and `Phases`.
`EveryNodeListedOnce` is a part of `Lists`, and rests on `Counts`: a count that went
below zero is never zero again. `FailsForAReason` takes the mapped nodes that are not listed as the set that
waits. `InputsKeepOrder` needs a second invariant, `OrderInv`: while the stack is
prepared the inputs of the graph are its upper part (`InputsAbove`); once it is
sorted the nodes without in edges are taken in the order the user gave
(`RootsOrdered`); the node taken first is an input when all inputs are plain ones
(`BeginsWithInput`); and a result that was returned has passed the check for it
(`Checked`). It speaks of positions in two lists, the stack and the result.

**ComputeGraph.** `IInv` is `Sound` with the types of `ok`, `call` and `calls`;
`Sound` is `NodesOwned` and `OrderCurrent`, the lists' types, and that there
are finitely many edges. A call is a run of steps that may end half way, so the
proof carries `Good(g, r)` along it: what the call has done so far to graph `g`
leaves edges whose ends are still in a graph (`Left`), no input with two sources,
new edges only between nodes of `g`, and, unless a listener was told, nothing but
edges taken away. `StepGood`, `RemovedGood` and `ReleasedGood` keep it, `CommitSound`
makes the next state of it: a graph that shares no node with `g` cannot get an edge
from the call. That `Good` speaks of who was told is what `OrderCurrent` needs: a call
that links without a notification would leave `change` down over an order that
is none. `OthersAreKept`, `ReadersAreKept` and
`OutputsOutlivePruning` are action properties from `IInv`. The first carries `Others`
along each removal in place of `Good`: a constant goes only when nothing but the node
reads it, and is lost only if no other graph holds it (`Lost`). The second shows that an insertion has routed each edge it took through
the new node (`Routed`), and that a bypass has joined all that the node read with all
its readers and links nothing to the node again (`Bridged`); from either it follows that the set of nodes above any node
has lost nothing, since `Upstream` is the least set that is closed (`UpstreamLeast`,
`UpstreamClosed`: it cannot grow more often than there are nodes). A failing call is
no exception in `OthersAreKept`; in `ReadersAreKept` it is, as in the property.

**TensorBuffers.** `BuffersAreSound` rests on `BufferInputs` and assumes nothing about the
libraries, the failures or how many buffers there are. Its invariant `BuffersInv`
says what the property only implies: the heap is divided among those who refer to
it. `Heap(h, R)` holds of a heap and the blocks somebody refers to, if each of them is
`Whole` (a record before plain memory of its own, the application's, or an object of
its generation, which stands before memory of the ROM), no two have a part in common
and every block is a part of one. `Sound` takes what is held and what is lost for `R`;
`Named` says that nobody holds a buffer twice. One lemma, `Rearranged`, is the account
for all changes (some owners stay as they are, at most one is new or different, nothing
else is left), and three follow from it: a block in front of others (`Wrapped`), an
owner that goes with its parts (`Freed`), a record that goes without its object
(`RecordFreed`). The makers are then a chain of `Gives` (a creation gives a record of
its own or none, and leaves the others alone, also when it fails half way), the
conversion is `Changes` for one buffer and `Changed` for a list; the loops over
lists, of one or three creators and of one or two buffers, are unfolded. That the address of a new block is free
rests on the heap being finite (`FreshIs`).

**AippPara.** `ParasInv` is `ObjectsInv` and `BufferInv`. The first says which tables there
can be (`TableKnown`: without a plug-in only the local initialiser ever ran, with one
the plug-in's ran first) and that the library of every object has run (`ObjectsKnown`);
that is why an object of the plug-in can only meet the local functions after a
refusal (`HandlesServed`). The second holds of the record the setters fill and of
what is noted as changed behind them (`BufferKnown(w, l)`): fields have their widths
(a padding is clamped to a half), a resize takes the crop or the image unless its image
changed later, and a conversion of colours is the one of the current format unless
that changed later. A setter is a chain of updates of one batch or of all; each
lemma carries `BufferKnown` over one of them. `BatchAssumption` says that the number of batches
has a bound in the naturals (the code's is `maxBatchNum`, 127).

**Attributes.** `AttrsInv` says of each message what a wrapper relies on: a wrapper made is of the
member that is there or of one that is gone, and only lists go
(`AttrKnown`); what is held is what was said (`Faithful`), but for the names a failed
set has spoilt and a value a wrong getter has changed; a tensor that looks into an
attribute looks at one whose case is a tensor and whose wrapper was made (`ViewInv`).
`ReadsAnswer` alone is not inductive: a read goes by the type of the message, so a list must
have a type even while it is empty, and the kinds a list does not have must be
empty lists. `AttrsAssumption` says the same of
what a factory or a file delivers: messages have a case, a list its type, and no
wrapper was made yet, which is the state a parsed message is in.

**BuiltModel.** `SavedIsRestored` compares a later restore with an earlier save, so the
invariant `ModelsInv` says what the saved bytes are: `Restorable`, the content of
the file, or of the buffer, is still the prefix of the custom data and the model
that was saved. A save or a refused save that touches the file in between forgets `saved`
or replaces it, and every step must show which. That is not enough: a model
of one cell would not come back (`GetModelData` takes nothing from a buffer of no more
than one cell), so every model that is there, and every file one stays
in, is empty or has two cells at least (`Long`), which each of the ways that make a
model establishes: restoring from a buffer or a file (`RestoreMakes`, `FileMakes`)
and building (`BuildMakes`). That what is read back is what was written is a lemma about
the two codecs: `Parts` finds the five parts of the prefix and the model in the
bytes, `SplitBack` follows the reader through them, for custom data and models of any length.
For the descriptors, `Queried` is carried through the three queries of
a model: what it gets was not alive before, and its inputs and outputs are apart,
though the second and third query replace what the first left. `ModelsAssumption`
says that what is delivered, and custom data, are cells (pairs of a kind and a number)
and that no path has one of the names the history uses for a buffer.

**OperatorGraph.** `LinksSound` counts how often a reader stands in the list of an
output, which no step keeps by itself. `LinksInv` says it with places (`LinksKept`): the reader at
every place of every list has its input linked to that output; no list has a reader
at two places; and the source of every linked input lists the reader somewhere. The
first is why a new link makes no list hold its reader twice (`LinkAdded`): an input
without a link stands in none, so refusing an input that is linked already is all
the code needs, and a link of an operator to itself, where the second write starts from
what the first has left, is no exception (`LinkPut`). Every other call replaces a
field of one operator that holds no links (`OperatorChanged`), an operator that
goes out of scope keeps its lists, and building, saving and loading write no operator.
The invariant is about every index; the property names those of the modelled types, five inputs, two
outputs and the control anchor. `NetworksAssumption` says that the calls of a
network are calls of the API about operators it has; their indexes are any integers.

The library's induction theorems cannot be used (their parameter is an operator), so
`GraphSorter_proofs` and `ComputeGraph_proofs` use induction in the form of sets:
a set of naturals that is not all of them has a least element outside it
(`Smallest`, `Everywhere`), from which it follows that what a fold or a recursive
function is defined by exists and what its steps are (`FoldExists`,
`RecursionExists`, and a lemma ending in `Run` or `Steps` for each of them).

**Model-checked only.** Liveness (`CallsReturn`, `CallEnds`), which is out of
the prover's reach with fairness and ENABLED. The properties of `functions`: what
a function computes for every list is an induction over the list for each of its
folds, which cannot be stated once for all of them; they compare each function with a reference
definition on every input of the bounds. `OptionsSound`: a conversion is one fold of
mallocs and frees over a nested record of options, and who owns a block half way is
an induction over that record. `GraphsSound`: a graph is built, checked and read back by recursion over operators and subgraphs.

## 6. Limits

* `userListener_` of the direct runtime is written by Init and DeInit and read
  by callbacks of the ROM without a common lock; the model treats each access as
  atomic.
* User code called back does not call the same manager. Such a call would take
  `g_callBackLock` twice; the mutex is not recursive.
* The container of loaded managers is keyed by the address of the built model;
  a new built model at the old address is not modelled. Nor are two queries that
  fill `inputs_` and `outputs_` of one built model at once.
* `OnServiceDied` of `ModelManagerImpl` dereferences the user data of the C
  listener, which is always null: the process ends, and so it does when the
  service dies during DeInit's unload handshake. `ModelManager` therefore has no
  service death; `DirectModelManager`, where the callback is delivered, has.
* A DeInit of `ModelManagerImpl` that is overtaken by an Init drops the new
  handle's listener and frees the C listener the runtime has just been given. The
  code does this, and it is wrong: an answer then goes through freed memory, and
  `RunAippModel` deletes the context of a run that is still pending, which the
  answer deletes again. `ContextOwned`, `ListenerAlive` and `AnswerToSubmitter`
  hold for every other handle and name this one case (`robbed`);
  `ContextAccounted` needs no exception. After such a use of freed memory the
  module continues as if the memory still had its contents. An Init overtaken
  between its two steps loads the model without a listener.
* The maps of the V1 client have no lock. Calls that change them are assumed to
  be alone; the callbacks do not touch them. The V1 listener parses `task_id`
  with `stoi`, which throws when it is missing; here it is always there.
* In `ModelRuntimeRepo` a library that frees its object and reports failure
  leaves an address behind that is read again. The model reads whatever the
  memory then holds, another runtime or nothing, and does not model corruption.
  A first check without the lock may show a half-built object; the model lets
  the call be refused.
* `GraphSorter` sorts one graph that nobody else changes; the code has no lock
  either. `ComputeGraph` takes one call at a time for the same reason.
* `GraphUtils` (`utils/graph_utils.cpp`) and `Anchor::ReplacePeer` link anchors
  past the graph, so that no walker is told and a data input may get two
  sources. Nothing in the repository calls them; they
  are left out. So are the loops over NextIteration in `ComputeGraph`, and the
  result of `Prune` where a loop lies above an output: the walk does not end.
* A const node that `RemoveNodeWithConstInputs` takes along keeps its incoming
  control edges until it is freed, which `~NodeStore` does by unlinking its anchors.
  Graphs are the only holders in the model (`Released`): a pointer that the caller
  keeps to a constant no graph has would keep those edges a while longer. The model
  refuses before any change what the code refuses so: a node a graph has already, and
  a move out of a graph that has not got the node.
* A removed node takes its place in the lists of inputs and outputs along and
  leaves those lists in the order of the pointers (`Erase`), not the user's.

### Where the code does less than it may seem to

The models do what the code does; the properties name these cases as exceptions
where they touch them.

* *Managers.* The V1 client keeps `listenerImpl_` when Init is called again
  without a listener; `ModelManagerImpl::Init` leaves its listener behind when it
  fails. `InsertBefore` (graph) links the inserted node by input 0, though its
  comment asks only for one idle input: when the idle one is another, the call
  fails after it removed the edge it was to split.
* *Options.* A device config with customisations and no device orders frees the
  array but not its elements; an array given to a setter the plug-in lacks is
  lost. An operator name that cannot be copied leaves an unnamed device order in a
  conversion that succeeds. `ConvertToCInitOptions` goes on without the build
  options when their conversion fails.
* *Built models.* Custom data with a type and an empty value is written, and
  refused on restore. A model restored from a file and saved to the same name
  empties the file. The fallback between the interfaces for tensor descriptors
  drops descriptors it already had.
* *AIPP.* `MakeInputTensor` sizes `modelInputTensorVisited` by the data descriptors
  and indexes it by the inputs of the model, past its end for any dynamic parameter:
  within the last word of the vector that does no harm, beyond it (more than 64
  inputs with the usual libraries, or parameters and no data) memory of somebody else
  is read and written. A consumer that branches off inside a fused chain loses its input. A
  rotation given with a run is described as an input and then ignored, as is the
  colour space of a dynamic `CscPara`, and a dynamic parameter that is refused.
  A creation the plug-in refuses overwrites the shared table with local
  functions, which are then handed the plug-in's objects. `SetInputShape` after
  `SetResizePara` leaves the old size behind the resize.
* *Transformers.* `IsCompatible` answers TRUE when the graph is not, which is how
  its only caller reads it, and does not know the third generation of ROMs. Some types,
  attributes and inputs do not come back from a round trip (listed in `MCIr`);
  the constants of a BNInference change places at every verification.
* *Models.* `IS_MERGED` is shared by all calls: of two at a time one may write a
  file without its weights or with weights twice. On the chip 320 each restore of a
  model that was restored puts one more cast before every float input; on the chip
  333 a cast of the old version is narrowed only the second time. The paths of files
  and of graphs judge a third-party ROM differently (by seven characters of its
  version, or by all). A filter that is not of floats gets its new dimensions but
  not the order; of two weights the bias is taken. The first partition keeps its type
  though it holds the graph then. A version that is too short ends a call with an
  exception when the graph has the flag of the original format.
* *Numbers.* An infinite float and a NaN become the largest finite half, against the
  comment at `fp16_t.cpp:216` (section 4, Finding).
* *Quantisation.* A transposed convolution that was given one scale reads others
  behind it. INT4 filters with an odd number of elements, and 2-bit ones, cannot be
  taken back; an INT4 out of range by a multiple of 256 is not noticed. The quantise
  and dequantise nodes are removed and not bypassed, so what read through them
  reads nothing.
* *Layouts.* With NEON, the last block of channels is misplaced when it is
  partly filled, not the only one, and a plane has several elements. No CMake
  file defines `ARM_NEON`.
* *Operators.* A NextIteration makes the search for cycles give up, so that an
  unrelated cycle is accepted. Names need not be unique when a graph is built
  and saved, but must be when it is loaded. An input linked behind one without a
  descriptor is saved and not loaded. A control edge into a type that gets its
  descriptors at the reload reads past them.
* *Attributes.* A list of tensors with a null pointer, and a graph that cannot be
  serialised, leave half an attribute. A getter of AttrValue for another type
  changes the attribute. A list set to its own elements reads freed messages;
  `set_dtype` erases an attribute that `GetAllAttrs` still looks at.
* *Buffers.* The conversion before a run stops with success at the first buffer
  that is of the first generation already; those behind it stay as they are.
  A failed `make_shared` loses the C buffer. `AiTensor::Init` with
  data of another size keeps the old buffer with the new dimensions.

### Not modelled

* The string tables of formats, NamedAttrs, dynamic outputs;
  '/' in the names of subgraphs; calls that set an input after the graph was
  built.
* The stamps of nodes inside subgraphs, and old subgraphs with several data
  nodes, during whose conversion a list is changed while it is walked.
* The question to the ROM whether it can run a model (`CheckModelCompatibility`),
  shape indices, and the AIPP parameters a built model lists by index.
* In `ModelCompatible`: a filter two convolutions share, which is moved twice; the
  library that stays open after a failure or a graph from the builder
  (`HIAI_Foundation_Deinit` is not called); constants by their quantised form, which
  `Quantize` has in detail. In `Quantize`: the overflow of 32-bit sizes.
* `AippTensor`, the cached answer of `HIAI_Foundation_IsNpuSupport`.
* The Init of `ModelManagerImpl` with shared memory, whose native handles are
  not cleared when the ROM returns them; `BaseBuffer` and its kin.
* Cloud service, files, logging, statistics: input and output only.
* The tables of symbols of `DynamicLoadHelper`; `ModelRuntimeRepo` opens and
  closes libraries directly.

## 7. Further work

1. The native handles `ModelManagerImpl` lends to the ROM (`OnAllocate`, `OnFree`).
2. Theorems about `OptionRecords`, and about the building and loading of graphs in
   `OperatorGraph`.
