-------------------------- MODULE ModelRuntimeRepo --------------------------
(***************************************************************************)
(* The repository of model runtimes                                        *)
(* (framework/model_runtime/core/hiai_model_runtime_repo.c,                *)
(* hiai_model_runtime.c) and the two things the process keeps from it: the *)
(* built models, which call the runtime that accepted them, and the tables *)
(* of option functions (hiai_model_builder_types.c,                        *)
(* hiai_model_manager_types.c), which keep the functions of one runtime.   *)
(*                                                                         *)
(* Runtimes are loaded on demand, by any thread, behind double-checked     *)
(* locks.  A first check that is not ordered with the writer may show an   *)
(* object whose symbols are not all there: the call then ends as if the    *)
(* library refused it, which Refused allows.                               *)
(***************************************************************************)
EXTENDS Naturals

CONSTANTS
  Thread,      \* threads of the process
  Object,      \* memory for HIAI_ModelRuntime objects
  Model,       \* memory for HIAI_BuiltModel_Impl objects
  Table,       \* tables of option functions
  File,        \* source files with such tables, each with its own mutex
  FileOf,      \* the file of each table
  Supported,   \* runtimes in AI_SW_SPEC_MODEL_RUNTIME_LIST
  Device,      \* what may be installed: libraries, their symbols, and
               \* whether the plugin may be installed later
  V1,          \* the option functions compiled in
  None         \* the null pointer

\* HIAI_ModelRuntimeType, in the order of the enumeration.
PLUGIN   == 0
LOCALHCL == 1
DIRECT   == 2
ROMHCL   == 3
BINARY   == 4
Type == PLUGIN .. BINARY
Hcl  == {PLUGIN, LOCALHCL, ROMHCL}

\* dlopen fails; the plugin helper is there and has no plugin; the library
\* has neither the symbols nor HIAI_ModelRuntime_Init; it is usable.
Kind   == {"absent", "refused", "malformed", "usable"}
Symbol == {"restore", "build", "options"}

DeviceType ==
  [kind : [Type -> Kind], symbols : [Type -> SUBSET Symbol], upgradable : BOOLEAN]

ASSUME RepoAssumption ==
  /\ None \notin Thread \cup Object \cup Model \cup Table \cup Type
  /\ V1 \notin Object \cup {None}
  /\ FileOf \in [Table -> File]
  /\ Supported \subseteq Type
  /\ Device \subseteq DeviceType
  /\ \A d \in Device : d.kind[DIRECT] \in {"absent", "usable"}

VARIABLES
  (* the environment *)
  device,
  (* static variables *)
  runtimes, g_runtimesMutex, enhanceChecked,
  funcs,         \* the tables: not initialised, V1, or a runtime's functions
  g_initMutex,   \* of each file: g_optionFuncsInitMutex, g_initOptionFuncsInitMutex
  exited,        \* the static destructors have run
  (* the heap *)
  memory,        \* the type of each HIAI_ModelRuntime, None when it is free
  builtModels,   \* the runtime of each HIAI_BuiltModel_Impl, None when free
  (* locals of the threads *)
  pc, op, index, isHCLTried,
  modelRuntime,  \* LoadByType: what was loaded and is not added yet
  options,       \* TryBuild: the functions that made the options, or None
  table,         \* the table being initialised
  (* history *)
  asked          \* runtimes that refused in this pass

statics == <<runtimes, g_runtimesMutex, enhanceChecked, funcs, g_initMutex, exited>>
heap    == <<memory, builtModels>>
locals  == <<pc, op, index, isHCLTried, modelRuntime, options, table, asked>>
vars == <<device, statics, heap, locals>>

Pass   == {"restore", "build"}
Search == {"find", "table"}

-----------------------------------------------------------------------------
(* Walking over the runtimes *)

Goto(t, label) == pc' = [pc EXCEPT ![t] = label]

\* Faulty variant: the loop runs once too often.
LastBeyond(t) == IF op[t] \in Pass THEN BINARY + 1 ELSE ROMHCL

\* The loop variable of the pass, and the three types that
\* GetSutiableHclRuntime tries in turn.
Last(t) == IF op[t] \in Pass THEN BINARY ELSE ROMHCL

\* Faulty variant: the search takes every type.
FollowingAny(t, i) == i + 1

Following(t, i) == IF op[t] \in Search /\ i = LOCALHCL THEN ROMHCL ELSE i + 1

Advance(t) ==
  /\ index' = [index EXCEPT ![t] = IF @ = Last(t) THEN @ ELSE Following(t, @)]
  /\ Goto(t, IF index[t] = Last(t) THEN "end" ELSE "look")

\* The local frame of a call that looks for a runtime.
Enter(t, name, by, tab) ==
  /\ op' = [op EXCEPT ![t] = name]
  /\ index' = [index EXCEPT ![t] = PLUGIN]
  /\ isHCLTried' = [isHCLTried EXCEPT ![t] = FALSE]
  /\ options' = [options EXCEPT ![t] = by]
  /\ table' = [table EXCEPT ![t] = tab]
  /\ asked' = [asked EXCEPT ![t] = {}]
  /\ UNCHANGED modelRuntime

Leave(t) ==
  /\ Goto(t, "idle")
  /\ Enter(t, "none", None, None)

\* TryRestore, its two variants with a file, and TryBuild.  The options of a
\* build were made by some table's functions, or there are none.
TryRestore(t) ==
  /\ ~exited /\ pc[t] = "idle"
  /\ Enter(t, "restore", None, None)
  /\ Goto(t, "look")
  /\ UNCHANGED <<device, statics, heap>>

TryBuild(t) ==
  /\ ~exited /\ pc[t] = "idle"
  /\ \E by \in {funcs[tab] : tab \in Table} \cup {None} : Enter(t, "build", by, None)
  /\ Goto(t, "look")
  /\ UNCHANGED <<device, statics, heap>>

\* IsHclModelRuntimeCanBuild.
FindHcl(t) ==
  /\ ~exited /\ pc[t] = "idle"
  /\ Enter(t, "find", None, None)
  /\ Goto(t, "look")
  /\ UNCHANGED <<device, statics, heap>>

\* Faulty variant: after an HCL runtime was tried, no other runtime is.
SkippedAll(t) ==
  \/ index[t] \notin Supported
  \/ op[t] \in Pass /\ isHCLTried[t]

\* GetRuntimeFromIndex returns NULL before it looks at the repository.
Skipped(t) ==
  \/ index[t] \notin Supported
  \/ op[t] \in Pass /\ isHCLTried[t] /\ index[t] \in Hcl

Skip(t) ==
  /\ pc[t] = "look"
  /\ Skipped(t)
  /\ Advance(t)
  /\ UNCHANGED <<device, statics, heap, op, isHCLTried, modelRuntime, options, table, asked>>

-----------------------------------------------------------------------------
(* LoadByType *)

\* The check without the lock.
Check(t) ==
  /\ pc[t] = "look"
  /\ ~Skipped(t)
  /\ Goto(t, IF runtimes[index[t]] = None THEN "lock" ELSE "got")
  /\ UNCHANGED <<device, statics, heap, op, index, isHCLTried, modelRuntime, options, table, asked>>

Lock(t) ==
  /\ pc[t] = "lock"
  /\ g_runtimesMutex = None
  /\ g_runtimesMutex' = t
  /\ Goto(t, "load")
  /\ UNCHANGED <<device, runtimes, enhanceChecked, funcs, g_initMutex, exited, heap, op, index,
                 isHCLTried, modelRuntime, options, table, asked>>

\* Faulty variant: there is no second check.
RecheckNever(t) ==
  /\ pc[t] = "load"
  /\ Goto(t, "create")
  /\ UNCHANGED <<device, statics, heap, op, index, isHCLTried, modelRuntime, options, table, asked>>

\* The check under the lock.
Recheck(t) ==
  /\ pc[t] = "load"
  /\ Goto(t, IF runtimes[index[t]] = None THEN "create" ELSE "unlock")
  /\ UNCHANGED <<device, statics, heap, op, index, isHCLTried, modelRuntime, options, table, asked>>

Loadable(i) ==
  /\ i # DIRECT
  /\ ~(i = PLUGIN /\ enhanceChecked)
  /\ device.kind[i] \in {"usable", "malformed"}

\* HIAI_ModelRuntime_Load allocates the object, fills it and returns it; when
\* the library has no symbols LoadSymbols frees it and it is returned all the
\* same.
Create(t) ==
  /\ pc[t] = "create"
  /\ Loadable(index[t])
  /\ \E o \in Object :
       /\ memory[o] = None
       /\ memory' = [memory EXCEPT ![o] =
                       IF device.kind[index[t]] = "usable" THEN index[t] ELSE None]
       /\ modelRuntime' = [modelRuntime EXCEPT ![t] = o]
  /\ Goto(t, "add")
  /\ UNCHANGED <<device, statics, builtModels, op, index, isHCLTried, options, table, asked>>

\* The library cannot be opened and NULL is not added.  After one failure to
\* open libhiai_enhance.so the plugin is not tried again.
CreateNothing(t) ==
  /\ pc[t] = "create"
  /\ ~Loadable(index[t])
  /\ enhanceChecked' = (enhanceChecked \/ (index[t] = PLUGIN /\ device.kind[PLUGIN] = "absent"))
  /\ Goto(t, "unlock")
  /\ UNCHANGED <<device, runtimes, g_runtimesMutex, funcs, g_initMutex, exited, heap, op, index,
                 isHCLTried, modelRuntime, options, table, asked>>

\* HIAI_ModelRuntimeRepo_Add
Add(t) ==
  /\ pc[t] = "add"
  /\ runtimes' = [runtimes EXCEPT ![index[t]] = modelRuntime[t]]
  /\ modelRuntime' = [modelRuntime EXCEPT ![t] = None]
  /\ Goto(t, "unlock")
  /\ UNCHANGED <<device, g_runtimesMutex, enhanceChecked, funcs, g_initMutex, exited, heap, op,
                 index, isHCLTried, options, table, asked>>

Unlock(t) ==
  /\ pc[t] = "unlock"
  /\ g_runtimesMutex' = None
  /\ Goto(t, "got")
  /\ UNCHANGED <<device, runtimes, enhanceChecked, funcs, g_initMutex, exited, heap, op, index,
                 isHCLTried, modelRuntime, options, table, asked>>

-----------------------------------------------------------------------------
(* A pass: GetRuntimeFromIndex's end, and the call on the runtime *)

\* Faulty variant: the local library is forgotten.
TriedForgetful(i) == i \in {PLUGIN, ROMHCL}

Tried(i) == i \in Hcl

\* Faulty variant: the library is tried again until it is there.
NothingRetry(t) ==
  /\ pc[t] = "got"
  /\ runtimes[index[t]] = None
  /\ Goto(t, "look")
  /\ UNCHANGED <<device, statics, heap, op, index, isHCLTried, modelRuntime, options, table, asked>>

Nothing(t) ==
  /\ pc[t] = "got"
  /\ runtimes[index[t]] = None
  /\ Advance(t)
  /\ UNCHANGED <<device, statics, heap, op, isHCLTried, modelRuntime, options, table, asked>>

Got(t) ==
  /\ pc[t] = "got" /\ op[t] \in Pass
  /\ runtimes[index[t]] # None
  /\ isHCLTried' = [isHCLTried EXCEPT ![t] = (@ \/ Tried(index[t]))]
  /\ Goto(t, "ask")
  /\ UNCHANGED <<device, statics, heap, op, index, modelRuntime, options, table, asked>>

\* The symbols reached through a pointer: those of the object that is in the
\* memory now.
SymbolsAt(o) == IF memory[o] = None THEN {} ELSE device.symbols[memory[o]]

\* The symbol is missing, the runtime cannot serve the model, or there is no
\* memory: the next runtime is tried.
Refused(t) ==
  /\ pc[t] = "ask"
  /\ asked' = [asked EXCEPT ![t] = @ \cup {index[t]}]
  /\ Advance(t)
  /\ UNCHANGED <<device, statics, heap, op, isHCLTried, modelRuntime, options, table>>

Accepted(t) ==
  /\ pc[t] = "ask"
  /\ op[t] \in SymbolsAt(runtimes[index[t]])
  /\ \E m \in Model :
       /\ builtModels[m] = None
       /\ builtModels' = [builtModels EXCEPT ![m] = runtimes[index[t]]]
  /\ Leave(t)
  /\ UNCHANGED <<device, statics, memory>>

\* "no runtime support the Model", or no HCL runtime was found.
NotFound(t) ==
  /\ pc[t] = "end" /\ op[t] # "table"
  /\ Leave(t)
  /\ UNCHANGED <<device, statics, heap>>

\* HIAI_MR_BuiltModel_Destroy.
Destroy(m) ==
  /\ ~exited
  /\ builtModels[m] # None
  /\ builtModels' = [builtModels EXCEPT ![m] = None]
  /\ UNCHANGED <<device, statics, memory, locals>>

-----------------------------------------------------------------------------
(* GetSutiableHclRuntime's end, and the tables of option functions *)

Found(t) ==
  /\ pc[t] = "got" /\ op[t] = "find"
  /\ runtimes[index[t]] # None
  /\ Leave(t)
  /\ UNCHANGED <<device, statics, heap>>

\* Get...Funcs of a table that is not initialised: the lock of its file is
\* taken after the first check.
NeedTable(t) ==
  /\ ~exited /\ pc[t] = "idle"
  /\ \E tab \in Table :
       /\ funcs[tab] = None
       /\ Enter(t, "table", None, tab)
  /\ Goto(t, "wait")
  /\ UNCHANGED <<device, statics, heap>>

LockTable(t) ==
  /\ pc[t] = "wait"
  /\ g_initMutex[FileOf[table[t]]] = None
  /\ g_initMutex' = [g_initMutex EXCEPT ![FileOf[table[t]]] = t]
  /\ Goto(t, IF funcs[table[t]] = None THEN "look" ELSE "inited")
  /\ UNCHANGED <<device, runtimes, g_runtimesMutex, enhanceChecked, funcs, exited, heap, op, index,
                 isHCLTried, modelRuntime, options, table, asked>>

\* Init...Funcs copies the functions of the runtime that was found, if it has
\* them.
InitTable(t) ==
  /\ op[t] = "table"
  /\ \/ pc[t] = "end"
     \/ pc[t] = "got" /\ runtimes[index[t]] # None
  /\ funcs' = [funcs EXCEPT ![table[t]] =
                 IF pc[t] = "got" /\ "options" \in SymbolsAt(runtimes[index[t]])
                 THEN runtimes[index[t]] ELSE V1]
  /\ Goto(t, "inited")
  /\ UNCHANGED <<device, runtimes, g_runtimesMutex, enhanceChecked, g_initMutex, exited, heap, op,
                 index, isHCLTried, modelRuntime, options, table, asked>>

UnlockTable(t) ==
  /\ pc[t] = "inited"
  /\ g_initMutex' = [g_initMutex EXCEPT ![FileOf[table[t]]] = None]
  /\ Leave(t)
  /\ UNCHANGED <<device, runtimes, g_runtimesMutex, enhanceChecked, funcs, exited, heap>>

-----------------------------------------------------------------------------
(* The environment and the static objects *)

Upgradable == device.upgradable

\* The plugin, with its helper, is installed while the process runs.
Install ==
  /\ Upgradable /\ ~exited
  /\ device.kind[PLUGIN] \in {"absent", "refused"}
  /\ device' = [device EXCEPT !.kind[PLUGIN] = "usable"]
  /\ UNCHANGED <<statics, heap, locals>>

\* Faulty variant: the last runtime is not unloaded.
DeInitedFew == {runtimes[i] : i \in Type \ {BINARY}}

\* What HIAI_ModelRuntimeRepo_DeInit unloads.
DeInited == {runtimes[i] : i \in Type}

\* The destructor of g_modelManagerIntializer, when the threads are done and
\* the built models destroyed.  The pointers stay in the repository.
DeInit ==
  /\ ~exited
  /\ \A t \in Thread : pc[t] = "idle"
  /\ \A m \in Model : builtModels[m] = None
  /\ memory' = [o \in Object |-> IF o \in DeInited THEN None ELSE memory[o]]
  /\ exited' = TRUE
  /\ UNCHANGED <<device, runtimes, g_runtimesMutex, enhanceChecked, funcs, g_initMutex, builtModels,
                 locals>>

\* The process is gone.
Exited == exited /\ UNCHANGED vars

\* ModelRuntimeRegister: the direct runtime, when it is linked, is there before
\* the first call.
Init ==
  /\ device \in Device
  /\ \E o \in Object \cup {None} :
       /\ (o # None) <=> (device.kind[DIRECT] = "usable")
       /\ runtimes = [i \in Type |-> IF i = DIRECT THEN o ELSE None]
       /\ memory = [p \in Object |-> IF p = o THEN DIRECT ELSE None]
  /\ g_runtimesMutex = None
  /\ enhanceChecked = FALSE
  /\ funcs = [tab \in Table |-> None]
  /\ g_initMutex = [f \in File |-> None]
  /\ exited = FALSE
  /\ builtModels = [m \in Model |-> None]
  /\ pc = [t \in Thread |-> "idle"]
  /\ op = [t \in Thread |-> "none"]
  /\ index = [t \in Thread |-> PLUGIN]
  /\ isHCLTried = [t \in Thread |-> FALSE]
  /\ modelRuntime = [t \in Thread |-> None]
  /\ options = [t \in Thread |-> None]
  /\ table = [t \in Thread |-> None]
  /\ asked = [t \in Thread |-> {}]

Begin(t) == TryRestore(t) \/ TryBuild(t) \/ FindHcl(t) \/ NeedTable(t)

Continue(t) ==
  \/ Skip(t) \/ Check(t) \/ Lock(t) \/ Recheck(t)
  \/ Create(t) \/ CreateNothing(t) \/ Add(t) \/ Unlock(t)
  \/ Nothing(t) \/ Got(t) \/ Refused(t) \/ Accepted(t) \/ NotFound(t)
  \/ Found(t) \/ LockTable(t) \/ InitTable(t) \/ UnlockTable(t)

Next ==
  \/ \E t \in Thread : Begin(t) \/ Continue(t)
  \/ \E m \in Model : Destroy(m)
  \/ Install \/ DeInit \/ Exited

Spec == Init /\ [][Next]_vars

\* A thread inside a call goes on; a mutex is handed out fairly.
Fairness == \A t \in Thread : WF_vars(Continue(t)) /\ SF_vars(Lock(t)) /\ SF_vars(LockTable(t))

FairSpec == Spec /\ Fairness
-----------------------------------------------------------------------------
(* Properties *)

Label == {"idle", "look", "lock", "load", "create", "add", "unlock", "got", "ask", "end", "wait", "inited"}

\* Type invariant; the loops stay within the enumeration of the types.
TypeOK ==
  /\ device \in DeviceType
  /\ runtimes \in [Type -> Object \cup {None}]
  /\ g_runtimesMutex \in Thread \cup {None}
  /\ enhanceChecked \in BOOLEAN
  /\ funcs \in [Table -> Object \cup {V1, None}]
  /\ g_initMutex \in [File -> Thread \cup {None}]
  /\ exited \in BOOLEAN
  /\ memory \in [Object -> Type \cup {None}]
  /\ builtModels \in [Model -> Object \cup {None}]
  /\ pc \in [Thread -> Label]
  /\ op \in [Thread -> Pass \cup Search \cup {"none"}]
  /\ index \in [Thread -> Type]
  /\ isHCLTried \in [Thread -> BOOLEAN]
  /\ modelRuntime \in [Thread -> Object \cup {None}]
  /\ options \in [Thread -> Object \cup {V1, None}]
  /\ table \in [Thread -> Table \cup {None}]
  /\ asked \in [Thread -> SUBSET Type]

NoMalformed == \A i \in Type : device.kind[i] # "malformed"

\* Whether o is, or is about to be, the repository's runtime of type i.
Kept(o, i) ==
  \/ runtimes[i] = o
  \/ \E t \in Thread : modelRuntime[t] = o /\ index[t] = i

\* Each library is loaded at most once and none is lost: while the process
\* lives the repository and the heap agree, so every built model and every table
\* that keeps a runtime's address keeps the one runtime of that type.
RuntimesOwned ==
  NoMalformed /\ ~exited =>
    /\ \A o \in Object, i \in Type : memory[o] = i <=> Kept(o, i)
    /\ \A o \in Object :
         (\E m \in Model : builtModels[m] = o) \/ (\E tab \in Table : funcs[tab] = o)
           => \E i \in Type : runtimes[i] = o

\* Also with libraries that free their object: none is loaded twice, no object
\* is lost.
LoadedOnce == \A o \in Object, i \in Type : memory[o] = i => Kept(o, i)

\* The process never holds two HCL libraries, whatever calls came first, unless
\* one is installed while it runs: PLUGIN, LOCALHCL and ROMHCL are three builds
\* of the same code with its own global state.
OneHcl ==
  ~Upgradable =>
    \A i, j \in Hcl : runtimes[i] # None /\ runtimes[j] # None => i = j

\* An HCL runtime that has option functions of its own is only given options
\* that they made, and one that has none the options compiled in: the layout of
\* the options is private to who made them.
OptionsUnderstood ==
  \A t \in Thread :
    ~Upgradable /\ NoMalformed /\ pc[t] = "ask" /\ index[t] \in Hcl =>
      options[t] \in {None, IF "options" \in SymbolsAt(runtimes[index[t]])
                            THEN runtimes[index[t]] ELSE V1}

\* A call fails only when every supported runtime of the device was asked, the
\* HCL libraries counting as one.
FailedAskedAll ==
  \A t \in Thread :
    LET there == {i \in Supported : device.kind[i] = "usable"} IN
    ~Upgradable /\ pc[t] = "end" /\ op[t] \in Pass =>
      /\ there \ Hcl \subseteq asked[t]
      /\ there \cap Hcl # {} => asked[t] \cap Hcl # {}

\* When the static objects are destroyed nothing stays loaded.
ExitUnloadsAll == exited => \A o \in Object : memory[o] = None

\* Every call ends, the ones that wait for a lock included.
CallEnds == \A t \in Thread : pc[t] # "idle" ~> pc[t] = "idle"

-----------------------------------------------------------------------------
(* What the runs check together *)

\* A library stays loaded while an object of it can be used, is never loaded
\* beside itself, and is unloaded by the time the process ends.
LibrariesSound == RuntimesOwned /\ LoadedOnce /\ ExitUnloadsAll

\* One HCL serves the process, and a build fails only when all were asked.
ChoiceSound == OneHcl /\ FailedAskedAll

=============================================================================
