------------------------- MODULE AiModelMngerClient -------------------------
(***************************************************************************)
(* The V1 interface: one AiModelMngerClient object                         *)
(* (framework/model_manager/compatible/HiAiModelManagerService.cpp) over   *)
(* IModelManager objects, which keep the promises of RunLedger             *)
(* (ModelManager).                                                         *)
(*                                                                         *)
(* Several threads may be inside Process at once; the runtime reports runs *)
(* at any time.  Init, Load and UnLoadModel are called by a thread while   *)
(* no other thread is inside a call: they change maps that every other     *)
(* call reads without a lock (README, section 6).                          *)
(***************************************************************************)
EXTENDS Naturals, Sequences, FiniteSets

CONSTANTS
  User,        \* threads that use the object
  Name,        \* model names
  Manager,     \* IModelManager objects (bounds the successful loads)
  Listener,    \* AiModelManagerClientListener objects
  Run,         \* asynchronous runs
  MaxInit,     \* bound on the Init calls
  MaxList,     \* bound on the length of Load's list
  ID_OFFSET,   \* modulus of the stamps
  None         \* the null pointer

ASSUME ClientAssumption ==
  /\ None \notin User \cup Name \cup Manager \cup Listener \cup Run
  /\ MaxInit \in Nat /\ MaxList \in Nat
  /\ ID_OFFSET \in Nat \ {0}

VARIABLES
  (* locals of the threads *)
  pc,            \* where the thread is
  list,          \* Load: the descriptions not visited yet
  modelNameList, \* Load: the names loaded by this call
  target,        \* Process: the manager found
  aipp,          \* Process: whether the inputs carry AIPP parameters
  sum,           \* Generate: the value computed from the counter
  piStamp,       \* the out parameter of Process, as the caller sees it
  (* members of the object, and the counter of the process *)
  inited, listener, listenerImpl, modelManagerMap, builtModelMap, taskIdMaxNum,
  inits,         \* Init calls so far
  (* the managers *)
  state,         \* each manager: not created, initialised, de-initialised
  given,         \* the listener passed to its Init
  status, owner, open,   \* the ledger of their runs
  stamp          \* the task_id in the context of each run

locals   == <<pc, list, modelNameList, target, aipp, sum, piStamp>>
setting  == <<inited, listener, inits>>
maps     == <<modelManagerMap, builtModelMap>>
ledger   == <<status, owner, open>>
managers == <<state, given, ledger, stamp>>
vars == <<locals, setting, listenerImpl, maps, taskIdMaxNum, managers>>

Ledger == INSTANCE RunLedger WITH Client <- Manager, Nobody <- None

Goto(u, where) == pc' = [pc EXCEPT ![u] = where]

\* A call returns; its locals go.
Return(u) ==
  /\ Goto(u, "idle")
  /\ list' = [list EXCEPT ![u] = <<>>]
  /\ modelNameList' = [modelNameList EXCEPT ![u] = {}]
  /\ target' = [target EXCEPT ![u] = None]
  /\ aipp' = [aipp EXCEPT ![u] = FALSE]
  /\ piStamp' = [piStamp EXCEPT ![u] = 0]
  /\ UNCHANGED sum

\* A thread may start Init, Load or UnLoadModel.
Alone == \A u \in User : pc[u] = "idle"

\* A thread may start Process.
NoLoader == \A u \in User : pc[u] \notin {"load", "undo", "unload"}

-----------------------------------------------------------------------------
(* AiModelMngerClient::Init *)

InitCall(u) ==
  /\ Alone
  /\ inits < MaxInit
  /\ inits' = inits + 1
  /\ inited' = TRUE
  /\ \E l \in Listener \cup {None} : listener' = l
  /\ UNCHANGED <<locals, listenerImpl, maps, taskIdMaxNum, managers>>

-----------------------------------------------------------------------------
(* Load *)

Descriptions == UNION {[1 .. n -> Name] : n \in 0 .. MaxList}

\* The wrapper of an earlier listener stays when there is none now.
Load(u) ==
  /\ Alone
  /\ inited
  /\ listenerImpl' = IF listener # None THEN listener ELSE listenerImpl
  /\ \E descriptions \in Descriptions : list' = [list EXCEPT ![u] = descriptions]
  /\ modelNameList' = [modelNameList EXCEPT ![u] = {}]
  /\ Goto(u, "load")
  /\ UNCHANGED <<target, aipp, sum, piStamp, setting, maps, taskIdMaxNum, managers>>

\* Faulty variant: only the list of this call is searched.
RepeatedInList(u, n) == n \in modelNameList[u]

Repeated(u, n) == modelManagerMap[n] # None \/ n \in modelNameList[u]

\* Faulty variant: the loop ends and Load returns.
LoadFailsAtOnce(u) ==
  /\ pc[u] = "load"
  /\ list[u] # <<>>
  /\ Return(u)
  /\ UNCHANGED <<setting, listenerImpl, maps, taskIdMaxNum, managers>>

\* A repeated name, or no manager, buffer or built model, or Init fails: the
\* loop ends and everything is unloaded.
LoadFails(u) ==
  /\ pc[u] = "load"
  /\ list[u] # <<>>
  /\ Goto(u, "undo")
  /\ UNCHANGED <<list, modelNameList, target, aipp, sum, piStamp, setting, listenerImpl, maps,
                 taskIdMaxNum, managers>>

\* map::insert leaves an entry that is there alone.
Insert(map, n, k) == IF map[n] = None THEN [map EXCEPT ![n] = k] ELSE map

LoadModel(u) ==
  /\ pc[u] = "load"
  /\ list[u] # <<>>
  /\ LET n == Head(list[u]) IN
       /\ ~Repeated(u, n)
       /\ \E k \in Manager :
            /\ state[k] = "none"
            /\ state' = [state EXCEPT ![k] = "up"]
            /\ given' = [given EXCEPT ![k] = listenerImpl]
            /\ modelManagerMap' = Insert(modelManagerMap, n, k)
            /\ builtModelMap' = Insert(builtModelMap, n, k)
       /\ modelNameList' = [modelNameList EXCEPT ![u] = @ \cup {n}]
  /\ list' = [list EXCEPT ![u] = Tail(@)]
  /\ UNCHANGED <<pc, target, aipp, sum, piStamp, setting, listenerImpl, taskIdMaxNum, ledger,
                 stamp>>

LoadReturn(u) ==
  /\ pc[u] = "load"
  /\ list[u] = <<>>
  /\ Return(u)
  /\ UNCHANGED <<setting, listenerImpl, maps, taskIdMaxNum, managers>>

-----------------------------------------------------------------------------
(* UnLoadModel, by itself or at the end of a failed Load *)

UnLoadModel(u) ==
  /\ Alone
  /\ Goto(u, "unload")
  /\ UNCHANGED <<list, modelNameList, target, aipp, sum, piStamp, setting, listenerImpl, maps,
                 taskIdMaxNum, managers>>

\* The managers UnLoadModel visits.
Loaded == {modelManagerMap[n] : n \in {m \in Name : modelManagerMap[m] # None}}

\* Faulty variant: the manager is dropped with its runs pending.
DeInitForgotten(u) ==
  /\ pc[u] \in {"undo", "unload"}
  /\ \E k \in Loaded :
       /\ state[k] = "up"
       /\ state' = [state EXCEPT ![k] = "down"]
       /\ given' = [given EXCEPT ![k] = None]
  /\ UNCHANGED <<locals, setting, listenerImpl, maps, taskIdMaxNum, ledger, stamp>>

\* One manager's DeInit: what it had pending is not reported any more.
DeInit(u) ==
  /\ pc[u] \in {"undo", "unload"}
  /\ \E k \in Loaded :
       /\ state[k] = "up"
       /\ state' = [state EXCEPT ![k] = "down"]
       /\ given' = [given EXCEPT ![k] = None]
       /\ Ledger!Close(k)
  /\ UNCHANGED <<locals, setting, listenerImpl, maps, taskIdMaxNum, stamp>>

\* Faulty variant: the built models are kept.
ClearManagers(u) ==
  /\ pc[u] \in {"undo", "unload"}
  /\ \A k \in Loaded : state[k] = "down"
  /\ modelManagerMap' = [n \in Name |-> None]
  /\ Return(u)
  /\ UNCHANGED <<setting, listenerImpl, builtModelMap, taskIdMaxNum, managers>>

Clear(u) ==
  /\ pc[u] \in {"undo", "unload"}
  /\ \A k \in Loaded : state[k] = "down"
  /\ modelManagerMap' = [n \in Name |-> None]
  /\ builtModelMap' = [n \in Name |-> None]
  /\ Return(u)
  /\ UNCHANGED <<setting, listenerImpl, taskIdMaxNum, managers>>

-----------------------------------------------------------------------------
(* Process *)

Process(u) ==
  /\ pc[u] = "idle"
  /\ NoLoader
  /\ inited
  /\ \E n \in Name, withAipp \in BOOLEAN :
       /\ modelManagerMap[n] # None
       /\ target' = [target EXCEPT ![u] = modelManagerMap[n]]
       /\ aipp' = [aipp EXCEPT ![u] = withAipp]
  /\ Goto(u, "generate")
  /\ UNCHANGED <<list, modelNameList, sum, piStamp, setting, listenerImpl, maps, taskIdMaxNum,
                 managers>>

\* Faulty variant: the counter is not wrapped.
GenerateReadUnwrapped(u) ==
  /\ pc[u] = "generate"
  /\ sum' = [sum EXCEPT ![u] = taskIdMaxNum + 1]
  /\ Goto(u, "write")
  /\ UNCHANGED <<list, modelNameList, target, aipp, piStamp, setting, listenerImpl, maps,
                 taskIdMaxNum, managers>>

\* Generate: taskIdMaxNum is atomic, but the assignment reads it and writes it
\* apart, and the return reads it once more.
GenerateRead(u) ==
  /\ pc[u] = "generate"
  /\ sum' = [sum EXCEPT ![u] = (taskIdMaxNum + 1) % ID_OFFSET]
  /\ Goto(u, "write")
  /\ UNCHANGED <<list, modelNameList, target, aipp, piStamp, setting, listenerImpl, maps,
                 taskIdMaxNum, managers>>

GenerateWrite(u) ==
  /\ pc[u] = "write"
  /\ taskIdMaxNum' = sum[u]
  /\ sum' = [sum EXCEPT ![u] = 0]
  /\ Goto(u, "stamp")
  /\ UNCHANGED <<list, modelNameList, target, aipp, piStamp, setting, listenerImpl, maps,
                 managers>>

GenerateReturn(u) ==
  /\ pc[u] = "stamp"
  /\ piStamp' = [piStamp EXCEPT ![u] = taskIdMaxNum]
  /\ Goto(u, "run")
  /\ UNCHANGED <<list, modelNameList, target, aipp, sum, setting, listenerImpl, maps,
                 taskIdMaxNum, managers>>

\* Whether the manager is asked to report: RunAsync, or RunAippModel of a
\* manager that has a listener.
Asynchronous(u) ==
  /\ given[target[u]] # None
  /\ aipp[u] \/ listener # None

RunAsync(u) ==
  /\ pc[u] = "run"
  /\ Asynchronous(u)
  /\ \E r \in Run :
       /\ Ledger!Accept(target[u], r)
       /\ stamp' = [stamp EXCEPT ![r] = piStamp[u]]
  /\ Return(u)
  /\ UNCHANGED <<setting, listenerImpl, maps, taskIdMaxNum, state, given>>

\* A synchronous run, or one that the manager refuses or fails.
RunNow(u) ==
  /\ pc[u] = "run"
  /\ Return(u)
  /\ UNCHANGED <<setting, listenerImpl, maps, taskIdMaxNum, managers>>

\* ManagerListenerImpl::OnRunDone calls OnProcessDone with the stamp of the
\* context.
OnRunDone(r) ==
  /\ Ledger!Report(r)
  /\ stamp' = [stamp EXCEPT ![r] = 0]
  /\ UNCHANGED <<locals, setting, listenerImpl, maps, taskIdMaxNum, state, given>>

\* The manager announces that its service died; every pending run ends.
OnServiceDied ==
  /\ Ledger!Pending # {}
  /\ Ledger!ServiceDied
  /\ UNCHANGED <<locals, setting, listenerImpl, maps, taskIdMaxNum, state, given, stamp>>

-----------------------------------------------------------------------------
Init ==
  /\ pc = [u \in User |-> "idle"]
  /\ list = [u \in User |-> <<>>]
  /\ modelNameList = [u \in User |-> {}]
  /\ target = [u \in User |-> None]
  /\ aipp = [u \in User |-> FALSE]
  /\ sum = [u \in User |-> 0]
  /\ piStamp = [u \in User |-> 0]
  /\ inited = FALSE
  /\ listener = None
  /\ listenerImpl = None
  /\ inits = 0
  /\ modelManagerMap = [n \in Name |-> None]
  /\ builtModelMap = [n \in Name |-> None]
  /\ taskIdMaxNum = 0
  /\ state = [k \in Manager |-> "none"]
  /\ given = [k \in Manager |-> None]
  /\ Ledger!Init
  /\ stamp = [r \in Run |-> 0]

LoadStep(u) == Load(u) \/ LoadFails(u) \/ LoadModel(u) \/ LoadReturn(u)

UnLoadStep(u) == UnLoadModel(u) \/ DeInit(u) \/ Clear(u)

ProcessStep(u) ==
  \/ Process(u)
  \/ GenerateRead(u) \/ GenerateWrite(u) \/ GenerateReturn(u)
  \/ RunAsync(u) \/ RunNow(u)

Next ==
  \/ \E u \in User : InitCall(u) \/ LoadStep(u) \/ UnLoadStep(u) \/ ProcessStep(u)
  \/ \E r \in Run : OnRunDone(r)
  \/ OnServiceDied

Spec == Init /\ [][Next]_vars

-----------------------------------------------------------------------------
(* Properties *)

StampRange == 0 .. (ID_OFFSET - 1)

\* Type invariant; the stamps stay below ID_OFFSET.
TypeOK ==
  /\ pc \in [User -> {"idle", "load", "undo", "unload", "generate", "write", "stamp", "run"}]
  /\ list \in [User -> Seq(Name)]
  /\ modelNameList \in [User -> SUBSET Name]
  /\ target \in [User -> Manager \cup {None}]
  /\ aipp \in [User -> BOOLEAN]
  /\ sum \in [User -> StampRange]
  /\ piStamp \in [User -> StampRange]
  /\ inited \in BOOLEAN
  /\ listener \in Listener \cup {None}
  /\ listenerImpl \in Listener \cup {None}
  /\ inits \in 0 .. MaxInit
  /\ modelManagerMap \in [Name -> Manager \cup {None}]
  /\ builtModelMap \in [Name -> Manager \cup {None}]
  /\ taskIdMaxNum \in StampRange
  /\ state \in [Manager -> {"none", "up", "down"}]
  /\ given \in [Manager -> Listener \cup {None}]
  /\ status \in [Run -> {"free", "pending", "reported", "died", "dropped"}]
  /\ owner \in [Run -> Manager \cup {None}]
  /\ open \in SUBSET Manager
  /\ stamp \in [Run -> StampRange]

\* The tensor descriptions that GetModelIOTensorDim and GetModelAippPara return
\* for a name are those of the model that Process runs under that name.
MapsAgree == builtModelMap = modelManagerMap

\* Every manager that holds a loaded model is in the map, under one name: no
\* model stays on the NPU out of UnLoadModel's reach.
ManagersOwned ==
  \A k \in Manager : state[k] = "up" =>
    /\ \E n \in Name : modelManagerMap[n] = k
    /\ \A m, n \in Name : modelManagerMap[m] = k /\ modelManagerMap[n] = k => m = n

\* A run that may still be reported belongs to a model that the user can name,
\* in Cancel or by unloading it.
PendingReachable ==
  \A r \in Ledger!Pending : \E n \in Name : modelManagerMap[n] = owner[r]

\* Load is in its loop, or in the UnLoadModel after it.
LoadPending(u) == pc[u] = "undo" \/ (pc[u] = "load" /\ list[u] # <<>>)

ReturnsUnloaded ==
  \A u \in User : LoadPending(u) /\ pc'[u] = "idle" => \A k \in Manager : state'[k] # "up"

\* A Load that failed returns when every model is unloaded, those of earlier
\* calls included (the comment at HiAiModelManagerService.cpp:226).
FailedLoadUnloads == [][ReturnsUnloaded]_vars

\* Two pending runs never carry the same stamp: the generator's comment
\* (HiAiModelManagerService.cpp:194) says that the ids are unique.
StampsUnique ==
  \A q, r \in Ledger!Pending : stamp[q] = stamp[r] => q = r

-----------------------------------------------------------------------------
(* What the runs check together *)

\* The two maps name the same models, every live manager is in them once, and
\* a pending run can be answered through them.
ModelsSound == MapsAgree /\ ManagersOwned /\ PendingReachable

=============================================================================
