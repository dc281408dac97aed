---------------------------- MODULE ModelManager ----------------------------
(***************************************************************************)
(* The C++ API: one ModelManagerImpl object (framework/model_manager/core) *)
(* used by several threads, over a runtime that keeps the promises of      *)
(* RunLedger (DirectModelManager implements it) behind the C functions     *)
(* HIAI_MR_ModelManager_* (framework/model_runtime/core).                  *)
(*                                                                         *)
(* The object owns a RunAsyncContext per asynchronous run and hands its    *)
(* raw address to the runtime; it also owns the HIAI_MR_ModelManagerListener *)
(* whose raw address the runtime keeps.  A callback runs on a thread of    *)
(* the runtime, which holds the runtime's callback lock throughout and     *)
(* takes listenerMutex_ inside it.                                         *)
(*                                                                         *)
(* DeInit gives modelManagerMutex_ back before it drops the listener, so    *)
(* an Init may overtake it and have its own listener dropped: the handle    *)
(* is robbed.  The runtime then keeps the address of a C listener that was  *)
(* freed, which is undefined behaviour when it calls back; the actions show *)
(* the outcome in which the freed memory still has its contents.            *)
(*                                                                         *)
(* The runtime does not announce the death of its service here: the static *)
(* OnServiceDied dereferences the userData of the C listener, which is     *)
(* always null, so the process ends (README, section 6).                   *)
(***************************************************************************)
EXTENDS Naturals, FiniteSets

CONSTANTS
  User,        \* threads that use the object
  Listener,    \* IModelManagerListener objects of the users
  Context,     \* RunAsyncContext objects (bounds the asynchronous runs)
  Handle,      \* HIAI_MR_ModelManager objects (bounds the initialisations)
  MaxInit,     \* bound on the Init calls
  None         \* the null pointer

ASSUME ManagerAssumption ==
  /\ None \notin User \cup Listener \cup Context \cup Handle
  /\ MaxInit \in Nat

VARIABLES
  (* locals of the threads *)
  pc,            \* where the thread is
  op,            \* the call it executes
  arg,           \* the listener given to Init, or the runContext of a run
  ret,           \* the status the runtime returned (TRUE: SUCCESS)
  (* members of the object *)
  mutex,         \* the owners of modelManagerMutex_ and listenerMutex_
  modelManager,  \* modelManager_
  listener,      \* listener_
  cListener,     \* cListener_, numbered by the Init that made it (0: null)
  inits,         \* Init calls so far
  context,       \* each RunAsyncContext: not made, live, deleted
  alive,         \* the object is not destroyed
  (* the runtime *)
  userListener,  \* per handle, the C listener it keeps; 0: none
  ready,         \* the handles whose model is loaded
  status, owner, open,   \* its ledger of runs
  callback,      \* the callback in progress: the context and what comes next
  (* history *)
  made,          \* the handles made so far
  robbed,        \* the handles whose listener a DeInit they overtook dropped
  bound          \* listener_ when each context was submitted

locals   == <<pc, op, arg, ret>>
members  == <<modelManager, listener, cListener, inits, alive>>
ledger   == <<status, owner, open>>
runtime  == <<userListener, ready>>
history  == <<made, robbed, bound>>
vars == <<locals, mutex, members, context, runtime, ledger, callback, history>>

Runtime == INSTANCE RunLedger WITH Run <- Context, Client <- Handle, Nobody <- None

NoCallback == [at |-> None, next |-> "none"]

Free(m) == mutex[m] = None

Goto(u, where) == pc' = [pc EXCEPT ![u] = where]

Return(u) == Goto(u, "idle") /\ op' = [op EXCEPT ![u] = "none"]
                             /\ arg' = [arg EXCEPT ![u] = None]

\* The lock_guard of modelManagerMutex_ goes out of scope.
Unlock == mutex' = [mutex EXCEPT !["manager"] = None]

\* A call begins once it has modelManagerMutex_; nothing it does before that
\* changes the state.
Begin(u, call, a, where) ==
  /\ alive
  /\ pc[u] = "idle"
  /\ Free("manager")
  /\ mutex' = [mutex EXCEPT !["manager"] = u]
  /\ op' = [op EXCEPT ![u] = call]
  /\ arg' = [arg EXCEPT ![u] = a]
  /\ Goto(u, where)

-----------------------------------------------------------------------------
(* ModelManagerImpl::Init.  An Init on an initialised object is refused and *)
(* changes nothing.                                                         *)

InitBegin(u) ==
  /\ inits < MaxInit
  /\ modelManager = None
  /\ inits' = inits + 1
  /\ \E l \in Listener \cup {None} :
       Begin(u, "Init", l, IF l = None THEN "create" ELSE "prepare")
  /\ UNCHANGED <<ret, modelManager, listener, cListener, alive, context, runtime,
                 ledger, callback, history>>

\* PrepareModelManagerListener
InitPrepare(u) ==
  /\ pc[u] = "prepare"
  /\ Free("listener")
  /\ cListener' = inits
  /\ listener' = arg[u]
  /\ Goto(u, "create")
  /\ UNCHANGED <<op, arg, ret, mutex, modelManager, inits, alive, context, runtime,
                 ledger, callback, history>>

\* PrepareModelManager up to HIAI_MR_ModelManager_Create: the built model is of
\* another kind or empty, or the handle cannot be made.
InitCreateFails(u) ==
  /\ pc[u] = "create"
  /\ Unlock
  /\ Return(u)
  /\ UNCHANGED <<ret, members, context, runtime, ledger, callback, history>>

InitCreate(u) ==
  /\ pc[u] = "create"
  /\ \E h \in open \ made : modelManager' = h /\ made' = made \cup {h}
  /\ Goto(u, "load")
  /\ UNCHANGED <<op, arg, ret, mutex, listener, cListener, inits, alive, context, runtime,
                 ledger, callback, robbed, bound>>

\* HIAI_MR_ModelManager_Init: the runtime loads the model and keeps the address
\* of the C listener, or fails.  A load with a listener is registered under the
\* runtime's callback lock.
InitLoad(u) ==
  /\ pc[u] = "load"
  /\ cListener # 0 => callback = NoCallback
  /\ \/ /\ ready' = ready \cup {modelManager}
        /\ userListener' = [userListener EXCEPT ![modelManager] = cListener]
     \/ UNCHANGED runtime
  /\ Unlock
  /\ Return(u)
  /\ UNCHANGED <<ret, members, context, ledger, callback, history>>

-----------------------------------------------------------------------------
(* ModelManagerImpl::RunAsync and RunAippModel *)

NewContext(u, call) ==
  \E c \in Context :
    /\ context[c] = "none"
    /\ context' = [context EXCEPT ![c] = "live"]
    /\ bound' = [bound EXCEPT ![c] = listener]
    /\ Begin(u, call, c, "submit")

RunAsync(u) ==
  /\ listener # None
  /\ NewContext(u, "RunAsync")
  /\ UNCHANGED <<ret, members, runtime, ledger, callback, made, robbed>>

RunAippModel(u) ==
  /\ NewContext(u, "RunAipp")
  /\ UNCHANGED <<ret, members, runtime, ledger, callback, made, robbed>>

Loaded == modelManager # None /\ modelManager \in ready

\* The runtime accepts the run and will call back with the context.
SubmitAccepted(u) ==
  /\ pc[u] = "submit"
  /\ Loaded
  /\ userListener[modelManager] # 0
  /\ callback = NoCallback
  /\ Runtime!Accept(modelManager, arg[u])
  /\ ret' = [ret EXCEPT ![u] = TRUE]
  /\ Goto(u, "submitted")
  /\ UNCHANGED <<op, arg, mutex, members, context, runtime, callback, history>>

\* Without a listener RunAippModel runs at once.
SubmitSync(u) ==
  /\ pc[u] = "submit"
  /\ Loaded
  /\ op[u] = "RunAipp"
  /\ userListener[modelManager] = 0
  /\ ret' = [ret EXCEPT ![u] = TRUE]
  /\ Goto(u, "submitted")
  /\ UNCHANGED <<op, arg, mutex, members, context, runtime, ledger, callback, history>>

\* There is no loaded model, or the runtime refuses.
SubmitRefused(u) ==
  /\ pc[u] = "submit"
  /\ ret' = [ret EXCEPT ![u] = FALSE]
  /\ Goto(u, "submitted")
  /\ UNCHANGED <<op, arg, mutex, members, context, runtime, ledger, callback, history>>

\* Faulty variant: the refused context is forgotten.
DropsContextNever(u) == op[u] = "RunAipp" /\ listener = None

\* Faulty variant: RunAippModel takes every run for a synchronous one.
DropsContextAipp(u) == op[u] = "RunAipp" \/ ~ret[u]

\* Who still owns the context after the runtime returned.
DropsContext(u) == \/ ~ret[u]
                   \/ op[u] = "RunAipp" /\ listener = None

RunReturn(u) ==
  /\ pc[u] = "submitted"
  /\ context' = IF DropsContext(u) THEN [context EXCEPT ![arg[u]] = "deleted"] ELSE context
  /\ Unlock
  /\ Return(u)
  /\ ret' = [ret EXCEPT ![u] = FALSE]
  /\ UNCHANGED <<members, runtime, ledger, callback, history>>

-----------------------------------------------------------------------------
(* ModelManagerImpl::DeInit and the destructor *)

\* Faulty variant: the listener is dropped before the runtime is torn down.
DeInitEarly(u) ==
  /\ Begin(u, "DeInit", None, "deinit")
  /\ listener' = None /\ cListener' = 0
  /\ UNCHANGED <<ret, modelManager, inits, alive, context, runtime, ledger, callback, history>>

DeInit(u) ==
  /\ Begin(u, "DeInit", None, "deinit")
  /\ UNCHANGED <<ret, members, context, runtime, ledger, callback, history>>

\* The destructor; nobody else uses the object any more.
Destruct(u) ==
  /\ \A v \in User : pc[v] = "idle"
  /\ IF modelManager = None
     THEN alive' = FALSE /\ UNCHANGED <<locals, mutex>>
     ELSE Begin(u, "Destruct", None, "deinit") /\ UNCHANGED <<ret, alive>>
  /\ UNCHANGED <<modelManager, listener, cListener, inits, context, runtime, ledger, callback,
                 history>>

\* Faulty variant: the destructor only lets go of the handle.
UnLoadDeinitSkipped(u) ==
  /\ pc[u] = "deinit"
  /\ IF modelManager = None \/ op[u] = "Destruct"
     THEN UNCHANGED runtime
     ELSE /\ ready' = ready \ {modelManager}
          /\ userListener' = [userListener EXCEPT ![modelManager] = 0]
  /\ Goto(u, "reset")
  /\ UNCHANGED <<op, arg, ret, mutex, members, context, ledger, callback, history>>

\* UnLoad: HIAI_MR_ModelManager_Deinit, which unloads the model and forgets
\* the listener.
UnLoadDeinit(u) ==
  /\ pc[u] = "deinit"
  /\ IF modelManager = None
     THEN UNCHANGED runtime
     ELSE /\ ready' = ready \ {modelManager}
          /\ userListener' = [userListener EXCEPT ![modelManager] = 0]
  /\ Goto(u, "reset")
  /\ UNCHANGED <<op, arg, ret, mutex, members, context, ledger, callback, history>>

\* Faulty variant: the handle is given up while a callback is in progress.
UnLoadResetUnlocked(u) ==
  /\ pc[u] = "reset"
  /\ IF modelManager = None THEN UNCHANGED ledger ELSE Runtime!Close(modelManager)
  /\ modelManager' = None
  /\ alive' = (op[u] # "Destruct")
  /\ Unlock
  /\ IF op[u] = "DeInit" THEN Goto(u, "clear") /\ UNCHANGED <<op, arg>> ELSE Return(u)
  /\ UNCHANGED <<ret, listener, cListener, inits, context, runtime, callback, history>>

\* modelManager_.reset(): the runtime destroys the handle, and waits for the
\* callback in progress to do so.
UnLoadReset(u) ==
  /\ pc[u] = "reset"
  /\ IF modelManager = None
     THEN UNCHANGED ledger
     ELSE callback = NoCallback /\ Runtime!Close(modelManager)
  /\ modelManager' = None
  /\ alive' = (op[u] # "Destruct")
  /\ Unlock
  /\ IF op[u] = "DeInit" THEN Goto(u, "clear") /\ UNCHANGED <<op, arg>> ELSE Return(u)
  /\ UNCHANGED <<ret, listener, cListener, inits, context, runtime, callback, history>>

\* The end of DeInit, under listenerMutex_ only: whatever handle an Init has made
\* in the meantime loses its listener.
DeInitClear(u) ==
  /\ pc[u] = "clear"
  /\ Free("listener")
  /\ listener' = None
  /\ cListener' = 0
  /\ robbed' = robbed \cup ({modelManager} \ {None})
  /\ Return(u)
  /\ UNCHANGED <<ret, mutex, modelManager, inits, alive, context, runtime, ledger, callback,
                 made, bound>>

-----------------------------------------------------------------------------
(* The callback onRunDone *)

\* The runtime finds the run and calls through the C listener it keeps.
AnswerBegin(c) ==
  /\ callback = NoCallback
  /\ status[c] = "pending"
  /\ userListener[owner[c]] # 0
  /\ callback' = [at |-> c, next |-> "lock"]
  /\ UNCHANGED <<locals, mutex, members, context, runtime, ledger, history>>

\* The member OnRunDone takes listenerMutex_ and calls listener_, if there is one.
AnswerLock ==
  /\ callback.next = "lock"
  /\ Free("listener")
  /\ mutex' = [mutex EXCEPT !["listener"] = "runtime"]
  /\ callback' = [callback EXCEPT !.next = "user"]
  /\ UNCHANGED <<locals, members, context, runtime, ledger, history>>

AnswerUnlock ==
  /\ callback.next = "user"
  /\ mutex' = [mutex EXCEPT !["listener"] = None]
  /\ callback' = [callback EXCEPT !.next = "delete"]
  /\ UNCHANGED <<locals, members, context, runtime, ledger, history>>

\* Faulty variant: the entry stays open and the run is answered again.
AnswerEndAgain ==
  /\ callback.next = "delete"
  /\ callback' = [callback EXCEPT !.next = "lock"]
  /\ UNCHANGED <<locals, mutex, members, context, runtime, ledger, history>>

\* The static OnRunDone deletes the context; the runtime closes its entry and
\* releases the callback lock.
AnswerEnd ==
  /\ callback.next = "delete"
  /\ context' = [context EXCEPT ![callback.at] = "deleted"]
  /\ Runtime!Report(callback.at)
  /\ callback' = NoCallback
  /\ UNCHANGED <<locals, mutex, members, runtime, history>>

-----------------------------------------------------------------------------
Init ==
  /\ pc = [u \in User |-> "idle"]
  /\ op = [u \in User |-> "none"]
  /\ arg = [u \in User |-> None]
  /\ ret = [u \in User |-> FALSE]
  /\ mutex = [m \in {"manager", "listener"} |-> None]
  /\ modelManager = None
  /\ listener = None
  /\ cListener = 0
  /\ inits = 0
  /\ context = [c \in Context |-> "none"]
  /\ alive = TRUE
  /\ userListener = [h \in Handle |-> 0]
  /\ ready = {}
  /\ Runtime!Init
  /\ callback = NoCallback
  /\ made = {}
  /\ robbed = {}
  /\ bound = [c \in Context |-> None]

\* What a thread does once it is inside a call.
InCall(u) ==
  \/ InitPrepare(u) \/ InitCreateFails(u) \/ InitCreate(u) \/ InitLoad(u)
  \/ SubmitAccepted(u) \/ SubmitSync(u) \/ SubmitRefused(u) \/ RunReturn(u)
  \/ UnLoadDeinit(u) \/ UnLoadReset(u) \/ DeInitClear(u)

Call(u) == InitBegin(u) \/ RunAsync(u) \/ RunAippModel(u) \/ DeInit(u) \/ Destruct(u)

InCallback == AnswerLock \/ AnswerUnlock \/ AnswerEnd

Terminated == ~alive /\ UNCHANGED vars

Next ==
  \/ \E u \in User : InCall(u) \/ Call(u)
  \/ \E c \in Context : AnswerBegin(c)
  \/ InCallback
  \/ Terminated

Spec == Init /\ [][Next]_vars

\* A thread inside a call is scheduled, and so is a callback; user code returns.
Fairness == (\A u \in User : WF_vars(InCall(u))) /\ WF_vars(InCallback)

FairSpec == Spec /\ Fairness

-----------------------------------------------------------------------------
(* Type invariant: a model is loaded in a handle that exists, and the runtime *)
(* keeps a listener only for a loaded model.                                  *)

TypeOK ==
  /\ pc \in [User -> {"idle", "prepare", "create", "load", "submit", "submitted",
                      "deinit", "reset", "clear"}]
  /\ op \in [User -> {"none", "Init", "RunAsync", "RunAipp", "DeInit", "Destruct"}]
  /\ arg \in [User -> Listener \cup Context \cup {None}]
  /\ ret \in [User -> BOOLEAN]
  /\ mutex \in [{"manager", "listener"} -> User \cup {"runtime", None}]
  /\ modelManager \in Handle \cup {None}
  /\ listener \in Listener \cup {None}
  /\ cListener \in 0 .. MaxInit
  /\ inits \in 0 .. MaxInit
  /\ context \in [Context -> {"none", "live", "deleted"}]
  /\ alive \in BOOLEAN
  /\ userListener \in [Handle -> 0 .. MaxInit]
  /\ ready \subseteq open
  /\ \A h \in Handle : userListener[h] # 0 => h \in ready
  /\ status \in [Context -> {"free", "pending", "reported", "died", "dropped"}]
  /\ owner \in [Context -> Handle \cup {None}]
  /\ open \subseteq Handle
  /\ callback \in {NoCallback} \cup [at : Context, next : {"lock", "user", "delete"}]
  /\ made \subseteq Handle
  /\ robbed \subseteq made
  /\ bound \in [Context -> Listener \cup {None}]

-----------------------------------------------------------------------------
(* Safety *)

\* No use after free, no double delete: while the runtime may still call back
\* with a context, or a call is about to submit or drop it, the context exists,
\* and a context that the callback is going to delete is deleted by nobody else
\* (RunAsync, RunAippModel, static OnRunDone).  The runs of a robbed handle are
\* the exception: RunAippModel takes them for synchronous.
ContextOwned ==
  /\ \A c \in Context : status[c] = "pending" =>
       context[c] = "live" \/ owner[c] \in robbed
  /\ \A u \in User : pc[u] \in {"submit", "submitted"} /\ DropsContext(u) =>
       \/ modelManager \in robbed
       \/ status[arg[u]] # "pending" /\ context[arg[u]] = "live"

\* A context is leaked in one case only: the model manager was de-initialised
\* while the run was pending, and the runtime dropped it without a callback.
ContextAccounted ==
  \A c \in Context : context[c] = "live" =>
    \/ status[c] \in {"pending", "died", "dropped"}
    \/ \E u \in User : pc[u] \in {"submit", "submitted"} /\ arg[u] = c

\* The HIAI_MR_ModelManagerListener the runtime calls through has not been freed:
\* DeInit drops cListener_ only after the runtime forgot it, whoever calls
\* (DeInit, UnLoad, PrepareModelManagerListener), unless it was overtaken.
ListenerAlive ==
  \A h \in open : userListener[h] # 0 => userListener[h] = cListener \/ h \in robbed

\* An answer reaches the listener that was in force when its run was submitted,
\* never one of a later initialisation, and never none unless the handle was
\* robbed; and the object is there to receive it (OnRunDone, DeInit, the
\* destructor).
AnswerToSubmitter ==
  callback # NoCallback =>
    /\ alive
    /\ listener # None => listener = bound[callback.at]
    /\ listener = None => owner[callback.at] \in robbed

\* Only a DeInit in its last step robs, and what it robs is never used by a later
\* initialisation: the robbed handle has no listener for the rest of its life.
RobbedStaysSilent ==
  modelManager \in robbed => listener = None /\ cListener = 0

-----------------------------------------------------------------------------
(* Liveness *)

\* Every call returns, although DeInit waits under modelManagerMutex_ for a
\* callback that itself waits for listenerMutex_.
CallsReturn == \A u \in User : (op[u] # "none") ~> (op[u] = "none")

-----------------------------------------------------------------------------
(* What the runs check together *)

\* Every context belongs to one run and is freed once, whoever drops it.
ContextsSound == ContextOwned /\ ContextAccounted

\* A callback runs on a listener that is installed, and answers its own run.
CallbacksSound == ListenerAlive /\ AnswerToSubmitter /\ RobbedStaysSilent

=============================================================================
