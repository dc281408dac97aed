-------------------------- MODULE DirectModelManager --------------------------
(***************************************************************************)
(* The asynchronous core of the direct runtime: DirectModelManagerImpl     *)
(* (framework/model_runtime/direct), the process-wide table of pending     *)
(* callbacks it shares between all its objects, the container that lends   *)
(* loaded legacy managers to model queries, and the ROM that answers.      *)
(*                                                                         *)
(* Threads.  Each DirectModelManagerImpl object m is driven by one API     *)
(* thread at a time (ModelManagerImpl::modelManagerMutex_), so m also      *)
(* names that thread.  A reader is a thread inside                         *)
(* DirectBuiltModelImpl::GetIONDTensorDesc.  The ROM runs its callbacks on *)
(* threads of its own; a callback holds g_callBackLock from its first to   *)
(* its last statement, user code included.                                 *)
(*                                                                         *)
(* The ROM is external and taken to be as adverse as its C interface       *)
(* allows: it may refuse a request, never answer, answer late (even after  *)
(* the legacy manager was destroyed), answer twice, or answer with an      *)
(* error.  Its one promise is that a new stamp differs from the old ones.  *)
(***************************************************************************)
EXTENDS Naturals, FiniteSets

CONSTANTS
  Manager,     \* DirectModelManagerImpl objects, with their API threads
  Reader,      \* threads that query the tensors of a built model
  BuiltModel,  \* DirectBuiltModelImpl objects, the keys of the container
  Legacy,      \* HIAI_ModelManager objects of the ROM (bounds the Init calls)
  MaxStamp,    \* bound on the task stamps the ROM gives out
  MaxDeath,    \* bound on the service deaths the ROM announces
  None         \* the null pointer

Thread == Manager \cup Reader
Stamp == 1 .. MaxStamp

ASSUME Disjointness ==
  /\ Manager \cap Reader = {}
  /\ None \notin Manager \cup Reader \cup Legacy

ASSUME Bounds == MaxStamp \in Nat /\ MaxDeath \in Nat

VARIABLES
  (* locals of the threads *)
  pc,           \* where the thread is
  op,           \* the API call it executes
  local,        \* its local shared_ptr<HIAI_ModelManager>, or the one it deletes
  stamp,        \* the load or unload it waits for (0: none yet)
  result,       \* InitAsync's `result`
  expired,      \* wait_for has reached its 10 s deadline
  (* members of the DirectModelManagerImpl objects, and the container *)
  manager,           \* manager_
  userListener,      \* userListener_ # nullptr
  modelManagerMap,   \* DirectModelManagerContainer::cModelManagerMap_
  (* globals of direct_model_manager_impl.cpp *)
  callBackMap,  \* g_callBackMap
  handler,      \* the callback that holds g_callBackLock, if one does
  mutex,        \* the owners of g_loadMutex and g_unloadMutex
  (* the ROM *)
  legacy,       \* its manager objects
  issued,       \* what each stamp was given out for, and on whose behalf
  nextStamp,
  deaths,
  (* history: what the ROM and the user's listeners have been told *)
  loaded,       \* loads that onLoadDone answered while they were pending
  completed,    \* runs whose onRunDone reached the user
  notified      \* runs whose owner was told that the service died

threadVars == <<pc, op, local, stamp, result, expired>>
memberVars == <<manager, userListener, modelManagerMap>>
globalVars == <<callBackMap, handler, mutex>>
romVars    == <<legacy, issued, nextStamp, deaths>>
histVars   == <<loaded, completed, notified>>
vars == <<threadVars, memberVars, globalVars, romVars, histVars>>

-----------------------------------------------------------------------------
(* The callback table. *)

Entry == [modelMgr : Manager \cup {None}, isLoadOrUnload : BOOLEAN,
          hasResponsed : BOOLEAN, result : BOOLEAN]

\* A stamp without an entry maps to NoEntry.
NoEntry == [modelMgr |-> None, isLoadOrUnload |-> FALSE,
            hasResponsed |-> FALSE, result |-> FALSE]

InMap(s) == callBackMap[s].modelMgr # None

NewEntry(owner, handshake) ==
  [NoEntry EXCEPT !.modelMgr = owner, !.isLoadOrUnload = handshake]

Erase(s) == callBackMap' = [callBackMap EXCEPT ![s] = NoEntry]

NotIssued == [kind |-> "none", owner |-> None]

Idle == [kind |-> "none", at |-> 0]

\* g_callBackLock is free: no callback is in progress.  Every other critical
\* section of that lock is one step.
CallBackLockFree == handler = Idle

\* The ROM accepts a request of the given kind and the table learns its stamp
\* before g_callBackLock is released.
Register(owner, kind) ==
  /\ nextStamp \in Stamp
  /\ callBackMap' = [callBackMap EXCEPT ![nextStamp] = NewEntry(owner, kind # "run")]
  /\ issued' = [issued EXCEPT ![nextStamp] = [kind |-> kind, owner |-> owner]]
  /\ nextStamp' = nextStamp + 1

Goto(p, where) == pc' = [pc EXCEPT ![p] = where]

WaitPc == {"lock", "check", "block", "wait", "erase"}

Waiting(p) == pc[p] \in WaitPc

-----------------------------------------------------------------------------
(* Ownership of the legacy managers (shared_ptr<HIAI_ModelManager>). *)

UnusedLegacy == [state |-> "unused", owner |-> None, listener |-> FALSE]

\* CreateLegacyManager: a ROM manager whose deleter captures the object that
\* created it.  A query's private manager has no owner and no listener.
NewLegacy(l, owner, async) ==
  /\ legacy[l].state = "unused"
  /\ legacy' = [legacy EXCEPT
       ![l] = [state |-> "live", owner |-> owner, listener |-> async]]

\* Nobody but p's own variable refers to l.
LastRef(p, l) ==
  /\ \A m \in Manager \ {p} : manager[m] # l
  /\ \A b \in BuiltModel : modelManagerMap[b] # l
  /\ \A q \in Thread \ {p} : local[q] # l

-----------------------------------------------------------------------------
(* DirectModelManagerImpl::Init *)

InitBegin(m) ==
  /\ pc[m] = "idle"
  /\ manager[m] = None
  /\ \E l \in Legacy, async \in BOOLEAN :
       /\ NewLegacy(l, m, async)
       /\ local' = [local EXCEPT ![m] = l]
  /\ op' = [op EXCEPT ![m] = "Init"]
  /\ Goto(m, "load")
  /\ UNCHANGED <<stamp, result, expired, memberVars, globalVars, issued, nextStamp,
                 deaths, histVars>>

\* InitSync: the answer is LoadModel's return value.
LoadSync(m) ==
  /\ pc[m] = "load"
  /\ ~legacy[local[m]].listener
  /\ \E ok \in BOOLEAN : Goto(m, IF ok THEN "initDone" ELSE "drop")
  /\ UNCHANGED <<op, local, stamp, result, expired, memberVars, globalVars,
                 romVars, histVars>>

\* InitAsync, the block that holds g_callBackLock around LoadModel.
LoadAsync(m) ==
  /\ pc[m] = "load"
  /\ legacy[local[m]].listener
  /\ CallBackLockFree
  /\ Register(m, "load")
  /\ stamp' = [stamp EXCEPT ![m] = nextStamp]
  /\ Goto(m, "lock")
  /\ UNCHANGED <<op, local, result, expired, memberVars, handler, mutex, legacy, deaths,
                 histVars>>

\* The ROM refuses (a negative stamp): InitAsync fails and nothing is registered.
LoadRefused(m) ==
  /\ pc[m] = "load"
  /\ legacy[local[m]].listener
  /\ CallBackLockFree
  /\ Goto(m, "drop")
  /\ UNCHANGED <<op, local, stamp, result, expired, memberVars, globalVars, romVars,
                 histVars>>

\* The load succeeded: the object takes the legacy manager over and lends it to
\* the container, which keeps the first manager of a built model b (the argument
\* of Init, chosen here because nothing depends on it earlier).
InitDone(m) ==
  /\ pc[m] = "initDone"
  /\ manager' = [manager EXCEPT ![m] = local[m]]
  /\ userListener' = [userListener EXCEPT ![m] = legacy[local[m]].listener]
  /\ \E b \in BuiltModel : modelManagerMap' = [modelManagerMap EXCEPT
                              ![b] = IF @ = None THEN local[m] ELSE @]
  /\ local' = [local EXCEPT ![m] = None]
  /\ stamp' = [stamp EXCEPT ![m] = 0]
  /\ op' = [op EXCEPT ![m] = "none"]
  /\ Goto(m, "idle")
  /\ UNCHANGED <<result, expired, globalVars, romVars, histVars>>

-----------------------------------------------------------------------------
(* condition_variable::wait_for with a predicate, as InitAsync (g_loadMutex, *)
(* g_loadCond) and UnloadAsync (g_unloadMutex, g_unLoadCond) use it.  The    *)
(* kind of the awaited stamp says which pair.                                *)

Pair(p) == issued[stamp[p]].kind

\* Take the mutex, first or again after a wake-up.
LockMutex(p) ==
  /\ pc[p] = "lock"
  /\ mutex[Pair(p)] = None
  /\ mutex' = [mutex EXCEPT ![Pair(p)] = p]
  /\ Goto(p, "check")
  /\ UNCHANGED <<op, local, stamp, result, expired, memberVars, callBackMap,
                 handler, romVars, histVars>>

Responded(s) == InMap(s) /\ callBackMap[s].hasResponsed

\* Faulty variant: every wake-up starts a new ten-second wait.
CheckPredicateRearmed(p) ==
  /\ pc[p] = "check"
  /\ CallBackLockFree
  /\ Goto(p, IF Responded(stamp[p]) THEN "erase" ELSE "block")
  /\ result' = [result EXCEPT ![p] = Responded(stamp[p]) /\ callBackMap[stamp[p]].result]
  /\ expired' = [expired EXCEPT ![p] = FALSE]
  /\ UNCHANGED <<op, local, stamp, memberVars, globalVars, romVars, histVars>>

\* The predicate, under g_callBackLock.  When it is false the thread goes back
\* to sleep, unless the deadline has passed.
CheckPredicate(p) ==
  /\ pc[p] = "check"
  /\ CallBackLockFree
  /\ IF Responded(stamp[p])
     THEN /\ result' = [result EXCEPT ![p] = callBackMap[stamp[p]].result]
          /\ Goto(p, "erase")
     ELSE /\ Goto(p, IF expired[p] THEN "erase" ELSE "block")
          /\ UNCHANGED result
  /\ UNCHANGED <<op, local, stamp, expired, memberVars, globalVars, romVars,
                 histVars>>

\* Release the mutex and sleep.  A callback that ran since the check has
\* notified nobody: the notifier does not hold the mutex.
Block(p) ==
  /\ pc[p] = "block"
  /\ mutex' = [mutex EXCEPT ![Pair(p)] = None]
  /\ Goto(p, "wait")
  /\ UNCHANGED <<op, local, stamp, result, expired, memberVars, callBackMap,
                 handler, romVars, histVars>>

Timeout(p) ==
  /\ pc[p] = "wait"
  /\ expired' = [expired EXCEPT ![p] = TRUE]
  /\ Goto(p, "lock")
  /\ UNCHANGED <<op, local, stamp, result, memberVars, globalVars, romVars,
                 histVars>>

\* Faulty variant: an answered entry is left in the table.
EndWaitKeeping(p) ==
  /\ pc[p] = "erase"
  /\ CallBackLockFree
  /\ IF result[p] THEN UNCHANGED callBackMap ELSE Erase(stamp[p])
  /\ mutex' = [mutex EXCEPT ![Pair(p)] = None]
  /\ result' = [result EXCEPT ![p] = FALSE]
  /\ expired' = [expired EXCEPT ![p] = FALSE]
  /\ Goto(p, CASE Pair(p) = "unload" -> "destroy"
                [] Pair(p) = "load" /\ result[p] -> "initDone"
                [] OTHER -> "drop")
  /\ UNCHANGED <<op, local, stamp, memberVars, handler, romVars, histVars>>

\* After the wait: erase the entry under g_callBackLock; the mutex is released
\* on return.
EndWait(p) ==
  /\ pc[p] = "erase"
  /\ CallBackLockFree
  /\ Erase(stamp[p])
  /\ mutex' = [mutex EXCEPT ![Pair(p)] = None]
  /\ result' = [result EXCEPT ![p] = FALSE]
  /\ expired' = [expired EXCEPT ![p] = FALSE]
  /\ Goto(p, CASE Pair(p) = "unload" -> "destroy"
                [] Pair(p) = "load" /\ result[p] -> "initDone"
                [] OTHER -> "drop")
  /\ UNCHANGED <<op, local, stamp, memberVars, handler, romVars, histVars>>

\* notify_all: the sleepers on the kind's condition variable wake up.
NotifyAll(kind) ==
  pc' = [p \in Thread |-> IF pc[p] = "wait" /\ Pair(p) = kind THEN "lock" ELSE pc[p]]

-----------------------------------------------------------------------------
(* The deleter of shared_ptr<HIAI_ModelManager>, run by the thread that drops *)
(* the last reference.                                                       *)

\* Faulty variant: whoever lets go of the manager runs the deleter.
DropLocalAlways(p) ==
  /\ pc[p] = "drop"
  /\ Goto(p, "unload")
  /\ UNCHANGED <<op, local, stamp, result, expired, memberVars, globalVars, romVars,
                 histVars>>

\* A local shared_ptr goes out of scope: Init's after a failed load, or a
\* reader's after its query.
DropLocal(p) ==
  /\ pc[p] = "drop"
  /\ IF LastRef(p, local[p])
     THEN /\ Goto(p, "unload")
          /\ UNCHANGED <<op, local, stamp>>
     ELSE /\ local' = [local EXCEPT ![p] = None]
          /\ stamp' = [stamp EXCEPT ![p] = 0]
          /\ op' = [op EXCEPT ![p] = "none"]
          /\ Goto(p, "idle")
  /\ UNCHANGED <<result, expired, memberVars, globalVars, romVars, histVars>>

\* No listener: UnLoadModel is synchronous.
UnloadSync(p) ==
  /\ pc[p] = "unload"
  /\ ~legacy[local[p]].listener
  /\ Goto(p, "destroy")
  /\ UNCHANGED <<op, local, stamp, result, expired, memberVars, globalVars,
                 romVars, histVars>>

\* Faulty variant: the entry names the thread that runs the deleter.
UnloadAsyncAsRunner(p) ==
  /\ pc[p] = "unload"
  /\ legacy[local[p]].listener
  /\ CallBackLockFree
  /\ Register(p, "unload")
  /\ stamp' = [stamp EXCEPT ![p] = nextStamp]
  /\ Goto(p, "lock")
  /\ UNCHANGED <<op, local, result, expired, memberVars, handler, mutex, legacy, deaths,
                 histVars>>

\* UnloadAsync of the object that created the legacy manager (the captured
\* `this`), on whatever thread the deleter runs.
UnloadAsync(p) ==
  /\ pc[p] = "unload"
  /\ legacy[local[p]].listener
  /\ CallBackLockFree
  /\ Register(legacy[local[p]].owner, "unload")
  /\ stamp' = [stamp EXCEPT ![p] = nextStamp]
  /\ Goto(p, "lock")
  /\ UNCHANGED <<op, local, result, expired, memberVars, handler, mutex, legacy, deaths,
                 histVars>>

UnloadRefused(p) ==
  /\ pc[p] = "unload"
  /\ legacy[local[p]].listener
  /\ CallBackLockFree
  /\ Goto(p, "destroy")
  /\ UNCHANGED <<op, local, stamp, result, expired, memberVars, globalVars, romVars,
                 histVars>>

\* DestroyModelManager, and back to the caller.
DestroyLegacy(p) ==
  /\ pc[p] = "destroy"
  /\ legacy' = [legacy EXCEPT ![local[p]] = [UnusedLegacy EXCEPT !.state = "destroyed"]]
  /\ local' = [local EXCEPT ![p] = None]
  /\ stamp' = [stamp EXCEPT ![p] = 0]
  /\ IF op[p] \in {"Init", "Query"}
     THEN Goto(p, "idle") /\ op' = [op EXCEPT ![p] = "none"]
     ELSE Goto(p, "listener") /\ UNCHANGED op
  /\ UNCHANGED <<result, expired, memberVars, globalVars, issued, nextStamp,
                 deaths, histVars>>

-----------------------------------------------------------------------------
(* DirectModelManagerImpl::DeInit and the destructor *)

\* Faulty variant: the container keeps manager_.
BeginDeInitKeeping(m, call) ==
  /\ pc[m] = "idle"
  /\ op' = [op EXCEPT ![m] = call]
  /\ Goto(m, "release")
  /\ UNCHANGED <<local, stamp, result, expired, memberVars, globalVars, romVars, histVars>>

\* The container forgets manager_ first.
BeginDeInit(m, call) ==
  /\ pc[m] = "idle"
  /\ modelManagerMap' = [b \in BuiltModel |->
       IF modelManagerMap[b] = manager[m] THEN None ELSE modelManagerMap[b]]
  /\ op' = [op EXCEPT ![m] = call]
  /\ Goto(m, "release")
  /\ UNCHANGED <<local, stamp, result, expired, manager, userListener, globalVars,
                 romVars, histVars>>

\* manager_ = nullptr runs the deleter unless a query still holds the manager.
ReleaseManager(m) ==
  /\ pc[m] = "release"
  /\ manager' = [manager EXCEPT ![m] = None]
  /\ IF manager[m] # None /\ LastRef(m, manager[m])
     THEN Goto(m, "unload") /\ local' = [local EXCEPT ![m] = manager[m]]
     ELSE Goto(m, "listener") /\ UNCHANGED local
  /\ UNCHANGED <<op, stamp, result, expired, userListener, modelManagerMap,
                 globalVars, romVars, histVars>>

\* userListener_ = nullptr, without g_callBackLock; runs that are still in the
\* table stay there.
DropListener(m) ==
  /\ pc[m] = "listener"
  /\ userListener' = [userListener EXCEPT ![m] = FALSE]
  /\ IF op[m] = "Destroy"
     THEN Goto(m, "purge") /\ UNCHANGED op
     ELSE Goto(m, "idle") /\ op' = [op EXCEPT ![m] = "none"]
  /\ UNCHANGED <<local, stamp, result, expired, manager, modelManagerMap,
                 globalVars, romVars, histVars>>

\* Faulty variant: the table is not purged.
PurgeNothing(m) ==
  /\ pc[m] = "purge"
  /\ op' = [op EXCEPT ![m] = "none"]
  /\ Goto(m, "gone")
  /\ UNCHANGED <<local, stamp, result, expired, memberVars, globalVars, romVars, histVars>>

\* Faulty variant: the table is purged without g_callBackLock.
PurgeUnlocked(m) ==
  /\ pc[m] = "purge"
  /\ callBackMap' = [s \in Stamp |->
       IF callBackMap[s].modelMgr = m THEN NoEntry ELSE callBackMap[s]]
  /\ op' = [op EXCEPT ![m] = "none"]
  /\ Goto(m, "gone")
  /\ UNCHANGED <<local, stamp, result, expired, memberVars, handler, mutex,
                 romVars, histVars>>

\* The destructor's own body: erase what the table holds of this object.
Purge(m) ==
  /\ pc[m] = "purge"
  /\ CallBackLockFree
  /\ callBackMap' = [s \in Stamp |->
       IF callBackMap[s].modelMgr = m THEN NoEntry ELSE callBackMap[s]]
  /\ op' = [op EXCEPT ![m] = "none"]
  /\ Goto(m, "gone")
  /\ UNCHANGED <<local, stamp, result, expired, memberVars, handler, mutex,
                 romVars, histVars>>

-----------------------------------------------------------------------------
(* Asynchronous runs *)

SubmitRun(m) ==
  /\ manager[m] # None
  /\ CallBackLockFree
  /\ Register(m, "run")
  /\ UNCHANGED <<threadVars, memberVars, handler, mutex, legacy, deaths, histVars>>

RunAsync(m) == pc[m] = "idle" /\ userListener[m] /\ SubmitRun(m)

\* RunAipp without a listener is synchronous and leaves no trace.
RunAipp(m) == pc[m] = "idle" /\ userListener[m] /\ SubmitRun(m)

-----------------------------------------------------------------------------
(* DirectBuiltModelImpl::GetIONDTensorDesc: borrow the loaded manager of the *)
(* built model, or load a private one when the container has none.          *)

Query(r) ==
  /\ pc[r] = "idle"
  /\ \E b \in BuiltModel :
       \/ /\ modelManagerMap[b] # None
          /\ local' = [local EXCEPT ![r] = modelManagerMap[b]]
          /\ UNCHANGED legacy
       \/ /\ modelManagerMap[b] = None
          /\ \E l \in Legacy : NewLegacy(l, None, FALSE) /\ local' = [local EXCEPT ![r] = l]
  /\ op' = [op EXCEPT ![r] = "Query"]
  /\ Goto(r, "drop")
  /\ UNCHANGED <<stamp, result, expired, memberVars, globalVars, issued, nextStamp,
                 deaths, histVars>>

-----------------------------------------------------------------------------
(* The callbacks of the ROM.  One that finds no entry for its stamp returns  *)
(* and changes nothing.                                                      *)

OnLoadDone(s) ==
  /\ issued[s].kind = "load"
  /\ CallBackLockFree
  /\ InMap(s)
  /\ loaded' = loaded \cup {s}
  /\ callBackMap' = [callBackMap EXCEPT ![s].hasResponsed = TRUE, ![s].result = TRUE]
  /\ NotifyAll("load")
  /\ UNCHANGED <<op, local, stamp, result, expired, memberVars, handler, mutex,
                 romVars, completed, notified>>

OnUnloadDone(s) ==
  /\ issued[s].kind = "unload"
  /\ CallBackLockFree
  /\ InMap(s)
  /\ callBackMap' = [callBackMap EXCEPT ![s].hasResponsed = TRUE, ![s].result = TRUE]
  /\ NotifyAll("unload")
  /\ UNCHANGED <<op, local, stamp, result, expired, memberVars, handler, mutex,
                 romVars, histVars>>

\* Faulty variant: an error counts as an answer like any other.
OnErrorAsDone(s) ==
  /\ CallBackLockFree
  /\ InMap(s)
  /\ callBackMap[s].isLoadOrUnload
  /\ callBackMap' = [callBackMap EXCEPT ![s].hasResponsed = TRUE, ![s].result = TRUE]
  /\ NotifyAll("load")
  /\ UNCHANGED <<op, local, stamp, result, expired, memberVars, handler, mutex,
                 romVars, histVars>>

\* An error answer to a load or an unload.  Only g_loadCond is notified, so a
\* thread that sleeps in UnloadAsync is not woken.
OnErrorHandshake(s) ==
  /\ CallBackLockFree
  /\ InMap(s)
  /\ callBackMap[s].isLoadOrUnload
  /\ callBackMap' = [callBackMap EXCEPT ![s].hasResponsed = TRUE]
  /\ NotifyAll("load")
  /\ UNCHANGED <<op, local, stamp, result, expired, memberVars, handler, mutex,
                 romVars, histVars>>

\* OnRunDone, and OnError for a run: the entry is found and its listener is set,
\* so user code is entered, with g_callBackLock held.  Without a listener the
\* callback returns and the entry stays.
RunAnswerBegin(s) ==
  /\ CallBackLockFree
  /\ issued[s].kind = "run"
  /\ InMap(s)
  /\ userListener[callBackMap[s].modelMgr]
  /\ handler' = [kind |-> "run", at |-> s]
  /\ UNCHANGED <<threadVars, memberVars, callBackMap, mutex, romVars, histVars>>

\* Faulty variant: the entry stays for a later answer to find.
RunAnswerEndKeeping ==
  /\ handler.kind = "run"
  /\ completed' = completed \cup {handler.at}
  /\ handler' = Idle
  /\ UNCHANGED <<threadVars, memberVars, callBackMap, mutex, romVars, loaded, notified>>

RunAnswerEnd ==
  /\ handler.kind = "run"
  /\ completed' = completed \cup {handler.at}
  /\ Erase(handler.at)
  /\ handler' = Idle
  /\ UNCHANGED <<threadVars, memberVars, mutex, romVars, loaded, notified>>

\* The ROM announces the death of the service to a live manager with a listener.
ServiceDiedBegin(l) ==
  /\ deaths < MaxDeath
  /\ legacy[l].listener
  /\ CallBackLockFree
  /\ deaths' = deaths + 1
  /\ handler' = [kind |-> "died", at |-> 1]
  /\ UNCHANGED <<threadVars, memberVars, callBackMap, mutex, legacy, issued, nextStamp,
                 histVars>>

\* The loop is at entry s: the first one not visited yet.
AtEntry(s) ==
  /\ handler.kind = "died"
  /\ handler.at <= s
  /\ InMap(s)
  /\ \A k \in handler.at .. (s - 1) : ~InMap(k)

\* The owner of the entry is told.
ServiceDiedVisit(s) ==
  /\ AtEntry(s)
  /\ userListener[callBackMap[s].modelMgr]
  /\ notified' = notified \cup {s}
  /\ handler' = [handler EXCEPT !.at = s + 1]
  /\ UNCHANGED <<threadVars, memberVars, callBackMap, mutex, romVars, loaded, completed>>

\* Faulty variant: the table is cleared although the broadcast was broken off.
ServiceDiedReturnClearing(s) ==
  /\ AtEntry(s)
  /\ ~userListener[callBackMap[s].modelMgr]
  /\ callBackMap' = [k \in Stamp |-> NoEntry]
  /\ handler' = Idle
  /\ UNCHANGED <<threadVars, memberVars, mutex, romVars, histVars>>

\* The owner has no listener: the callback returns, and neither the entries
\* after s are visited nor the table cleared.
ServiceDiedReturn(s) ==
  /\ AtEntry(s)
  /\ ~userListener[callBackMap[s].modelMgr]
  /\ handler' = Idle
  /\ UNCHANGED <<threadVars, memberVars, callBackMap, mutex, romVars, histVars>>

\* The owner was destroyed (a reader's deleter registered the entry): the loop
\* reads freed memory, and may also get past the entry.
ServiceDiedDangling(s) ==
  /\ AtEntry(s)
  /\ pc[callBackMap[s].modelMgr] = "gone"
  /\ handler' = [handler EXCEPT !.at = s + 1]
  /\ UNCHANGED <<threadVars, memberVars, callBackMap, mutex, romVars, histVars>>

ServiceDiedClear ==
  /\ handler.kind = "died"
  /\ \A s \in Stamp : s >= handler.at => ~InMap(s)
  /\ callBackMap' = [s \in Stamp |-> NoEntry]
  /\ handler' = Idle
  /\ UNCHANGED <<threadVars, memberVars, mutex, romVars, histVars>>

-----------------------------------------------------------------------------
Init ==
  /\ pc = [p \in Thread |-> "idle"]
  /\ op = [p \in Thread |-> "none"]
  /\ local = [p \in Thread |-> None]
  /\ stamp = [p \in Thread |-> 0]
  /\ result = [p \in Thread |-> FALSE]
  /\ expired = [p \in Thread |-> FALSE]
  /\ manager = [m \in Manager |-> None]
  /\ userListener = [m \in Manager |-> FALSE]
  /\ modelManagerMap = [b \in BuiltModel |-> None]
  /\ callBackMap = [s \in Stamp |-> NoEntry]
  /\ handler = Idle
  /\ mutex = [k \in {"load", "unload"} |-> None]
  /\ legacy = [l \in Legacy |-> UnusedLegacy]
  /\ issued = [s \in Stamp |-> NotIssued]
  /\ nextStamp = 1
  /\ deaths = 0
  /\ loaded = {}
  /\ completed = {}
  /\ notified = {}

Deleter(p) ==
  DropLocal(p) \/ UnloadSync(p) \/ UnloadAsync(p) \/ UnloadRefused(p) \/ DestroyLegacy(p)

WaitFor(p) == LockMutex(p) \/ CheckPredicate(p) \/ Block(p) \/ Timeout(p) \/ EndWait(p)

\* What a thread does once it is inside a call.
InCall(p) ==
  \/ Deleter(p)
  \/ WaitFor(p)
  \/ /\ p \in Manager
     /\ \/ LoadSync(p) \/ LoadAsync(p) \/ LoadRefused(p) \/ InitDone(p)
        \/ ReleaseManager(p) \/ DropListener(p) \/ Purge(p)

\* What the user calls.
Call(m) ==
  \/ InitBegin(m) \/ RunAsync(m) \/ RunAipp(m)
  \/ BeginDeInit(m, "DeInit") \/ BeginDeInit(m, "Destroy")

Answer(s) ==
  \/ OnLoadDone(s) \/ OnUnloadDone(s) \/ OnErrorHandshake(s) \/ RunAnswerBegin(s)

\* The rest of a callback that has started.
InCallback ==
  \/ RunAnswerEnd \/ ServiceDiedClear
  \/ \E s \in Stamp : ServiceDiedVisit(s) \/ ServiceDiedReturn(s) \/ ServiceDiedDangling(s)

\* Every object was destroyed and every reader has returned.
Terminated ==
  /\ \A m \in Manager : pc[m] = "gone"
  /\ \A r \in Reader : pc[r] = "idle"
  /\ UNCHANGED vars

Next ==
  \/ \E p \in Thread : InCall(p)
  \/ \E m \in Manager : Call(m)
  \/ \E r \in Reader : Query(r)
  \/ \E s \in Stamp : Answer(s)
  \/ \E l \in Legacy : ServiceDiedBegin(l)
  \/ InCallback
  \/ Terminated

Spec == Init /\ [][Next]_vars

\* A thread inside a call is scheduled, and user code called back returns.  The
\* deadline is a fixed point in time, so a sleeper passes it however often it is
\* woken before (strong fairness).  Users need not call, the ROM need not answer.
Fairness == /\ \A p \in Thread : WF_vars(InCall(p)) /\ SF_vars(Timeout(p))
            /\ WF_vars(InCallback)

FairSpec == Spec /\ Fairness

-----------------------------------------------------------------------------
(* Type invariant *)

Kind == {"none", "load", "unload", "run"}

Pc == {"idle", "load", "initDone", "drop", "unload", "destroy", "release", "listener",
       "purge", "gone"} \cup WaitPc

ThreadsTyped ==
  /\ pc \in [Thread -> Pc]
  /\ op \in [Thread -> {"none", "Init", "DeInit", "Destroy", "Query"}]
  /\ local \in [Thread -> Legacy \cup {None}]
  /\ stamp \in [Thread -> 0 .. MaxStamp]
  /\ result \in [Thread -> BOOLEAN]
  /\ expired \in [Thread -> BOOLEAN]

MembersTyped ==
  /\ manager \in [Manager -> Legacy \cup {None}]
  /\ userListener \in [Manager -> BOOLEAN]
  /\ modelManagerMap \in [BuiltModel -> Legacy \cup {None}]

GlobalsTyped ==
  /\ callBackMap \in [Stamp -> Entry]
  /\ handler \in {Idle} \cup [kind : {"run"}, at : Stamp]
                        \cup [kind : {"died"}, at : 1 .. (MaxStamp + 1)]
  /\ mutex \in [{"load", "unload"} -> Thread \cup {None}]

RomTyped ==
  /\ legacy \in [Legacy -> [state : {"unused", "live", "destroyed"},
                            owner : Manager \cup {None}, listener : BOOLEAN]]
  /\ issued \in [Stamp -> [kind : Kind, owner : Manager \cup {None}]]
  /\ nextStamp \in 1 .. (MaxStamp + 1)
  /\ deaths \in 0 .. MaxDeath

HistoryTyped == loaded \cup completed \cup notified \subseteq Stamp

\* Every variable has its type.
TypeOK == ThreadsTyped /\ MembersTyped /\ GlobalsTyped /\ RomTyped /\ HistoryTyped

-----------------------------------------------------------------------------
(* Safety *)

\* No handshake is left behind: an entry for a load or an unload is in
\* g_callBackMap only while exactly one thread is between registering it and
\* erasing it, whatever the ROM answered, or failed to answer, and whoever
\* cleared the table meanwhile (InitAsync, UnloadAsync, OnError, OnServiceDied).
HandshakeAwaited ==
  /\ \A s \in Stamp :
       InMap(s) /\ callBackMap[s].isLoadOrUnload
         => \E p \in Thread : Waiting(p) /\ stamp[p] = s
  /\ \A p, q \in Thread : Waiting(p) /\ Waiting(q) /\ p # q => stamp[p] # stamp[q]

\* The thread is in the deleter of its legacy manager.
Deleting(p) ==
  \/ pc[p] \in {"unload", "destroy"}
  \/ Waiting(p) /\ Pair(p) = "unload"

\* Shared ownership of the legacy managers is exact.  A manager lives while, and
\* only while, an object or a thread refers to it (no use after
\* HIAI_ModelManager_destroy, no leak after a failed Init), and the thread that
\* unloads and destroys it is the only one that still can see it.
LegacyLifetime ==
  /\ \A l \in Legacy :
       legacy[l].state = "live" <=> \/ \E m \in Manager : manager[m] = l
                                   \/ \E p \in Thread : local[p] = l
  /\ \A p \in Thread : Deleting(p) =>
       /\ LastRef(p, local[p])
       /\ p \in Manager => manager[p] # local[p]

\* The container never holds the last reference: the object that lent a legacy
\* manager still has it in manager_.  So no deleter, which may wait ten seconds
\* for the ROM, ever runs under containerMutex_.
ContainerBorrows ==
  \A b \in BuiltModel : modelManagerMap[b] # None =>
    /\ legacy[modelManagerMap[b]].owner # None
    /\ manager[legacy[modelManagerMap[b]].owner] = modelManagerMap[b]

\* Init with a listener succeeds only when the ROM called onLoadDone for that
\* very load: an error answer, a service death that clears the table or a
\* deadline never passes for a loaded model.
LoadJustified ==
  \A m \in Manager :
    pc[m] = "initDone" /\ legacy[local[m]].listener => stamp[m] \in loaded

\* g_callBackMap refers to no destroyed object, except for the unload that a
\* query started because it was the last to let go of the legacy manager: its
\* deleter's captured `this` is then dangling (direct_model_manager_impl.cpp:123).
EntryOwnerAlive ==
  \A s \in Stamp : InMap(s) /\ pc[callBackMap[s].modelMgr] = "gone"
    => \E r \in Reader : Waiting(r) /\ stamp[r] = s

\* Once HIAI_DIRECT_ModelManager_Destroy has returned, no run of that object is
\* being reported to the user, even if the ROM answers afterwards.
NoAnswerAfterDestroy ==
  handler.kind = "run" => /\ InMap(handler.at)
                          /\ pc[callBackMap[handler.at].modelMgr] # "gone"

\* A run is reported to the user at most once, however often the ROM answers.
ReportedOnce == handler.kind = "run" => handler.at \notin completed

-----------------------------------------------------------------------------
(* Refinement *)

\* How the ledger of runs shows in the table and in what the users were told.
runStatus == [s \in Stamp |->
  CASE issued[s].kind # "run" -> "free"
    [] issued[s].kind = "run" /\ InMap(s) -> "pending"
    [] issued[s].kind = "run" /\ ~InMap(s) /\ s \in completed -> "reported"
    [] issued[s].kind = "run" /\ ~InMap(s) /\ s \notin completed /\ s \in notified -> "died"
    [] OTHER -> "dropped"]

runOwner == [s \in Stamp |-> IF issued[s].kind = "run" THEN issued[s].owner ELSE None]

openManagers == {m \in Manager : pc[m] # "gone"}

Ledger == INSTANCE RunLedger WITH
  Run <- Stamp, Client <- Manager, Nobody <- None,
  status <- runStatus, owner <- runOwner, open <- openManagers

\* Every run that RunAsync or RunAipp accepted ends once and for a reason the
\* user knows of: no run is lost to the handshakes of other objects, to a
\* callback that found no listener, or to a broadcast of the service's death
\* that was broken off; and none is reported after its manager was destroyed.
RunsLedger == Ledger!Spec

-----------------------------------------------------------------------------
(* Liveness *)

\* Every call returns: InitAsync and UnloadAsync give up at the deadline, also
\* when the answer never comes, came between the check and the sleep, or was an
\* error that notifies the wrong condition variable.
CallsReturn == \A p \in Thread : (op[p] # "none") ~> (op[p] = "none")

-----------------------------------------------------------------------------
(* What the runs check together *)

\* A built model is prepared for exactly the callers that wait for it: no load
\* starts without its handshake and none succeeds without its answer.
LoadsSound == HandshakeAwaited /\ LoadJustified

\* No listener hears of a run twice, nor of a run of a manager that is gone.
AnswersSound == NoAnswerAfterDestroy /\ ReportedOnce

\* The legacy managers, the container that borrows them and the entries that
\* own them agree on who is alive.
LegacySound == LegacyLifetime /\ ContainerBorrows /\ EntryOwnerAlive

=============================================================================
