-------------------------- MODULE ModelManager_proofs --------------------------
(***************************************************************************)
(* Proofs about ModelManager, for any number of threads, listeners, runs   *)
(* and initialisations.  A DeInit overtaken by an Init robs the new handle *)
(* of its listener; the invariant says what is left of each promise then.  *)
(***************************************************************************)
EXTENDS ModelManager, TLAPS

\* The thread is in a critical section of modelManagerMutex_.
Locked(u) == pc[u] \in {"prepare", "create", "load", "submit", "submitted", "deinit", "reset"}

Owns ==
  /\ mutex["manager"] \in User \cup {None}
  /\ \A u \in User : Locked(u) => mutex["manager"] = u

PcOp ==
  \A u \in User :
    /\ op[u] = "Init" <=> pc[u] \in {"prepare", "create", "load"}
    /\ op[u] \in {"RunAsync", "RunAipp"} <=> pc[u] \in {"submit", "submitted"}
    /\ op[u] = "none" <=> pc[u] = "idle"
    /\ pc[u] = "clear" => op[u] = "DeInit"

\* What Init's steps have been given.
Args ==
  /\ \A u \in User : pc[u] = "prepare" => inits # 0 /\ arg[u] \in Listener
  /\ \A u \in User : pc[u] = "create" => arg[u] \in Listener \cup {None}
  /\ \A u \in User : pc[u] = "load" => modelManager # None

\* What a thread in Init may rely on, also beside the end of a DeInit.
Alone ==
  \A u \in User : pc[u] \in {"prepare", "create"} => modelManager = None

\* A destroyed object has no handle, and nobody is in a call to it.
Living ==
  /\ modelManager # None => alive /\ modelManager \in open \cap made
  /\ \A u \in User : pc[u] # "idle" => alive
  /\ \A u, v \in User : op[u] = "Destruct" /\ v # u => pc[v] = "idle"

\* The runtime knows of this object's C listener only, and for its handle only.
Listening ==
  /\ listener = None <=> cListener = 0
  /\ modelManager \in robbed => listener = None
  /\ \A h \in Handle : userListener[h] # 0 =>
       h = modelManager /\ (h \in robbed \/ userListener[h] = cListener)
  /\ \A h \in ready : h = modelManager /\ (h \in robbed \/ userListener[h] = cListener)
  /\ \A u \in User : pc[u] = "reset" => ready = {} /\ \A h \in Handle : userListener[h] = 0

\* A pending run was submitted to the present handle, and, unless it was robbed,
\* for the present listener.
Runs ==
  \A c \in Context : status[c] = "pending" =>
    /\ owner[c] = modelManager /\ modelManager # None
    /\ \/ modelManager \in robbed
       \/ /\ bound[c] = listener /\ listener # None
          /\ context[c] = "live"

Calling ==
  callback.next # "none" => callback.at \in Context /\ status[callback.at] = "pending"

\* The run a thread is submitting: free, or accepted for a listener.
Submitting ==
  \A u \in User :
    /\ pc[u] \in {"submit", "submitted"} => arg[u] \in Context
    /\ pc[u] = "submit" =>
         /\ status[arg[u]] = "free"
         /\ context[arg[u]] = "live"
         /\ bound[arg[u]] = listener \/ modelManager \in robbed \cup {None}
    /\ pc[u] = "submitted" =>
         \/ /\ status[arg[u]] = "free"
            /\ context[arg[u]] = "live"
            /\ ret[u] => op[u] = "RunAipp" /\ listener = None
         \/ /\ status[arg[u]] # "free"
            /\ ret[u]
            /\ modelManager # None
            /\ listener # None \/ modelManager \in robbed

\* Where a context stands follows where its run stands.
Deleted ==
  \A c \in Context :
    /\ context[c] = "none" => status[c] = "free"
    /\ status[c] = "reported" => context[c] = "deleted"
    /\ context[c] = "live" /\ status[c] = "free" =>
         \E u \in User : pc[u] \in {"submit", "submitted"} /\ arg[u] = c

IInv ==
  /\ Owns /\ Args /\ PcOp /\ Alone /\ Living
  /\ Listening /\ Runs /\ Calling /\ Submitting /\ Deleted
-----------------------------------------------------------------------------
(* Types *)

LEMMA InitTyped == Init => TypeOK
  BY ManagerAssumption DEF Init, TypeOK, Runtime!Init, NoCallback

LEMMA TypeStep ==
  TypeOK /\ Owns /\ Args /\ Living /\ Listening /\ [Next]_vars => TypeOK'
<1> SUFFICES ASSUME TypeOK, Owns, Args, Living, Listening, [Next]_vars
             PROVE  TypeOK'
  OBVIOUS
<1>0. TypeOK /\ Args
  OBVIOUS
<1>1. ASSUME NEW u \in User, InitBegin(u) PROVE TypeOK'
  BY <1>0, <1>1, ManagerAssumption DEF InitBegin, Begin, Goto, ledger, runtime, history,
     Free, TypeOK, Args
<1>2. ASSUME NEW u \in User, InitPrepare(u) PROVE TypeOK'
  BY <1>0, <1>2, ManagerAssumption DEF InitPrepare, Goto, ledger, runtime, history,
     Free, TypeOK, Args
<1>3. ASSUME NEW u \in User, InitCreateFails(u) PROVE TypeOK'
  BY <1>0, <1>3, ManagerAssumption DEF InitCreateFails, Unlock, Return, Goto, members,
     ledger, runtime, history, TypeOK, Args
<1>4. ASSUME NEW u \in User, InitCreate(u) PROVE TypeOK'
  BY <1>0, <1>4, ManagerAssumption DEF InitCreate, Goto, ledger, runtime, TypeOK, Args
<1>5. ASSUME NEW u \in User, InitLoad(u) PROVE TypeOK'
  <2>1. modelManager \in open
    BY <1>0, <1>5 DEF InitLoad, Args, Living
  <2> QED
    BY <1>0, <1>5, <2>1, ManagerAssumption DEF InitLoad, Unlock, Return, Goto, members, ledger,
       runtime, history, NoCallback, TypeOK, Args
<1>6. ASSUME NEW u \in User, RunAsync(u) PROVE TypeOK'
  BY <1>0, <1>6, ManagerAssumption DEF RunAsync, NewContext, Begin, Goto, members,
     ledger, runtime, Free, TypeOK, Args
<1>7. ASSUME NEW u \in User, RunAippModel(u) PROVE TypeOK'
  BY <1>0, <1>7, ManagerAssumption DEF RunAippModel, NewContext, Begin, Goto, members,
     ledger, runtime, Free, TypeOK, Args
<1>8. ASSUME NEW u \in User, SubmitAccepted(u) PROVE TypeOK'
  BY <1>0, <1>8, ManagerAssumption DEF SubmitAccepted, Loaded, Goto, Runtime!Accept,
     members, runtime, history, NoCallback, TypeOK, Args
<1>9. ASSUME NEW u \in User, SubmitSync(u) PROVE TypeOK'
  BY <1>0, <1>9, ManagerAssumption DEF SubmitSync, Loaded, Goto, members, ledger,
     runtime, history, TypeOK, Args
<1>10. ASSUME NEW u \in User, SubmitRefused(u) PROVE TypeOK'
  BY <1>0, <1>10, ManagerAssumption DEF SubmitRefused, Goto, members, ledger, runtime,
     history, TypeOK, Args
<1>11. ASSUME NEW u \in User, RunReturn(u) PROVE TypeOK'
  BY <1>0, <1>11, ManagerAssumption DEF RunReturn, DropsContext, Unlock, Return, Goto,
     members, ledger, runtime, history, TypeOK, Args
<1>12. ASSUME NEW u \in User, DeInit(u) PROVE TypeOK'
  BY <1>0, <1>12, ManagerAssumption DEF DeInit, Begin, Goto, members, ledger, runtime,
     history, Free, TypeOK, Args
<1>13. ASSUME NEW u \in User, Destruct(u) PROVE TypeOK'
  <2>1. CASE modelManager = None
    BY <1>0, <1>13, <2>1 DEF Destruct, locals, ledger, runtime, history, TypeOK
  <2>2. CASE modelManager # None
    BY <1>0, <1>13, <2>2, ManagerAssumption
    DEF Destruct, Begin, Goto, ledger, runtime, history, TypeOK
  <2> QED
    BY <2>1, <2>2
<1>14. ASSUME NEW u \in User, UnLoadDeinit(u) PROVE TypeOK'
  BY <1>0, <1>14, ManagerAssumption DEF UnLoadDeinit, Goto, members, ledger, runtime,
     history, TypeOK, Args
<1>15. ASSUME NEW u \in User, UnLoadReset(u) PROVE TypeOK'
  <2>1. ready = {} /\ \A h \in Handle : userListener[h] = 0
    BY <1>15 DEF UnLoadReset, Listening
  <2> QED
    BY <1>0, <1>15, <2>1, ManagerAssumption DEF UnLoadReset, Unlock, Return, Goto,
       Runtime!Close, Runtime!PendingOf, Runtime!Pending, ledger, runtime, history,
       NoCallback, TypeOK, Args
<1>16. ASSUME NEW u \in User, DeInitClear(u) PROVE TypeOK'
  <2>1. modelManager # None => modelManager \in made
    BY DEF Living
  <2> QED
    BY <1>0, <1>16, <2>1, ManagerAssumption DEF DeInitClear, Return, Goto, ledger, runtime,
       history, Free, TypeOK, Args
<1>17. ASSUME NEW c \in Context, AnswerBegin(c) PROVE TypeOK'
  BY <1>0, <1>17, ManagerAssumption DEF AnswerBegin, locals, members, ledger, runtime,
     history, NoCallback, TypeOK, Args
<1>18. CASE AnswerLock
  <2>1. callback \in [at : Context, next : {"lock", "user", "delete"}]
    BY <1>0, <1>18 DEF AnswerLock, NoCallback, TypeOK
  <2>2. callback' \in [at : Context, next : {"lock", "user", "delete"}]
    BY <1>18, <2>1 DEF AnswerLock
  <2>3. mutex' \in [{"manager", "listener"} -> User \cup {"runtime", None}]
    BY <1>0, <1>18 DEF AnswerLock, TypeOK
  <2> QED
    BY <1>0, <1>18, <2>2, <2>3
    DEF AnswerLock, locals, members, ledger, runtime, history, TypeOK
<1>19. CASE AnswerUnlock
  <2>1. callback \in [at : Context, next : {"lock", "user", "delete"}]
    BY <1>0, <1>19 DEF AnswerUnlock, NoCallback, TypeOK
  <2>2. callback' \in [at : Context, next : {"lock", "user", "delete"}]
    BY <1>19, <2>1 DEF AnswerUnlock
  <2>3. mutex' \in [{"manager", "listener"} -> User \cup {"runtime", None}]
    BY <1>0, <1>19 DEF AnswerUnlock, TypeOK
  <2> QED
    BY <1>0, <1>19, <2>2, <2>3
    DEF AnswerUnlock, locals, members, ledger, runtime, history, TypeOK
<1>20. CASE AnswerEnd
  BY <1>0, <1>20, ManagerAssumption DEF AnswerEnd, Runtime!Report, locals, members,
     runtime, history, NoCallback, TypeOK, Args
<1>21. CASE UNCHANGED vars
  BY <1>0, <1>21 DEF vars, locals, members, ledger, runtime, history, TypeOK, Args
<1> QED
  BY <1>1, <1>2, <1>3, <1>4, <1>5, <1>6, <1>7, <1>8, <1>9, <1>10, <1>11, <1>12, <1>13,
     <1>14, <1>15, <1>16, <1>17, <1>18, <1>19, <1>20, <1>21 DEF Next, InCall, Call,
     InCallback, Terminated

\* What TypeOK says of the variables the invariant is about.
LEMMA Types ==
  TypeOK =>
      /\ pc \in [User -> {"idle", "prepare", "create", "load", "submit", "submitted",
                         "deinit", "reset", "clear"}]
      /\ op \in [User -> {"none", "Init", "RunAsync", "RunAipp", "DeInit", "Destruct"}]
      /\ arg \in [User -> Listener \cup Context \cup {None}] /\ ret \in [User -> BOOLEAN]
      /\ mutex \in [{"manager", "listener"} -> User \cup {"runtime", None}]
      /\ context \in [Context -> {"none", "live", "deleted"}]
      /\ userListener \in [Handle -> 0 .. MaxInit] /\ ready \subseteq open
      /\ status \in [Context -> {"free", "pending", "reported", "died", "dropped"}]
      /\ owner \in [Context -> Handle \cup {None}] /\ open \subseteq Handle
      /\ bound \in [Context -> Listener \cup {None}] /\ inits \in Nat
      /\ modelManager \in Handle \cup {None} /\ listener \in Listener \cup {None}
      /\ made \subseteq Handle /\ robbed \subseteq made
      /\ callback \in {NoCallback} \cup [at : Context, next : {"lock", "user", "delete"}]
  BY ManagerAssumption DEF TypeOK

-----------------------------------------------------------------------------
(* Every part of the inductive invariant is preserved. *)

LEMMA InitInvariant == Init => IInv
  BY ManagerAssumption
  DEF Init, IInv, Owns, Locked, Args, PcOp, Alone, Living, Listening, Runs, Calling,
      Submitting, Deleted, Runtime!Init, NoCallback

LEMMA OwnsStep ==
  TypeOK /\ Owns /\ [Next]_vars => Owns'
<1> SUFFICES ASSUME TypeOK, Owns, [Next]_vars
             PROVE  Owns'
  OBVIOUS
<1>0. /\ pc \in [User -> {"idle", "prepare", "create", "load", "submit", "submitted",
                         "deinit", "reset", "clear"}]
      /\ op \in [User -> {"none", "Init", "RunAsync", "RunAipp", "DeInit", "Destruct"}]
      /\ arg \in [User -> Listener \cup Context \cup {None}] /\ ret \in [User -> BOOLEAN]
      /\ mutex \in [{"manager", "listener"} -> User \cup {"runtime", None}]
      /\ context \in [Context -> {"none", "live", "deleted"}]
      /\ userListener \in [Handle -> 0 .. MaxInit] /\ ready \subseteq open
      /\ status \in [Context -> {"free", "pending", "reported", "died", "dropped"}]
      /\ owner \in [Context -> Handle \cup {None}] /\ open \subseteq Handle
      /\ bound \in [Context -> Listener \cup {None}] /\ inits \in Nat
      /\ modelManager \in Handle \cup {None} /\ listener \in Listener \cup {None}
      /\ made \subseteq Handle /\ robbed \subseteq made
      /\ callback \in {NoCallback} \cup [at : Context, next : {"lock", "user", "delete"}]
  BY Types
<1>1. ASSUME NEW u \in User, InitBegin(u) \/ InitPrepare(u) \/ InitCreateFails(u) \/ InitCreate(u) \/ InitLoad(u)
      PROVE  Owns'
  BY <1>0, <1>1, ManagerAssumption DEF InitBegin, Begin, Goto, ledger, runtime, history,
     Free, InitPrepare, InitCreateFails, Unlock, Return, members, InitCreate, InitLoad,
     NoCallback, Owns, Locked
<1>2. ASSUME NEW u \in User, RunAsync(u) \/ RunAippModel(u) \/ SubmitAccepted(u) \/ SubmitSync(u) \/ SubmitRefused(u) \/ RunReturn(u)
      PROVE  Owns'
  BY <1>0, <1>2, ManagerAssumption DEF RunAsync, NewContext, Begin, Goto, members,
     ledger, runtime, Free, RunAippModel, SubmitAccepted, Loaded, Runtime!Accept, history,
     NoCallback, SubmitSync, SubmitRefused, RunReturn, DropsContext, Unlock, Return, Owns,
     Locked
<1>3. ASSUME NEW u \in User, DeInit(u) \/ Destruct(u) \/ UnLoadDeinit(u) \/ UnLoadReset(u) \/ DeInitClear(u)
      PROVE  Owns'
  BY <1>0, <1>3, ManagerAssumption DEF DeInit, Begin, Goto, members, ledger, runtime,
     history, Free, Destruct, locals, UnLoadDeinit, UnLoadReset, Unlock, Return,
     Runtime!Close, Runtime!PendingOf, Runtime!Pending, NoCallback, DeInitClear, Owns,
     Locked
<1>4. ASSUME (\E c \in Context : AnswerBegin(c)) \/ InCallback
      PROVE  Owns'
  BY <1>0, <1>4, ManagerAssumption DEF InCallback, AnswerBegin, locals, members, ledger,
     runtime, history, NoCallback, AnswerLock, Free, AnswerUnlock, AnswerEnd,
     Runtime!Report, Owns, Locked
<1>5. CASE UNCHANGED vars
  BY <1>5 DEF vars, locals, members, ledger, runtime, history, Owns, Locked
<1> QED
  BY <1>1, <1>2, <1>3, <1>4, <1>5 DEF Next, InCall, Call, InCallback, Terminated

LEMMA ArgsStep ==
  TypeOK /\ Args /\ Owns /\ [Next]_vars => Args'
<1> SUFFICES ASSUME TypeOK, Args, Owns, [Next]_vars
             PROVE  Args'
  OBVIOUS
<1>0. /\ pc \in [User -> {"idle", "prepare", "create", "load", "submit", "submitted",
                         "deinit", "reset", "clear"}]
      /\ op \in [User -> {"none", "Init", "RunAsync", "RunAipp", "DeInit", "Destruct"}]
      /\ arg \in [User -> Listener \cup Context \cup {None}] /\ ret \in [User -> BOOLEAN]
      /\ mutex \in [{"manager", "listener"} -> User \cup {"runtime", None}]
      /\ context \in [Context -> {"none", "live", "deleted"}]
      /\ userListener \in [Handle -> 0 .. MaxInit] /\ ready \subseteq open
      /\ status \in [Context -> {"free", "pending", "reported", "died", "dropped"}]
      /\ owner \in [Context -> Handle \cup {None}] /\ open \subseteq Handle
      /\ bound \in [Context -> Listener \cup {None}] /\ inits \in Nat
      /\ modelManager \in Handle \cup {None} /\ listener \in Listener \cup {None}
      /\ made \subseteq Handle /\ robbed \subseteq made
      /\ callback \in {NoCallback} \cup [at : Context, next : {"lock", "user", "delete"}]
  BY Types
<1>1. ASSUME NEW u \in User, InitBegin(u) \/ InitPrepare(u) \/ InitCreateFails(u) \/ InitCreate(u) \/ InitLoad(u)
      PROVE  Args'
  BY <1>0, <1>1, ManagerAssumption DEF InitBegin, Begin, Goto, ledger, runtime, history,
     Free, InitPrepare, InitCreateFails, Unlock, Return, members, InitCreate, InitLoad,
     NoCallback, Args, Owns, Locked
<1>2. ASSUME NEW u \in User, RunAsync(u) \/ RunAippModel(u) \/ SubmitAccepted(u) \/ SubmitSync(u) \/ SubmitRefused(u) \/ RunReturn(u)
      PROVE  Args'
  BY <1>0, <1>2, ManagerAssumption DEF RunAsync, NewContext, Begin, Goto, members,
     ledger, runtime, Free, RunAippModel, SubmitAccepted, Loaded, Runtime!Accept, history,
     NoCallback, SubmitSync, SubmitRefused, RunReturn, DropsContext, Unlock, Return, Args,
     Owns, Locked
<1>3. ASSUME NEW u \in User, DeInit(u) \/ Destruct(u) \/ UnLoadDeinit(u) \/ UnLoadReset(u) \/ DeInitClear(u)
      PROVE  Args'
  BY <1>0, <1>3, ManagerAssumption DEF DeInit, Begin, Goto, members, ledger, runtime,
     history, Free, Destruct, locals, UnLoadDeinit, UnLoadReset, Unlock, Return,
     Runtime!Close, Runtime!PendingOf, Runtime!Pending, NoCallback, DeInitClear, Args,
     Owns, Locked
<1>4. ASSUME (\E c \in Context : AnswerBegin(c)) \/ InCallback
      PROVE  Args'
  BY <1>0, <1>4, ManagerAssumption DEF InCallback, AnswerBegin, locals, members, ledger,
     runtime, history, NoCallback, AnswerLock, Free, AnswerUnlock, AnswerEnd,
     Runtime!Report, Args, Owns, Locked
<1>5. CASE UNCHANGED vars
  BY <1>5 DEF vars, locals, members, ledger, runtime, history, Args, Owns, Locked
<1> QED
  BY <1>1, <1>2, <1>3, <1>4, <1>5 DEF Next, InCall, Call, InCallback, Terminated

LEMMA PcOpStep ==
  TypeOK /\ PcOp /\ [Next]_vars => PcOp'
<1> SUFFICES ASSUME TypeOK, PcOp, [Next]_vars
             PROVE  PcOp'
  OBVIOUS
<1>0. /\ pc \in [User -> {"idle", "prepare", "create", "load", "submit", "submitted",
                         "deinit", "reset", "clear"}]
      /\ op \in [User -> {"none", "Init", "RunAsync", "RunAipp", "DeInit", "Destruct"}]
      /\ arg \in [User -> Listener \cup Context \cup {None}] /\ ret \in [User -> BOOLEAN]
      /\ mutex \in [{"manager", "listener"} -> User \cup {"runtime", None}]
      /\ context \in [Context -> {"none", "live", "deleted"}]
      /\ userListener \in [Handle -> 0 .. MaxInit] /\ ready \subseteq open
      /\ status \in [Context -> {"free", "pending", "reported", "died", "dropped"}]
      /\ owner \in [Context -> Handle \cup {None}] /\ open \subseteq Handle
      /\ bound \in [Context -> Listener \cup {None}] /\ inits \in Nat
      /\ modelManager \in Handle \cup {None} /\ listener \in Listener \cup {None}
      /\ made \subseteq Handle /\ robbed \subseteq made
      /\ callback \in {NoCallback} \cup [at : Context, next : {"lock", "user", "delete"}]
  BY Types
<1>1. ASSUME NEW u \in User, InitBegin(u) \/ InitPrepare(u) \/ InitCreateFails(u) \/ InitCreate(u) \/ InitLoad(u)
      PROVE  PcOp'
  BY <1>0, <1>1, ManagerAssumption DEF InitBegin, Begin, Goto, ledger, runtime, history,
     Free, InitPrepare, InitCreateFails, Unlock, Return, members, InitCreate, InitLoad,
     NoCallback, PcOp
<1>2. ASSUME NEW u \in User, RunAsync(u) \/ RunAippModel(u) \/ SubmitAccepted(u) \/ SubmitSync(u) \/ SubmitRefused(u) \/ RunReturn(u)
      PROVE  PcOp'
  BY <1>0, <1>2, ManagerAssumption DEF RunAsync, NewContext, Begin, Goto, members,
     ledger, runtime, Free, RunAippModel, SubmitAccepted, Loaded, Runtime!Accept, history,
     NoCallback, SubmitSync, SubmitRefused, RunReturn, DropsContext, Unlock, Return, PcOp
<1>3. ASSUME NEW u \in User, DeInit(u) \/ Destruct(u) \/ UnLoadDeinit(u) \/ UnLoadReset(u) \/ DeInitClear(u)
      PROVE  PcOp'
  BY <1>0, <1>3, ManagerAssumption DEF DeInit, Begin, Goto, members, ledger, runtime,
     history, Free, Destruct, locals, UnLoadDeinit, UnLoadReset, Unlock, Return,
     Runtime!Close, Runtime!PendingOf, Runtime!Pending, NoCallback, DeInitClear, PcOp
<1>4. ASSUME (\E c \in Context : AnswerBegin(c)) \/ InCallback
      PROVE  PcOp'
  BY <1>0, <1>4, ManagerAssumption DEF InCallback, AnswerBegin, locals, members, ledger,
     runtime, history, NoCallback, AnswerLock, Free, AnswerUnlock, AnswerEnd,
     Runtime!Report, PcOp
<1>5. CASE UNCHANGED vars
  BY <1>5 DEF vars, locals, members, ledger, runtime, history, PcOp
<1> QED
  BY <1>1, <1>2, <1>3, <1>4, <1>5 DEF Next, InCall, Call, InCallback, Terminated

LEMMA AloneStep ==
  TypeOK /\ Alone /\ Owns /\ PcOp /\ [Next]_vars => Alone'
<1> SUFFICES ASSUME TypeOK, Alone, Owns, PcOp, [Next]_vars
             PROVE  Alone'
  OBVIOUS
<1>0. /\ pc \in [User -> {"idle", "prepare", "create", "load", "submit", "submitted",
                         "deinit", "reset", "clear"}]
      /\ op \in [User -> {"none", "Init", "RunAsync", "RunAipp", "DeInit", "Destruct"}]
      /\ arg \in [User -> Listener \cup Context \cup {None}] /\ ret \in [User -> BOOLEAN]
      /\ mutex \in [{"manager", "listener"} -> User \cup {"runtime", None}]
      /\ context \in [Context -> {"none", "live", "deleted"}]
      /\ userListener \in [Handle -> 0 .. MaxInit] /\ ready \subseteq open
      /\ status \in [Context -> {"free", "pending", "reported", "died", "dropped"}]
      /\ owner \in [Context -> Handle \cup {None}] /\ open \subseteq Handle
      /\ bound \in [Context -> Listener \cup {None}] /\ inits \in Nat
      /\ modelManager \in Handle \cup {None} /\ listener \in Listener \cup {None}
      /\ made \subseteq Handle /\ robbed \subseteq made
      /\ callback \in {NoCallback} \cup [at : Context, next : {"lock", "user", "delete"}]
  BY Types
<1>1. ASSUME NEW u \in User, InitBegin(u) \/ InitPrepare(u) \/ InitCreateFails(u) \/ InitCreate(u) \/ InitLoad(u)
      PROVE  Alone'
  BY <1>0, <1>1, ManagerAssumption DEF InitBegin, Begin, Goto, ledger, runtime, history,
     Free, InitPrepare, InitCreateFails, Unlock, Return, members, InitCreate, InitLoad,
     NoCallback, Alone, Owns, Locked, PcOp
<1>2. ASSUME NEW u \in User, RunAsync(u) \/ RunAippModel(u) \/ SubmitAccepted(u) \/ SubmitSync(u) \/ SubmitRefused(u) \/ RunReturn(u)
      PROVE  Alone'
  BY <1>0, <1>2, ManagerAssumption DEF RunAsync, NewContext, Begin, Goto, members,
     ledger, runtime, Free, RunAippModel, SubmitAccepted, Loaded, Runtime!Accept, history,
     NoCallback, SubmitSync, SubmitRefused, RunReturn, DropsContext, Unlock, Return, Alone,
     Owns, Locked, PcOp
<1>3. ASSUME NEW u \in User, DeInit(u) \/ Destruct(u) \/ UnLoadDeinit(u) \/ UnLoadReset(u) \/ DeInitClear(u)
      PROVE  Alone'
  BY <1>0, <1>3, ManagerAssumption DEF DeInit, Begin, Goto, members, ledger, runtime,
     history, Free, Destruct, locals, UnLoadDeinit, UnLoadReset, Unlock, Return,
     Runtime!Close, Runtime!PendingOf, Runtime!Pending, NoCallback, DeInitClear, Alone,
     Owns, Locked, PcOp
<1>4. ASSUME (\E c \in Context : AnswerBegin(c)) \/ InCallback
      PROVE  Alone'
  BY <1>0, <1>4, ManagerAssumption DEF InCallback, AnswerBegin, locals, members, ledger,
     runtime, history, NoCallback, AnswerLock, Free, AnswerUnlock, AnswerEnd,
     Runtime!Report, Alone, Owns, Locked, PcOp
<1>5. CASE UNCHANGED vars
  BY <1>5 DEF vars, locals, members, ledger, runtime, history, Alone, Owns, Locked, PcOp
<1> QED
  BY <1>1, <1>2, <1>3, <1>4, <1>5 DEF Next, InCall, Call, InCallback, Terminated

LEMMA LivingStep ==
  TypeOK /\ Living /\ Owns /\ PcOp /\ [Next]_vars => Living'
<1> SUFFICES ASSUME TypeOK, Living, Owns, PcOp, [Next]_vars
             PROVE  Living'
  OBVIOUS
<1>0. /\ pc \in [User -> {"idle", "prepare", "create", "load", "submit", "submitted",
                         "deinit", "reset", "clear"}]
      /\ op \in [User -> {"none", "Init", "RunAsync", "RunAipp", "DeInit", "Destruct"}]
      /\ arg \in [User -> Listener \cup Context \cup {None}] /\ ret \in [User -> BOOLEAN]
      /\ mutex \in [{"manager", "listener"} -> User \cup {"runtime", None}]
      /\ context \in [Context -> {"none", "live", "deleted"}]
      /\ userListener \in [Handle -> 0 .. MaxInit] /\ ready \subseteq open
      /\ status \in [Context -> {"free", "pending", "reported", "died", "dropped"}]
      /\ owner \in [Context -> Handle \cup {None}] /\ open \subseteq Handle
      /\ bound \in [Context -> Listener \cup {None}] /\ inits \in Nat
      /\ modelManager \in Handle \cup {None} /\ listener \in Listener \cup {None}
      /\ made \subseteq Handle /\ robbed \subseteq made
      /\ callback \in {NoCallback} \cup [at : Context, next : {"lock", "user", "delete"}]
  BY Types
<1>1. ASSUME NEW u \in User, InitBegin(u) \/ InitPrepare(u) \/ InitCreateFails(u) \/ InitCreate(u) \/ InitLoad(u)
      PROVE  Living'
  BY <1>0, <1>1, ManagerAssumption DEF InitBegin, Begin, Goto, ledger, runtime, history,
     Free, InitPrepare, InitCreateFails, Unlock, Return, members, InitCreate, InitLoad,
     NoCallback, Living, Owns, Locked, PcOp
<1>2. ASSUME NEW u \in User, RunAsync(u) \/ RunAippModel(u) \/ SubmitAccepted(u) \/ SubmitSync(u) \/ SubmitRefused(u) \/ RunReturn(u)
      PROVE  Living'
  BY <1>0, <1>2, ManagerAssumption DEF RunAsync, NewContext, Begin, Goto, members,
     ledger, runtime, Free, RunAippModel, SubmitAccepted, Loaded, Runtime!Accept, history,
     NoCallback, SubmitSync, SubmitRefused, RunReturn, DropsContext, Unlock, Return,
     Living, Owns, Locked, PcOp
<1>3. ASSUME NEW u \in User, DeInit(u) \/ Destruct(u) \/ UnLoadDeinit(u) \/ UnLoadReset(u) \/ DeInitClear(u)
      PROVE  Living'
  <2>1. CASE DeInit(u)
    BY <1>0, <2>1, ManagerAssumption DEF DeInit, Begin, Goto, members, ledger, runtime,
       history, Free, Living, Owns, Locked, PcOp
  <2>2. CASE Destruct(u)
    BY <1>0, <2>2, ManagerAssumption DEF Destruct, Begin, Goto, locals, ledger, runtime,
       history, Free, Living, Owns, Locked, PcOp
  <2>3. CASE UnLoadDeinit(u)
    BY <1>0, <2>3, ManagerAssumption DEF UnLoadDeinit, Goto, members, ledger, runtime,
       history, Living, Owns, Locked, PcOp
  <2>4. CASE UnLoadReset(u)
    <3>1. op[u] \in {"DeInit", "Destruct"}
      BY <1>0, <2>4 DEF UnLoadReset, PcOp
    <3>2. CASE op[u] = "DeInit"
      BY <1>0, <2>4, <3>2 DEF UnLoadReset, Unlock, Goto, Living, PcOp
    <3>3. CASE op[u] = "Destruct"
      BY <1>0, <2>4, <3>3 DEF UnLoadReset, Unlock, Return, Goto, Living, PcOp
    <3> QED
      BY <3>1, <3>2, <3>3
  <2>5. CASE DeInitClear(u)
    BY <1>0, <2>5, ManagerAssumption DEF DeInitClear, Return, Goto, ledger, runtime,
       history, Free, Living, Owns, Locked, PcOp
  <2> QED
    BY <1>3, <2>1, <2>2, <2>3, <2>4, <2>5
<1>4. ASSUME (\E c \in Context : AnswerBegin(c)) \/ InCallback
      PROVE  Living'
  BY <1>0, <1>4, ManagerAssumption DEF InCallback, AnswerBegin, locals, members, ledger,
     runtime, history, NoCallback, AnswerLock, Free, AnswerUnlock, AnswerEnd,
     Runtime!Report, Living, Owns, Locked, PcOp
<1>5. CASE UNCHANGED vars
  BY <1>5 DEF vars, locals, members, ledger, runtime, history, Living, Owns, Locked,
     PcOp
<1> QED
  BY <1>1, <1>2, <1>3, <1>4, <1>5 DEF Next, InCall, Call, InCallback, Terminated

LEMMA ListeningStep ==
  TypeOK /\ Listening /\ Args /\ Alone /\ Owns /\ [Next]_vars => Listening'
<1> SUFFICES ASSUME TypeOK, Listening, Args, Alone, Owns, [Next]_vars
             PROVE  Listening'
  OBVIOUS
<1>0. /\ pc \in [User -> {"idle", "prepare", "create", "load", "submit", "submitted",
                         "deinit", "reset", "clear"}]
      /\ op \in [User -> {"none", "Init", "RunAsync", "RunAipp", "DeInit", "Destruct"}]
      /\ arg \in [User -> Listener \cup Context \cup {None}] /\ ret \in [User -> BOOLEAN]
      /\ mutex \in [{"manager", "listener"} -> User \cup {"runtime", None}]
      /\ context \in [Context -> {"none", "live", "deleted"}]
      /\ userListener \in [Handle -> 0 .. MaxInit] /\ ready \subseteq open
      /\ status \in [Context -> {"free", "pending", "reported", "died", "dropped"}]
      /\ owner \in [Context -> Handle \cup {None}] /\ open \subseteq Handle
      /\ bound \in [Context -> Listener \cup {None}] /\ inits \in Nat
      /\ modelManager \in Handle \cup {None} /\ listener \in Listener \cup {None}
      /\ made \subseteq Handle /\ robbed \subseteq made
      /\ callback \in {NoCallback} \cup [at : Context, next : {"lock", "user", "delete"}]
  BY Types
<1>1. ASSUME NEW u \in User, InitBegin(u) \/ InitPrepare(u) \/ InitCreateFails(u) \/ InitCreate(u) \/ InitLoad(u)
      PROVE  Listening'
  BY <1>0, <1>1, ManagerAssumption DEF InitBegin, Begin, Goto, ledger, runtime, history,
     Free, InitPrepare, InitCreateFails, Unlock, Return, members, InitCreate, InitLoad,
     NoCallback, Listening, Args, Alone, Owns, Locked
<1>2. ASSUME NEW u \in User, RunAsync(u) \/ RunAippModel(u) \/ SubmitAccepted(u) \/ SubmitSync(u) \/ SubmitRefused(u) \/ RunReturn(u)
      PROVE  Listening'
  BY <1>0, <1>2, ManagerAssumption DEF RunAsync, NewContext, Begin, Goto, members,
     ledger, runtime, Free, RunAippModel, SubmitAccepted, Loaded, Runtime!Accept, history,
     NoCallback, SubmitSync, SubmitRefused, RunReturn, DropsContext, Unlock, Return,
     Listening, Args, Alone, Owns, Locked
<1>3. ASSUME NEW u \in User, DeInit(u) \/ Destruct(u) \/ UnLoadDeinit(u) \/ UnLoadReset(u) \/ DeInitClear(u)
      PROVE  Listening'
  <2>1. CASE DeInit(u)
    BY <1>0, <2>1, ManagerAssumption DEF DeInit, Begin, Goto, members, ledger, runtime,
       history, Free, Listening, Args, Alone, Owns, Locked
  <2>2. CASE Destruct(u)
    BY <1>0, <2>2, ManagerAssumption DEF Destruct, Begin, Goto, locals, ledger, runtime,
       history, Free, Listening, Args, Alone, Owns, Locked
  <2>3. CASE UnLoadDeinit(u)
    BY <1>0, <2>3, ManagerAssumption DEF UnLoadDeinit, Goto, members, ledger, runtime,
       history, Listening, Args, Alone, Owns, Locked
  <2>4. CASE UnLoadReset(u)
    BY <1>0, <2>4, ManagerAssumption DEF UnLoadReset, Unlock, Return, Goto,
       Runtime!Close, Runtime!PendingOf, Runtime!Pending, ledger, runtime, history,
       NoCallback, Listening, Args, Alone, Owns, Locked
  <2>5. CASE DeInitClear(u)
    BY <1>0, <2>5, ManagerAssumption DEF DeInitClear, Return, Goto, ledger, runtime,
       history, Free, Listening, Args, Alone, Owns, Locked
  <2> QED
    BY <1>3, <2>1, <2>2, <2>3, <2>4, <2>5
<1>4. ASSUME (\E c \in Context : AnswerBegin(c)) \/ InCallback
      PROVE  Listening'
  BY <1>0, <1>4, ManagerAssumption DEF InCallback, AnswerBegin, locals, members, ledger,
     runtime, history, NoCallback, AnswerLock, Free, AnswerUnlock, AnswerEnd,
     Runtime!Report, Listening, Args, Alone, Owns, Locked
<1>5. CASE UNCHANGED vars
  BY <1>5 DEF vars, locals, members, ledger, runtime, history, Listening, Args, Alone,
     Owns, Locked
<1> QED
  BY <1>1, <1>2, <1>3, <1>4, <1>5 DEF Next, InCall, Call, InCallback, Terminated

LEMMA RunsStep ==
  TypeOK /\ Runs /\ Alone /\ Owns /\ Listening /\ Submitting /\ [Next]_vars => Runs'
<1> SUFFICES ASSUME TypeOK, Runs, Alone, Owns, Listening, Submitting, [Next]_vars
             PROVE  Runs'
  OBVIOUS
<1>0. /\ pc \in [User -> {"idle", "prepare", "create", "load", "submit", "submitted",
                         "deinit", "reset", "clear"}]
      /\ op \in [User -> {"none", "Init", "RunAsync", "RunAipp", "DeInit", "Destruct"}]
      /\ arg \in [User -> Listener \cup Context \cup {None}] /\ ret \in [User -> BOOLEAN]
      /\ mutex \in [{"manager", "listener"} -> User \cup {"runtime", None}]
      /\ context \in [Context -> {"none", "live", "deleted"}]
      /\ userListener \in [Handle -> 0 .. MaxInit] /\ ready \subseteq open
      /\ status \in [Context -> {"free", "pending", "reported", "died", "dropped"}]
      /\ owner \in [Context -> Handle \cup {None}] /\ open \subseteq Handle
      /\ bound \in [Context -> Listener \cup {None}] /\ inits \in Nat
      /\ modelManager \in Handle \cup {None} /\ listener \in Listener \cup {None}
      /\ made \subseteq Handle /\ robbed \subseteq made
      /\ callback \in {NoCallback} \cup [at : Context, next : {"lock", "user", "delete"}]
  BY Types
<1>1. ASSUME NEW u \in User, InitBegin(u) \/ InitPrepare(u) \/ InitCreateFails(u) \/ InitCreate(u) \/ InitLoad(u)
      PROVE  Runs'
  BY <1>0, <1>1, ManagerAssumption DEF InitBegin, Begin, Goto, ledger, runtime, history,
     Free, InitPrepare, InitCreateFails, Unlock, Return, members, InitCreate, InitLoad,
     NoCallback, Runs, Alone, Owns, Locked, Listening, Submitting
<1>2. ASSUME NEW u \in User, RunAsync(u) \/ RunAippModel(u) \/ SubmitAccepted(u) \/ SubmitSync(u) \/ SubmitRefused(u) \/ RunReturn(u)
      PROVE  Runs'
  BY <1>0, <1>2, ManagerAssumption DEF RunAsync, NewContext, Begin, Goto, members,
     ledger, runtime, Free, RunAippModel, SubmitAccepted, Loaded, Runtime!Accept, history,
     NoCallback, SubmitSync, SubmitRefused, RunReturn, DropsContext, Unlock, Return, Runs,
     Alone, Owns, Locked, Listening, Submitting
<1>3. ASSUME NEW u \in User, DeInit(u) \/ Destruct(u) \/ UnLoadDeinit(u) \/ UnLoadReset(u) \/ DeInitClear(u)
      PROVE  Runs'
  BY <1>0, <1>3, ManagerAssumption DEF DeInit, Begin, Goto, members, ledger, runtime,
     history, Free, Destruct, locals, UnLoadDeinit, UnLoadReset, Unlock, Return,
     Runtime!Close, Runtime!PendingOf, Runtime!Pending, NoCallback, DeInitClear, Runs,
     Alone, Owns, Locked, Listening, Submitting
<1>4. ASSUME (\E c \in Context : AnswerBegin(c)) \/ InCallback
      PROVE  Runs'
  BY <1>0, <1>4, ManagerAssumption DEF InCallback, AnswerBegin, locals, members, ledger,
     runtime, history, NoCallback, AnswerLock, Free, AnswerUnlock, AnswerEnd,
     Runtime!Report, Runs, Alone, Owns, Locked, Listening, Submitting
<1>5. CASE UNCHANGED vars
  BY <1>5 DEF vars, locals, members, ledger, runtime, history, Runs, Alone, Owns,
     Locked, Listening, Submitting
<1> QED
  BY <1>1, <1>2, <1>3, <1>4, <1>5 DEF Next, InCall, Call, InCallback, Terminated

LEMMA CallingStep ==
  TypeOK /\ Calling /\ [Next]_vars => Calling'
<1> SUFFICES ASSUME TypeOK, Calling, [Next]_vars
             PROVE  Calling'
  OBVIOUS
<1>0. /\ pc \in [User -> {"idle", "prepare", "create", "load", "submit", "submitted",
                         "deinit", "reset", "clear"}]
      /\ op \in [User -> {"none", "Init", "RunAsync", "RunAipp", "DeInit", "Destruct"}]
      /\ arg \in [User -> Listener \cup Context \cup {None}] /\ ret \in [User -> BOOLEAN]
      /\ mutex \in [{"manager", "listener"} -> User \cup {"runtime", None}]
      /\ context \in [Context -> {"none", "live", "deleted"}]
      /\ userListener \in [Handle -> 0 .. MaxInit] /\ ready \subseteq open
      /\ status \in [Context -> {"free", "pending", "reported", "died", "dropped"}]
      /\ owner \in [Context -> Handle \cup {None}] /\ open \subseteq Handle
      /\ bound \in [Context -> Listener \cup {None}] /\ inits \in Nat
      /\ modelManager \in Handle \cup {None} /\ listener \in Listener \cup {None}
      /\ made \subseteq Handle /\ robbed \subseteq made
      /\ callback \in {NoCallback} \cup [at : Context, next : {"lock", "user", "delete"}]
  BY Types
<1>1. ASSUME NEW u \in User, InitBegin(u) \/ InitPrepare(u) \/ InitCreateFails(u) \/ InitCreate(u) \/ InitLoad(u)
      PROVE  Calling'
  BY <1>0, <1>1, ManagerAssumption DEF InitBegin, Begin, Goto, ledger, runtime, history,
     Free, InitPrepare, InitCreateFails, Unlock, Return, members, InitCreate, InitLoad,
     NoCallback, Calling
<1>2. ASSUME NEW u \in User, RunAsync(u) \/ RunAippModel(u) \/ SubmitAccepted(u) \/ SubmitSync(u) \/ SubmitRefused(u) \/ RunReturn(u)
      PROVE  Calling'
  BY <1>0, <1>2, ManagerAssumption DEF RunAsync, NewContext, Begin, Goto, members,
     ledger, runtime, Free, RunAippModel, SubmitAccepted, Loaded, Runtime!Accept, history,
     NoCallback, SubmitSync, SubmitRefused, RunReturn, DropsContext, Unlock, Return,
     Calling
<1>3. ASSUME NEW u \in User, DeInit(u) \/ Destruct(u) \/ UnLoadDeinit(u) \/ UnLoadReset(u) \/ DeInitClear(u)
      PROVE  Calling'
  BY <1>0, <1>3, ManagerAssumption DEF DeInit, Begin, Goto, members, ledger, runtime,
     history, Free, Destruct, locals, UnLoadDeinit, UnLoadReset, Unlock, Return,
     Runtime!Close, Runtime!PendingOf, Runtime!Pending, NoCallback, DeInitClear, Calling
<1>4. ASSUME (\E c \in Context : AnswerBegin(c)) \/ InCallback
      PROVE  Calling'
  BY <1>0, <1>4, ManagerAssumption DEF InCallback, AnswerBegin, locals, members, ledger,
     runtime, history, NoCallback, AnswerLock, Free, AnswerUnlock, AnswerEnd,
     Runtime!Report, Calling
<1>5. CASE UNCHANGED vars
  BY <1>5 DEF vars, locals, members, ledger, runtime, history, Calling, NoCallback
<1> QED
  BY <1>1, <1>2, <1>3, <1>4, <1>5 DEF Next, InCall, Call, InCallback, Terminated

LEMMA SubmittingStep ==
  TypeOK /\ Submitting /\ Owns /\ PcOp /\ Alone /\ Listening /\ Deleted /\ [Next]_vars => Submitting'
<1> SUFFICES ASSUME TypeOK, Submitting, Owns, PcOp, Alone, Listening, Deleted, [Next]_vars
             PROVE  Submitting'
  OBVIOUS
<1>0. /\ pc \in [User -> {"idle", "prepare", "create", "load", "submit", "submitted",
                         "deinit", "reset", "clear"}]
      /\ op \in [User -> {"none", "Init", "RunAsync", "RunAipp", "DeInit", "Destruct"}]
      /\ arg \in [User -> Listener \cup Context \cup {None}] /\ ret \in [User -> BOOLEAN]
      /\ mutex \in [{"manager", "listener"} -> User \cup {"runtime", None}]
      /\ context \in [Context -> {"none", "live", "deleted"}]
      /\ userListener \in [Handle -> 0 .. MaxInit] /\ ready \subseteq open
      /\ status \in [Context -> {"free", "pending", "reported", "died", "dropped"}]
      /\ owner \in [Context -> Handle \cup {None}] /\ open \subseteq Handle
      /\ bound \in [Context -> Listener \cup {None}] /\ inits \in Nat
      /\ modelManager \in Handle \cup {None} /\ listener \in Listener \cup {None}
      /\ made \subseteq Handle /\ robbed \subseteq made
      /\ callback \in {NoCallback} \cup [at : Context, next : {"lock", "user", "delete"}]
  BY Types
<1>1. ASSUME NEW u \in User, InitBegin(u) \/ InitPrepare(u) \/ InitCreateFails(u) \/ InitCreate(u) \/ InitLoad(u)
      PROVE  Submitting'
  BY <1>0, <1>1, ManagerAssumption DEF InitBegin, Begin, Goto, ledger, runtime, history,
     Free, InitPrepare, InitCreateFails, Unlock, Return, members, InitCreate, InitLoad,
     NoCallback, Submitting, Owns, Locked, PcOp, Alone, Listening, Deleted
<1>2. ASSUME NEW u \in User, RunAsync(u) \/ RunAippModel(u) \/ SubmitAccepted(u) \/ SubmitSync(u) \/ SubmitRefused(u) \/ RunReturn(u)
      PROVE  Submitting'
  BY <1>0, <1>2, ManagerAssumption DEF RunAsync, NewContext, Begin, Goto, members,
     ledger, runtime, Free, RunAippModel, SubmitAccepted, Loaded, Runtime!Accept, history,
     NoCallback, SubmitSync, SubmitRefused, RunReturn, DropsContext, Unlock, Return,
     Submitting, Owns, Locked, PcOp, Alone, Listening, Deleted
<1>3. ASSUME NEW u \in User, DeInit(u) \/ Destruct(u) \/ UnLoadDeinit(u) \/ UnLoadReset(u) \/ DeInitClear(u)
      PROVE  Submitting'
  BY <1>0, <1>3, ManagerAssumption DEF DeInit, Begin, Goto, members, ledger, runtime,
     history, Free, Destruct, locals, UnLoadDeinit, UnLoadReset, Unlock, Return,
     Runtime!Close, Runtime!PendingOf, Runtime!Pending, NoCallback, DeInitClear,
     Submitting, Owns, Locked, PcOp, Alone, Listening, Deleted
<1>4. ASSUME (\E c \in Context : AnswerBegin(c)) \/ InCallback
      PROVE  Submitting'
  BY <1>0, <1>4, ManagerAssumption DEF InCallback, AnswerBegin, locals, members, ledger,
     runtime, history, NoCallback, AnswerLock, Free, AnswerUnlock, AnswerEnd,
     Runtime!Report, Submitting, Owns, Locked, PcOp, Alone, Listening, Deleted
<1>5. CASE UNCHANGED vars
  BY <1>5 DEF vars, locals, members, ledger, runtime, history, Submitting, Owns, Locked,
     PcOp, Alone, Listening, Deleted
<1> QED
  BY <1>1, <1>2, <1>3, <1>4, <1>5 DEF Next, InCall, Call, InCallback, Terminated

LEMMA DeletedStep ==
  TypeOK /\ Deleted /\ Submitting /\ Owns /\ PcOp /\ Runs /\ Calling /\ [Next]_vars => Deleted'
<1> SUFFICES ASSUME TypeOK, Deleted, Submitting, Owns, PcOp, Runs, Calling, [Next]_vars
             PROVE  Deleted'
  OBVIOUS
<1>0. /\ pc \in [User -> {"idle", "prepare", "create", "load", "submit", "submitted",
                         "deinit", "reset", "clear"}]
      /\ op \in [User -> {"none", "Init", "RunAsync", "RunAipp", "DeInit", "Destruct"}]
      /\ arg \in [User -> Listener \cup Context \cup {None}] /\ ret \in [User -> BOOLEAN]
      /\ mutex \in [{"manager", "listener"} -> User \cup {"runtime", None}]
      /\ context \in [Context -> {"none", "live", "deleted"}]
      /\ userListener \in [Handle -> 0 .. MaxInit] /\ ready \subseteq open
      /\ status \in [Context -> {"free", "pending", "reported", "died", "dropped"}]
      /\ owner \in [Context -> Handle \cup {None}] /\ open \subseteq Handle
      /\ bound \in [Context -> Listener \cup {None}] /\ inits \in Nat
      /\ modelManager \in Handle \cup {None} /\ listener \in Listener \cup {None}
      /\ made \subseteq Handle /\ robbed \subseteq made
      /\ callback \in {NoCallback} \cup [at : Context, next : {"lock", "user", "delete"}]
  BY Types
<1>1. ASSUME NEW u \in User, InitBegin(u) \/ InitPrepare(u) \/ InitCreateFails(u) \/ InitCreate(u) \/ InitLoad(u)
      PROVE  Deleted'
  BY <1>0, <1>1, ManagerAssumption DEF InitBegin, Begin, Goto, ledger, runtime, history,
     Free, InitPrepare, InitCreateFails, Unlock, Return, members, InitCreate, InitLoad,
     NoCallback, Deleted, Submitting, Owns, Locked, PcOp, Runs, Calling
<1>2. ASSUME NEW u \in User, RunAsync(u) \/ RunAippModel(u) \/ SubmitAccepted(u) \/ SubmitSync(u) \/ SubmitRefused(u) \/ RunReturn(u)
      PROVE  Deleted'
  BY <1>0, <1>2, ManagerAssumption DEF RunAsync, NewContext, Begin, Goto, members,
     ledger, runtime, Free, RunAippModel, SubmitAccepted, Loaded, Runtime!Accept, history,
     NoCallback, SubmitSync, SubmitRefused, RunReturn, DropsContext, Unlock, Return,
     Deleted, Submitting, Owns, Locked, PcOp, Runs, Calling
<1>3. ASSUME NEW u \in User, DeInit(u) \/ Destruct(u) \/ UnLoadDeinit(u) \/ UnLoadReset(u) \/ DeInitClear(u)
      PROVE  Deleted'
  BY <1>0, <1>3, ManagerAssumption DEF DeInit, Begin, Goto, members, ledger, runtime,
     history, Free, Destruct, locals, UnLoadDeinit, UnLoadReset, Unlock, Return,
     Runtime!Close, Runtime!PendingOf, Runtime!Pending, NoCallback, DeInitClear, Deleted,
     Submitting, Owns, Locked, PcOp, Runs, Calling
<1>4. ASSUME (\E c \in Context : AnswerBegin(c)) \/ InCallback
      PROVE  Deleted'
  BY <1>0, <1>4, ManagerAssumption DEF InCallback, AnswerBegin, locals, members, ledger,
     runtime, history, NoCallback, AnswerLock, Free, AnswerUnlock, AnswerEnd,
     Runtime!Report, Deleted, Submitting, Owns, Locked, PcOp, Runs, Calling
<1>5. CASE UNCHANGED vars
  BY <1>5 DEF vars, locals, members, ledger, runtime, history, Deleted, Submitting,
     Owns, Locked, PcOp, Runs, NoCallback, Calling
<1> QED
  BY <1>1, <1>2, <1>3, <1>4, <1>5 DEF Next, InCall, Call, InCallback, Terminated

LEMMA InvariantStep == TypeOK /\ IInv /\ [Next]_vars => IInv'
  BY OwnsStep, ArgsStep, PcOpStep, AloneStep, LivingStep, ListeningStep, RunsStep,
     CallingStep, SubmittingStep, DeletedStep DEF IInv

-----------------------------------------------------------------------------
(* Theorems *)

LEMMA Invariant == Spec => [](TypeOK /\ IInv)
<1>1. Init => TypeOK /\ IInv
  BY InitTyped, InitInvariant
<1>2. TypeOK /\ IInv /\ [Next]_vars => (TypeOK /\ IInv)'
  BY TypeStep, InvariantStep DEF IInv
<1> QED
  BY <1>1, <1>2, PTL DEF Spec

\* Every variable keeps its type; a model is loaded only in a handle that exists,
\* and the runtime keeps a listener only for a loaded model (UnLoad, ~ModelManagerImpl).
THEOREM TypeCorrect == Spec => []TypeOK
  BY Invariant, PTL

\* Run contexts are never used after they are freed nor freed twice, whatever the
\* interleaving of API threads and callbacks (RunAsync, RunAippModel, OnRunDone).
THEOREM ContextsOwned == Spec => []ContextOwned
<1>1. TypeOK /\ IInv => ContextOwned
  BY Types DEF IInv, Runs, PcOp, Submitting, ContextOwned, DropsContext
<1> QED
  BY <1>1, Invariant, PTL

\* A context is leaked only with a run the runtime dropped.
THEOREM ContextsAccounted == Spec => []ContextAccounted
<1>1. TypeOK /\ IInv => ContextAccounted
  BY Types DEF IInv, Deleted, ContextAccounted
<1> QED
  BY <1>1, Invariant, PTL

\* The C listener the runtime calls through is the object's current one.
THEOREM ListenersAlive == Spec => []ListenerAlive
<1>1. TypeOK /\ IInv => ListenerAlive
  BY Types DEF IInv, Listening, ListenerAlive
<1> QED
  BY <1>1, Invariant, PTL

\* An answer reaches the listener in force when its run was submitted.
THEOREM AnswersToSubmitter == Spec => []AnswerToSubmitter
<1>1. TypeOK /\ IInv => AnswerToSubmitter
  <2> SUFFICES ASSUME TypeOK, IInv, callback # NoCallback
               PROVE  /\ alive
                      /\ listener # None => listener = bound[callback.at]
                      /\ listener = None => owner[callback.at] \in robbed
    BY DEF AnswerToSubmitter
  <2>1. callback \in [at : Context, next : {"lock", "user", "delete"}]
    BY Types
  <2>2. callback.at \in Context /\ status[callback.at] = "pending"
    BY <2>1 DEF IInv, Calling
  <2> QED
    BY <2>2 DEF IInv, Living, Listening, Runs
<1> QED
  BY <1>1, Invariant, PTL

\* A handle whose listener an overtaken DeInit dropped never gets another one.
THEOREM RobbedStaySilent == Spec => []RobbedStaysSilent
<1>1. TypeOK /\ IInv => RobbedStaysSilent
  BY Types DEF IInv, Listening, RobbedStaysSilent
<1> QED
  BY <1>1, Invariant, PTL

\* RunAsync, RunAippModel and OnRunDone: every context is freed once, by the one
\* that owns it, or lost with a run the runtime dropped.
THEOREM ContextsAreSound == Spec => []ContextsSound
<1>1. ContextOwned /\ ContextAccounted => ContextsSound
  BY DEF ContextsSound
<1> QED
  BY <1>1, ContextsOwned, ContextsAccounted, PTL

\* Callbacks go through a listener that is alive, to the one that was in force.
THEOREM CallbacksAreSound == Spec => []CallbacksSound
<1>1. ListenerAlive /\ AnswerToSubmitter /\ RobbedStaysSilent => CallbacksSound
  BY DEF CallbacksSound
<1> QED
  BY <1>1, ListenersAlive, AnswersToSubmitter, RobbedStaySilent, PTL

=============================================================================
