------------------------ MODULE AiModelMngerClient_proofs ------------------------
(***************************************************************************)
(* Proofs about AiModelMngerClient, for any number of threads, models,     *)
(* listeners and runs and any modulus of the stamps.                       *)
(***************************************************************************)
EXTENDS AiModelMngerClient, TLAPS

Loader == {"load", "undo", "unload"}

Processing == {"generate", "write", "stamp", "run"}

\* Whoever changes the maps is alone.
Exclusive ==
  \A u, v \in User : pc[u] \in Loader /\ v # u => pc[v] = "idle"

\* A name stands for a manager of its own.
Distinct ==
  \A m, n \in Name :
    modelManagerMap[m] = modelManagerMap[n] /\ modelManagerMap[m] # None => m = n

\* The managers in the map are initialised, until UnLoadModel comes by.
Installed ==
  \A n \in Name : modelManagerMap[n] # None =>
    \/ state[modelManagerMap[n]] = "up"
    \/ state[modelManagerMap[n]] = "down" /\ \E u \in User : pc[u] \in {"undo", "unload"}

\* A manager that is up is in the map.
Known == \A k \in Manager : state[k] = "up" => \E n \in Name : modelManagerMap[n] = k

\* The manager that Process found does not go away under it.
Targets ==
  \A u \in User : pc[u] \in Processing => target[u] \in Manager /\ state[target[u]] = "up"

\* Only a manager that is up has pending runs.
Runs ==
  \A r \in Run : status[r] = "pending" => owner[r] \in Manager /\ state[owner[r]] = "up"

IInv == Exclusive /\ MapsAgree /\ Distinct /\ Installed /\ Known /\ Targets /\ Runs

-----------------------------------------------------------------------------
(* Types *)

LEMMA Wraps ==
  /\ ID_OFFSET \in Nat
  /\ 0 \in StampRange
  /\ \A s \in StampRange : (s + 1) % ID_OFFSET \in StampRange
  BY ClientAssumption DEF StampRange

LEMMA Lists ==
  /\ <<>> \in Seq(Name)
  /\ Descriptions \subseteq Seq(Name)
  /\ \A s \in Seq(Name) : s # <<>> => Head(s) \in Name /\ Tail(s) \in Seq(Name)
  BY ClientAssumption DEF Descriptions

LEMMA InitTyped == Init => TypeOK
<1> SUFFICES ASSUME Init PROVE TypeOK
  OBVIOUS
<1>1. inits \in 0 .. MaxInit
  BY ClientAssumption DEF Init
<1>2. /\ sum \in [User -> StampRange] /\ piStamp \in [User -> StampRange]
      /\ taskIdMaxNum \in StampRange /\ stamp \in [Run -> StampRange]
  BY Wraps DEF Init
<1>3. list \in [User -> Seq(Name)]
  BY Lists DEF Init
<1> QED
  BY <1>1, <1>2, <1>3 DEF Init, TypeOK, Ledger!Init

LEMMA TypeStep ==
  TypeOK /\ Targets /\ [Next]_vars => TypeOK'
<1> SUFFICES ASSUME TypeOK, Targets, [Next]_vars
             PROVE  TypeOK'
  OBVIOUS
<1>1. ASSUME NEW u \in User, InitCall(u)
      PROVE  TypeOK'
  BY <1>1, ClientAssumption, Wraps, Lists DEF InitCall, Alone, locals, maps, managers,
     ledger, TypeOK, Targets, Processing
<1>2. ASSUME NEW u \in User,
             Load(u) \/ LoadFails(u) \/ LoadModel(u) \/ LoadReturn(u)
      PROVE  TypeOK'
  <2>1. CASE Load(u)
    BY <2>1, ClientAssumption, Wraps, Lists DEF Load, Alone, Goto, setting, maps,
       managers, ledger, TypeOK, Targets, Processing
  <2>2. CASE LoadFails(u)
    BY <2>2, ClientAssumption, Wraps, Lists DEF LoadFails, Goto, setting, maps,
       managers, ledger, TypeOK, Targets, Processing
  <2>3. CASE LoadModel(u)
    BY <2>3, ClientAssumption, Wraps, Lists DEF LoadModel, Repeated, Insert, setting,
       ledger, TypeOK, Targets, Processing
  <2>4. CASE LoadReturn(u)
    BY <2>4, ClientAssumption, Wraps, Lists DEF LoadReturn, Return, Goto, setting, maps,
       managers, ledger, TypeOK, Targets, Processing
  <2> QED
    BY <1>2, <2>1, <2>2, <2>3, <2>4
<1>3. ASSUME NEW u \in User, UnLoadModel(u) \/ DeInit(u) \/ Clear(u)
      PROVE  TypeOK'
  <2>1. CASE UnLoadModel(u)
    BY <2>1, ClientAssumption, Wraps, Lists DEF UnLoadModel, Alone, Goto, setting, maps,
       managers, ledger, TypeOK, Targets, Processing
  <2>2. CASE DeInit(u)
    BY <2>2, ClientAssumption, Wraps, Lists DEF DeInit, Loaded, Ledger!Close,
       Ledger!PendingOf, Ledger!Pending, locals, setting, maps, TypeOK, Targets, Processing
  <2>3. CASE Clear(u)
    BY <2>3, ClientAssumption, Wraps, Lists DEF Clear, Loaded, Return, Goto, setting,
       managers, ledger, TypeOK, Targets, Processing
  <2> QED
    BY <1>3, <2>1, <2>2, <2>3
<1>4. ASSUME NEW u \in User,
             Process(u) \/ GenerateRead(u) \/ GenerateWrite(u) \/ GenerateReturn(u) \/ RunAsync(u) \/ RunNow(u)
      PROVE  TypeOK'
  <2>1. CASE Process(u)
    BY <2>1, ClientAssumption, Wraps, Lists DEF Process, NoLoader, Goto, setting, maps,
       managers, ledger, TypeOK, Targets, Processing
  <2>2. CASE GenerateRead(u)
    BY <2>2, ClientAssumption, Wraps, Lists DEF GenerateRead, Goto, setting, maps,
       managers, ledger, TypeOK, Targets, Processing
  <2>3. CASE GenerateWrite(u)
    BY <2>3, ClientAssumption, Wraps, Lists DEF GenerateWrite, Goto, setting, maps,
       managers, ledger, TypeOK, Targets, Processing
  <2>4. CASE GenerateReturn(u)
    BY <2>4, ClientAssumption, Wraps, Lists DEF GenerateReturn, Goto, setting, maps,
       managers, ledger, TypeOK, Targets, Processing
  <2>5. CASE RunAsync(u)
    BY <2>5, ClientAssumption, Wraps, Lists DEF RunAsync, Asynchronous, Ledger!Accept,
       Return, Goto, setting, maps, TypeOK, Targets, Processing
  <2>6. CASE RunNow(u)
    BY <2>6, ClientAssumption, Wraps, Lists DEF RunNow, Return, Goto, setting, maps,
       managers, ledger, TypeOK, Targets, Processing
  <2> QED
    BY <1>4, <2>1, <2>2, <2>3, <2>4, <2>5, <2>6
<1>5. ASSUME NEW r \in Run, OnRunDone(r)
      PROVE  TypeOK'
  BY <1>5, ClientAssumption, Wraps, Lists DEF OnRunDone, Ledger!Report, locals, setting,
     maps, TypeOK, Targets, Processing
<1>6. ASSUME OnServiceDied
      PROVE  TypeOK'
  BY <1>6, ClientAssumption, Wraps, Lists DEF OnServiceDied, Ledger!Pending,
     Ledger!ServiceDied, locals, setting, maps, TypeOK, Targets, Processing
<1>7. CASE UNCHANGED vars
  BY <1>7 DEF vars, locals, setting, maps, managers, ledger, TypeOK, Targets,
     Processing
<1> QED
  BY <1>1, <1>2, <1>3, <1>4, <1>5, <1>6, <1>7 DEF Next, LoadStep, UnLoadStep,
     ProcessStep

\* What TypeOK says of the variables the invariant is about.
LEMMA Types ==
  TypeOK =>
      /\ pc \in [User -> {"idle", "load", "undo", "unload", "generate", "write", "stamp", "run"}]
      /\ target \in [User -> Manager \cup {None}]
      /\ modelManagerMap \in [Name -> Manager \cup {None}]
      /\ builtModelMap \in [Name -> Manager \cup {None}]
      /\ state \in [Manager -> {"none", "up", "down"}]
      /\ status \in [Run -> {"free", "pending", "reported", "died", "dropped"}]
      /\ owner \in [Run -> Manager \cup {None}] /\ open \in SUBSET Manager
  BY DEF TypeOK

\* The description Load visits next has a name.
LEMMA ListHead ==
  ASSUME TypeOK, NEW u \in User, list[u] # <<>>
  PROVE  Head(list[u]) \in Name
<1>1. list[u] \in Seq(Name)
  BY DEF TypeOK
<1> QED
  BY <1>1, Lists

LEMMA ExclusiveStep ==
  TypeOK /\ Exclusive /\ [Next]_vars => Exclusive'
<1> SUFFICES ASSUME TypeOK, Exclusive, [Next]_vars
             PROVE  Exclusive'
  OBVIOUS
<1>0. /\ pc \in [User -> {"idle", "load", "undo", "unload", "generate", "write", "stamp", "run"}]
      /\ target \in [User -> Manager \cup {None}]
      /\ modelManagerMap \in [Name -> Manager \cup {None}]
      /\ builtModelMap \in [Name -> Manager \cup {None}]
      /\ state \in [Manager -> {"none", "up", "down"}]
      /\ status \in [Run -> {"free", "pending", "reported", "died", "dropped"}]
      /\ owner \in [Run -> Manager \cup {None}] /\ open \in SUBSET Manager
  BY Types
<1>1. ASSUME NEW u \in User, InitCall(u)
      PROVE  Exclusive'
  BY <1>0, <1>1, ClientAssumption DEF InitCall, Alone, locals, maps, managers, ledger,
     Exclusive, Loader
<1>2. ASSUME NEW u \in User,
             Load(u) \/ LoadFails(u) \/ LoadModel(u) \/ LoadReturn(u)
      PROVE  Exclusive'
  BY <1>0, <1>2, ClientAssumption DEF Load, Alone, Goto, setting, maps, managers,
     ledger, LoadFails, LoadModel, Repeated, Insert, LoadReturn, Return,
     Exclusive, Loader
<1>3. ASSUME NEW u \in User, UnLoadModel(u) \/ DeInit(u) \/ Clear(u)
      PROVE  Exclusive'
  BY <1>0, <1>3, ClientAssumption DEF UnLoadModel, Alone, Goto, setting, maps, managers,
     ledger, DeInit, Loaded, Ledger!Close, Ledger!PendingOf, Ledger!Pending,
     locals, Clear, Return, Exclusive, Loader
<1>4. ASSUME NEW u \in User,
             Process(u) \/ GenerateRead(u) \/ GenerateWrite(u) \/ GenerateReturn(u) \/ RunAsync(u) \/ RunNow(u)
      PROVE  Exclusive'
  BY <1>0, <1>4, ClientAssumption DEF Process, NoLoader, Goto, setting, maps, managers,
     ledger, GenerateRead, GenerateWrite, GenerateReturn, RunAsync, Asynchronous,
     Ledger!Accept, Return, RunNow, Exclusive, Loader
<1>5. ASSUME NEW r \in Run, OnRunDone(r)
      PROVE  Exclusive'
  BY <1>0, <1>5, ClientAssumption DEF OnRunDone, Ledger!Report, locals, setting, maps,
     Exclusive, Loader
<1>6. ASSUME OnServiceDied
      PROVE  Exclusive'
  BY <1>0, <1>6, ClientAssumption DEF OnServiceDied, Ledger!Pending, Ledger!ServiceDied,
     locals, setting, maps, Exclusive, Loader
<1>7. CASE UNCHANGED vars
  BY <1>7 DEF vars, locals, setting, maps, managers, ledger, Exclusive, Loader
<1> QED
  BY <1>1, <1>2, <1>3, <1>4, <1>5, <1>6, <1>7 DEF Next, LoadStep, UnLoadStep,
     ProcessStep

LEMMA MapsAgreeStep ==
  TypeOK /\ MapsAgree /\ [Next]_vars => MapsAgree'
<1> SUFFICES ASSUME TypeOK, MapsAgree, [Next]_vars
             PROVE  MapsAgree'
  OBVIOUS
<1>0. /\ pc \in [User -> {"idle", "load", "undo", "unload", "generate", "write", "stamp", "run"}]
      /\ target \in [User -> Manager \cup {None}]
      /\ modelManagerMap \in [Name -> Manager \cup {None}]
      /\ builtModelMap \in [Name -> Manager \cup {None}]
      /\ state \in [Manager -> {"none", "up", "down"}]
      /\ status \in [Run -> {"free", "pending", "reported", "died", "dropped"}]
      /\ owner \in [Run -> Manager \cup {None}] /\ open \in SUBSET Manager
  BY Types
<1>1. ASSUME NEW u \in User, InitCall(u)
      PROVE  MapsAgree'
  BY <1>0, <1>1, ClientAssumption DEF InitCall, Alone, locals, maps, managers, ledger,
     MapsAgree
<1>2. ASSUME NEW u \in User,
             Load(u) \/ LoadFails(u) \/ LoadModel(u) \/ LoadReturn(u)
      PROVE  MapsAgree'
  BY <1>0, <1>2, ClientAssumption DEF Load, Alone, Goto, setting, maps, managers,
     ledger, LoadFails, LoadModel, Repeated, Insert, LoadReturn, Return, MapsAgree
<1>3. ASSUME NEW u \in User, UnLoadModel(u) \/ DeInit(u) \/ Clear(u)
      PROVE  MapsAgree'
  BY <1>0, <1>3, ClientAssumption DEF UnLoadModel, Alone, Goto, setting, maps, managers,
     ledger, DeInit, Loaded, Ledger!Close, Ledger!PendingOf, Ledger!Pending,
     locals, Clear, Return, MapsAgree
<1>4. ASSUME NEW u \in User,
             Process(u) \/ GenerateRead(u) \/ GenerateWrite(u) \/ GenerateReturn(u) \/ RunAsync(u) \/ RunNow(u)
      PROVE  MapsAgree'
  BY <1>0, <1>4, ClientAssumption DEF Process, NoLoader, Goto, setting, maps, managers,
     ledger, GenerateRead, GenerateWrite, GenerateReturn, RunAsync, Asynchronous,
     Ledger!Accept, Return, RunNow, MapsAgree
<1>5. ASSUME NEW r \in Run, OnRunDone(r)
      PROVE  MapsAgree'
  BY <1>0, <1>5, ClientAssumption DEF OnRunDone, Ledger!Report, locals, setting, maps,
     MapsAgree
<1>6. ASSUME OnServiceDied
      PROVE  MapsAgree'
  BY <1>0, <1>6, ClientAssumption DEF OnServiceDied, Ledger!Pending, Ledger!ServiceDied,
     locals, setting, maps, MapsAgree
<1>7. CASE UNCHANGED vars
  BY <1>7 DEF vars, locals, setting, maps, managers, ledger, MapsAgree
<1> QED
  BY <1>1, <1>2, <1>3, <1>4, <1>5, <1>6, <1>7 DEF Next, LoadStep, UnLoadStep,
     ProcessStep

LEMMA DistinctStep ==
  TypeOK /\ Distinct /\ Installed /\ Exclusive /\ [Next]_vars => Distinct'
<1> SUFFICES ASSUME TypeOK, Distinct, Installed, Exclusive, [Next]_vars
             PROVE  Distinct'
  OBVIOUS
<1>0. /\ pc \in [User -> {"idle", "load", "undo", "unload", "generate", "write", "stamp", "run"}]
      /\ target \in [User -> Manager \cup {None}]
      /\ modelManagerMap \in [Name -> Manager \cup {None}]
      /\ builtModelMap \in [Name -> Manager \cup {None}]
      /\ state \in [Manager -> {"none", "up", "down"}]
      /\ status \in [Run -> {"free", "pending", "reported", "died", "dropped"}]
      /\ owner \in [Run -> Manager \cup {None}] /\ open \in SUBSET Manager
  BY Types
<1>1. ASSUME NEW u \in User, InitCall(u)
      PROVE  Distinct'
  BY <1>0, <1>1, ClientAssumption DEF InitCall, Alone, locals, maps, managers, ledger,
     Distinct, Installed, Exclusive, Loader
<1>2. ASSUME NEW u \in User,
             Load(u) \/ LoadFails(u) \/ LoadModel(u) \/ LoadReturn(u)
      PROVE  Distinct'
  BY <1>0, <1>2, ClientAssumption DEF Load, Alone, Goto, setting, maps, managers,
     ledger, LoadFails, LoadModel, Repeated, Insert, LoadReturn, Return, Distinct,
     Installed, Exclusive, Loader
<1>3. ASSUME NEW u \in User, UnLoadModel(u) \/ DeInit(u) \/ Clear(u)
      PROVE  Distinct'
  BY <1>0, <1>3, ClientAssumption DEF UnLoadModel, Alone, Goto, setting, maps, managers,
     ledger, DeInit, Loaded, Ledger!Close, Ledger!PendingOf, Ledger!Pending,
     locals, Clear, Return, Distinct, Installed, Exclusive, Loader
<1>4. ASSUME NEW u \in User,
             Process(u) \/ GenerateRead(u) \/ GenerateWrite(u) \/ GenerateReturn(u) \/ RunAsync(u) \/ RunNow(u)
      PROVE  Distinct'
  BY <1>0, <1>4, ClientAssumption DEF Process, NoLoader, Goto, setting, maps, managers,
     ledger, GenerateRead, GenerateWrite, GenerateReturn, RunAsync, Asynchronous,
     Ledger!Accept, Return, RunNow, Distinct, Installed, Exclusive, Loader
<1>5. ASSUME NEW r \in Run, OnRunDone(r)
      PROVE  Distinct'
  BY <1>0, <1>5, ClientAssumption DEF OnRunDone, Ledger!Report, locals, setting, maps,
     Distinct, Installed, Exclusive, Loader
<1>6. ASSUME OnServiceDied
      PROVE  Distinct'
  BY <1>0, <1>6, ClientAssumption DEF OnServiceDied, Ledger!Pending, Ledger!ServiceDied,
     locals, setting, maps, Distinct, Installed, Exclusive, Loader
<1>7. CASE UNCHANGED vars
  BY <1>7 DEF vars, locals, setting, maps, managers, ledger, Distinct,
     Installed, Exclusive, Loader
<1> QED
  BY <1>1, <1>2, <1>3, <1>4, <1>5, <1>6, <1>7 DEF Next, LoadStep, UnLoadStep,
     ProcessStep

LEMMA InstalledStep ==
  TypeOK /\ Installed /\ Exclusive /\ [Next]_vars => Installed'
<1> SUFFICES ASSUME TypeOK, Installed, Exclusive, [Next]_vars
             PROVE  Installed'
  OBVIOUS
<1>0. /\ pc \in [User -> {"idle", "load", "undo", "unload", "generate", "write", "stamp", "run"}]
      /\ target \in [User -> Manager \cup {None}]
      /\ modelManagerMap \in [Name -> Manager \cup {None}]
      /\ builtModelMap \in [Name -> Manager \cup {None}]
      /\ state \in [Manager -> {"none", "up", "down"}]
      /\ status \in [Run -> {"free", "pending", "reported", "died", "dropped"}]
      /\ owner \in [Run -> Manager \cup {None}] /\ open \in SUBSET Manager
  BY Types
<1>1. ASSUME NEW u \in User, InitCall(u)
      PROVE  Installed'
  BY <1>0, <1>1, ClientAssumption DEF InitCall, Alone, locals, maps, managers, ledger,
     Installed, Exclusive, Loader
<1>2. ASSUME NEW u \in User,
             Load(u) \/ LoadFails(u) \/ LoadModel(u) \/ LoadReturn(u)
      PROVE  Installed'
  BY <1>0, <1>2, ClientAssumption DEF Load, Alone, Goto, setting, maps, managers,
     ledger, LoadFails, LoadModel, Repeated, Insert, LoadReturn, Return,
     Installed, Exclusive, Loader
<1>3. ASSUME NEW u \in User, UnLoadModel(u) \/ DeInit(u) \/ Clear(u)
      PROVE  Installed'
  BY <1>0, <1>3, ClientAssumption DEF UnLoadModel, Alone, Goto, setting, maps, managers,
     ledger, DeInit, Loaded, Ledger!Close, Ledger!PendingOf, Ledger!Pending,
     locals, Clear, Return, Installed, Exclusive, Loader
<1>4. ASSUME NEW u \in User,
             Process(u) \/ GenerateRead(u) \/ GenerateWrite(u) \/ GenerateReturn(u) \/ RunAsync(u) \/ RunNow(u)
      PROVE  Installed'
  BY <1>0, <1>4, ClientAssumption DEF Process, NoLoader, Goto, setting, maps, managers,
     ledger, GenerateRead, GenerateWrite, GenerateReturn, RunAsync, Asynchronous,
     Ledger!Accept, Return, RunNow, Installed, Exclusive, Loader
<1>5. ASSUME NEW r \in Run, OnRunDone(r)
      PROVE  Installed'
  BY <1>0, <1>5, ClientAssumption DEF OnRunDone, Ledger!Report, locals, setting, maps,
     Installed, Exclusive, Loader
<1>6. ASSUME OnServiceDied
      PROVE  Installed'
  BY <1>0, <1>6, ClientAssumption DEF OnServiceDied, Ledger!Pending, Ledger!ServiceDied,
     locals, setting, maps, Installed, Exclusive, Loader
<1>7. CASE UNCHANGED vars
  BY <1>7 DEF vars, locals, setting, maps, managers, ledger, Installed,
     Exclusive, Loader
<1> QED
  BY <1>1, <1>2, <1>3, <1>4, <1>5, <1>6, <1>7 DEF Next, LoadStep, UnLoadStep,
     ProcessStep

LEMMA KnownStep ==
  TypeOK /\ Known /\ Distinct /\ Exclusive /\ [Next]_vars => Known'
<1> SUFFICES ASSUME TypeOK, Known, Distinct, Exclusive, [Next]_vars
             PROVE  Known'
  OBVIOUS
<1>0. /\ pc \in [User -> {"idle", "load", "undo", "unload", "generate", "write", "stamp", "run"}]
      /\ target \in [User -> Manager \cup {None}]
      /\ modelManagerMap \in [Name -> Manager \cup {None}]
      /\ builtModelMap \in [Name -> Manager \cup {None}]
      /\ state \in [Manager -> {"none", "up", "down"}]
      /\ status \in [Run -> {"free", "pending", "reported", "died", "dropped"}]
      /\ owner \in [Run -> Manager \cup {None}] /\ open \in SUBSET Manager
  BY Types
<1>1. ASSUME NEW u \in User, InitCall(u)
      PROVE  Known'
  BY <1>0, <1>1, ClientAssumption DEF InitCall, Alone, locals, maps, managers, ledger,
     Known, Distinct, Exclusive, Loader
<1>2. ASSUME NEW u \in User,
             Load(u) \/ LoadFails(u) \/ LoadModel(u) \/ LoadReturn(u)
      PROVE  Known'
  <2>1. CASE Load(u)
    BY <1>0, <2>1, ClientAssumption DEF Load, Alone, Goto, setting, maps, managers,
       ledger, Known, Distinct, Exclusive, Loader
  <2>2. CASE LoadFails(u)
    BY <1>0, <2>2, ClientAssumption DEF LoadFails, Goto, setting, maps, managers,
       ledger, Known, Distinct, Exclusive, Loader
  <2>3. CASE LoadModel(u)
    <3>1. PICK n \in Name, k \in Manager :
            /\ state[k] = "none" /\ modelManagerMap[n] = None
            /\ state' = [state EXCEPT ![k] = "up"]
            /\ modelManagerMap' = [modelManagerMap EXCEPT ![n] = k]
      BY <2>3, ListHead DEF LoadModel, Repeated, Insert
    <3>2. ASSUME NEW j \in Manager, state'[j] = "up"
          PROVE  \E m \in Name : modelManagerMap'[m] = j
      <4>1. CASE j = k
        BY <1>0, <3>1, <4>1
      <4>2. CASE j # k
        <5>1. PICK m \in Name : modelManagerMap[m] = j
          BY <1>0, <3>1, <3>2, <4>2 DEF Known
        <5>2. m # n
          BY <3>1, <5>1, ClientAssumption
        <5> QED
          BY <1>0, <3>1, <5>1, <5>2
      <4> QED
        BY <4>1, <4>2
    <3> QED
      BY <3>2 DEF Known
  <2>4. CASE LoadReturn(u)
    BY <1>0, <2>4, ClientAssumption DEF LoadReturn, Return, Goto, setting, maps,
       managers, ledger, Known, Distinct, Exclusive, Loader
  <2> QED
    BY <1>2, <2>1, <2>2, <2>3, <2>4
<1>3. ASSUME NEW u \in User, UnLoadModel(u) \/ DeInit(u) \/ Clear(u)
      PROVE  Known'
  BY <1>0, <1>3, ClientAssumption DEF UnLoadModel, Alone, Goto, setting, maps, managers,
     ledger, DeInit, Loaded, Ledger!Close, Ledger!PendingOf, Ledger!Pending,
     locals, Clear, Return, Known, Distinct, Exclusive, Loader
<1>4. ASSUME NEW u \in User,
             Process(u) \/ GenerateRead(u) \/ GenerateWrite(u) \/ GenerateReturn(u) \/ RunAsync(u) \/ RunNow(u)
      PROVE  Known'
  BY <1>0, <1>4, ClientAssumption DEF Process, NoLoader, Goto, setting, maps, managers,
     ledger, GenerateRead, GenerateWrite, GenerateReturn, RunAsync, Asynchronous,
     Ledger!Accept, Return, RunNow, Known, Distinct, Exclusive, Loader
<1>5. ASSUME NEW r \in Run, OnRunDone(r)
      PROVE  Known'
  BY <1>0, <1>5, ClientAssumption DEF OnRunDone, Ledger!Report, locals, setting, maps,
     Known, Distinct, Exclusive, Loader
<1>6. ASSUME OnServiceDied
      PROVE  Known'
  BY <1>0, <1>6, ClientAssumption DEF OnServiceDied, Ledger!Pending, Ledger!ServiceDied,
     locals, setting, maps, Known, Distinct, Exclusive, Loader
<1>7. CASE UNCHANGED vars
  BY <1>7 DEF vars, locals, setting, maps, managers, ledger, Known, Distinct,
     Exclusive, Loader
<1> QED
  BY <1>1, <1>2, <1>3, <1>4, <1>5, <1>6, <1>7 DEF Next, LoadStep, UnLoadStep,
     ProcessStep

LEMMA TargetsStep ==
  TypeOK /\ Targets /\ Exclusive /\ Installed /\ [Next]_vars => Targets'
<1> SUFFICES ASSUME TypeOK, Targets, Exclusive, Installed, [Next]_vars
             PROVE  Targets'
  OBVIOUS
<1>0. /\ pc \in [User -> {"idle", "load", "undo", "unload", "generate", "write", "stamp", "run"}]
      /\ target \in [User -> Manager \cup {None}]
      /\ modelManagerMap \in [Name -> Manager \cup {None}]
      /\ builtModelMap \in [Name -> Manager \cup {None}]
      /\ state \in [Manager -> {"none", "up", "down"}]
      /\ status \in [Run -> {"free", "pending", "reported", "died", "dropped"}]
      /\ owner \in [Run -> Manager \cup {None}] /\ open \in SUBSET Manager
  BY Types
<1>1. ASSUME NEW u \in User, InitCall(u)
      PROVE  Targets'
  BY <1>0, <1>1, ClientAssumption DEF InitCall, Alone, locals, maps, managers, ledger,
     Targets, Exclusive, Installed, Loader, Processing
<1>2. ASSUME NEW u \in User,
             Load(u) \/ LoadFails(u) \/ LoadModel(u) \/ LoadReturn(u)
      PROVE  Targets'
  BY <1>0, <1>2, ClientAssumption DEF Load, Alone, Goto, setting, maps, managers,
     ledger, LoadFails, LoadModel, Repeated, Insert, LoadReturn, Return, Targets,
     Exclusive, Installed, Loader, Processing
<1>3. ASSUME NEW u \in User, UnLoadModel(u) \/ DeInit(u) \/ Clear(u)
      PROVE  Targets'
  BY <1>0, <1>3, ClientAssumption DEF UnLoadModel, Alone, Goto, setting, maps, managers,
     ledger, DeInit, Loaded, Ledger!Close, Ledger!PendingOf, Ledger!Pending,
     locals, Clear, Return, Targets, Exclusive, Installed, Loader, Processing
<1>4. ASSUME NEW u \in User,
             Process(u) \/ GenerateRead(u) \/ GenerateWrite(u) \/ GenerateReturn(u) \/ RunAsync(u) \/ RunNow(u)
      PROVE  Targets'
  BY <1>0, <1>4, ClientAssumption DEF Process, NoLoader, Goto, setting, maps, managers,
     ledger, GenerateRead, GenerateWrite, GenerateReturn, RunAsync, Asynchronous,
     Ledger!Accept, Return, RunNow, Targets, Exclusive, Installed, Loader, Processing
<1>5. ASSUME NEW r \in Run, OnRunDone(r)
      PROVE  Targets'
  BY <1>0, <1>5, ClientAssumption DEF OnRunDone, Ledger!Report, locals, setting, maps,
     Targets, Exclusive, Installed, Loader, Processing
<1>6. ASSUME OnServiceDied
      PROVE  Targets'
  BY <1>0, <1>6, ClientAssumption DEF OnServiceDied, Ledger!Pending, Ledger!ServiceDied,
     locals, setting, maps, Targets, Exclusive, Installed, Loader, Processing
<1>7. CASE UNCHANGED vars
  BY <1>7 DEF vars, locals, setting, maps, managers, ledger, Targets,
     Exclusive, Installed, Loader, Processing
<1> QED
  BY <1>1, <1>2, <1>3, <1>4, <1>5, <1>6, <1>7 DEF Next, LoadStep, UnLoadStep,
     ProcessStep

LEMMA RunsStep ==
  TypeOK /\ Runs /\ Targets /\ [Next]_vars => Runs'
<1> SUFFICES ASSUME TypeOK, Runs, Targets, [Next]_vars
             PROVE  Runs'
  OBVIOUS
<1>0. /\ pc \in [User -> {"idle", "load", "undo", "unload", "generate", "write", "stamp", "run"}]
      /\ target \in [User -> Manager \cup {None}]
      /\ modelManagerMap \in [Name -> Manager \cup {None}]
      /\ builtModelMap \in [Name -> Manager \cup {None}]
      /\ state \in [Manager -> {"none", "up", "down"}]
      /\ status \in [Run -> {"free", "pending", "reported", "died", "dropped"}]
      /\ owner \in [Run -> Manager \cup {None}] /\ open \in SUBSET Manager
  BY Types
<1>1. ASSUME NEW u \in User, InitCall(u)
      PROVE  Runs'
  BY <1>0, <1>1, ClientAssumption DEF InitCall, Alone, locals, maps, managers, ledger,
     Runs, Targets, Processing
<1>2. ASSUME NEW u \in User,
             Load(u) \/ LoadFails(u) \/ LoadModel(u) \/ LoadReturn(u)
      PROVE  Runs'
  BY <1>0, <1>2, ClientAssumption DEF Load, Alone, Goto, setting, maps, managers,
     ledger, LoadFails, LoadModel, Repeated, Insert, LoadReturn, Return, Runs,
     Targets, Processing
<1>3. ASSUME NEW u \in User, UnLoadModel(u) \/ DeInit(u) \/ Clear(u)
      PROVE  Runs'
  BY <1>0, <1>3, ClientAssumption DEF UnLoadModel, Alone, Goto, setting, maps, managers,
     ledger, DeInit, Loaded, Ledger!Close, Ledger!PendingOf, Ledger!Pending,
     locals, Clear, Return, Runs, Targets, Processing
<1>4. ASSUME NEW u \in User,
             Process(u) \/ GenerateRead(u) \/ GenerateWrite(u) \/ GenerateReturn(u) \/ RunAsync(u) \/ RunNow(u)
      PROVE  Runs'
  BY <1>0, <1>4, ClientAssumption DEF Process, NoLoader, Goto, setting, maps, managers,
     ledger, GenerateRead, GenerateWrite, GenerateReturn, RunAsync, Asynchronous,
     Ledger!Accept, Return, RunNow, Runs, Targets, Processing
<1>5. ASSUME NEW r \in Run, OnRunDone(r)
      PROVE  Runs'
  BY <1>0, <1>5, ClientAssumption DEF OnRunDone, Ledger!Report, locals, setting, maps,
     Runs, Targets, Processing
<1>6. ASSUME OnServiceDied
      PROVE  Runs'
  BY <1>0, <1>6, ClientAssumption DEF OnServiceDied, Ledger!Pending, Ledger!ServiceDied,
     locals, setting, maps, Runs, Targets, Processing
<1>7. CASE UNCHANGED vars
  BY <1>7 DEF vars, locals, setting, maps, managers, ledger, Runs, Targets,
     Processing
<1> QED
  BY <1>1, <1>2, <1>3, <1>4, <1>5, <1>6, <1>7 DEF Next, LoadStep, UnLoadStep,
     ProcessStep

-----------------------------------------------------------------------------
(* Theorems *)

LEMMA InitInvariant == Init => IInv
  BY ClientAssumption
  DEF Init, IInv, Exclusive, Loader, MapsAgree, Distinct, Installed, Known, Targets, Processing,
      Runs, Ledger!Init

LEMMA InvariantStep == TypeOK /\ IInv /\ [Next]_vars => TypeOK' /\ IInv'
  BY TypeStep, ExclusiveStep, MapsAgreeStep, DistinctStep, InstalledStep, KnownStep, TargetsStep,
     RunsStep DEF IInv

LEMMA Invariant == Spec => [](TypeOK /\ IInv)
<1>1. Init => TypeOK /\ IInv
  BY InitTyped, InitInvariant
<1>2. TypeOK /\ IInv /\ [Next]_vars => (TypeOK /\ IInv)'
  BY InvariantStep
<1> QED
  BY <1>1, <1>2, PTL DEF Spec

\* Every variable keeps its type; in particular the stamps stay below
\* ID_OFFSET.
THEOREM TypeCorrect == Spec => []TypeOK
  BY Invariant, PTL

\* The two maps of the client always describe the same models.
THEOREM MapsInStep == Spec => []MapsAgree
<1>1. IInv => MapsAgree
  BY DEF IInv
<1> QED
  BY <1>1, Invariant, PTL

\* Every loaded model can be unloaded by its one name.
THEOREM EveryManagerOwned == Spec => []ManagersOwned
<1>1. TypeOK /\ IInv => ManagersOwned
  BY ClientAssumption DEF IInv, Known, Distinct, ManagersOwned
<1> QED
  BY <1>1, Invariant, PTL

\* Every run that may still be reported belongs to a model in the map.
THEOREM EveryRunReachable == Spec => []PendingReachable
<1>1. IInv => PendingReachable
  BY DEF IInv, Runs, Known, PendingReachable, Ledger!Pending
<1> QED
  BY <1>1, Invariant, PTL

\* When a failed Load returns no model is loaded.
THEOREM FailedLoadLeavesNothing == Spec => FailedLoadUnloads
<1>1. ASSUME TypeOK, IInv, [Next]_vars, NEW u \in User, LoadPending(u), pc'[u] = "idle",
             NEW k \in Manager
      PROVE  state'[k] # "up"
  <2>1. Clear(u)
    <3>1. pc \in [User -> {"idle", "load", "undo", "unload", "generate", "write", "stamp", "run"}]
      BY <1>1 DEF TypeOK
    <3>2. ASSUME NEW v \in User, InitCall(v) \/ LoadStep(v) \/ UnLoadStep(v) \/ ProcessStep(v)
          PROVE  Clear(u)
      BY <1>1, <3>1, <3>2 DEF InitCall, Alone, locals, maps, managers, ledger, LoadStep, Load, Goto, setting, LoadFails, LoadModel, LoadReturn, Return,
         UnLoadStep, UnLoadModel, DeInit, ProcessStep, Process, NoLoader, GenerateRead,
         GenerateWrite, GenerateReturn, RunAsync, RunNow, Clear, LoadPending
    <3>3. ~(\E r \in Run : OnRunDone(r)) /\ ~OnServiceDied /\ ~UNCHANGED vars
      BY <1>1 DEF OnRunDone, OnServiceDied, vars, locals, LoadPending
    <3> QED
      BY <1>1, <3>2, <3>3 DEF Next
  <2>2. \A n \in Name : modelManagerMap[n] # None => state[modelManagerMap[n]] = "down"
    BY <2>1 DEF Clear, Loaded
  <2>3. state[k] # "up"
    BY <1>1, <2>2, ClientAssumption DEF IInv, Known
  <2> QED
    BY <2>1, <2>3 DEF Clear, managers
<1>2. TypeOK /\ IInv /\ [Next]_vars => [ReturnsUnloaded]_vars
  BY <1>1 DEF ReturnsUnloaded
<1> QED
  BY <1>2, Invariant, PTL DEF Spec, FailedLoadUnloads

\* Load, UnLoad and Process: the two maps agree, hold every loaded model once and
\* lead to every pending run.
THEOREM ModelsAreSound == Spec => []ModelsSound
<1>1. MapsAgree /\ ManagersOwned /\ PendingReachable => ModelsSound
  BY DEF ModelsSound
<1> QED
  BY <1>1, MapsInStep, EveryManagerOwned, EveryRunReachable, PTL

=============================================================================
