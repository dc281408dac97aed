------------------------ MODULE ModelRuntimeRepo_proofs ------------------------
(***************************************************************************)
(* Proofs about ModelRuntimeRepo, for any number of threads, models and    *)
(* tables, any list of supported runtimes and any devices.                 *)
(***************************************************************************)
EXTENDS ModelRuntimeRepo, TLAPS

\* What the local variables of a thread hold where it is.
Frames ==
  \A t \in Thread :
    /\ op[t] \notin Pass => index[t] \in Hcl
    /\ op[t] = "table" => table[t] \in Table
    /\ pc[t] \in {"wait", "inited"} => op[t] = "table"
    /\ pc[t] = "wait" => index[t] = PLUGIN
    /\ pc[t] = "idle" <=> op[t] = "none"
    /\ pc[t] = "ask" => op[t] \in Pass /\ runtimes[index[t]] # None

\* One thread at a time is between the lock and the unlock.
Mutex ==
  \A t \in Thread :
    pc[t] \in {"load", "create", "add", "unlock"} => g_runtimesMutex = t

\* A runtime is loaded for a place that stays empty until it is added.
Fetched ==
  \A t \in Thread :
    /\ modelRuntime[t] # None <=> pc[t] = "add"
    /\ pc[t] \in {"create", "add"} => runtimes[index[t]] = None

\* When the static objects are destroyed nobody uses them.
Quiet ==
  exited => /\ \A t \in Thread : pc[t] = "idle"
            /\ \A m \in Model : builtModels[m] = None

IInv == Frames /\ Mutex /\ Fetched /\ Quiet /\ LoadedOnce /\ ExitUnloadsAll /\ RuntimesOwned

-----------------------------------------------------------------------------
(* Types *)

LEMMA InitTyped == Init => TypeOK
<1> SUFFICES ASSUME Init PROVE TypeOK
  OBVIOUS
<1>1. /\ runtimes \in [Type -> Object \cup {None}]
      /\ memory \in [Object -> Type \cup {None}]
  BY DEF Init, Type, PLUGIN, LOCALHCL, DIRECT, ROMHCL, BINARY
<1>2. device \in DeviceType
  BY RepoAssumption DEF Init
<1>3. index \in [Thread -> Type]
  BY DEF Init, Type, PLUGIN, LOCALHCL, DIRECT, ROMHCL, BINARY
<1> QED
  BY <1>1, <1>2, <1>3, RepoAssumption
  DEF Init, TypeOK, Label, Pass, Search

LEMMA TypeStep ==
  TypeOK /\ Frames /\ [Next]_vars => TypeOK'
<1> SUFFICES ASSUME TypeOK, Frames, [Next]_vars
             PROVE  TypeOK'
  OBVIOUS
<1>1. ASSUME NEW t \in Thread,
             TryRestore(t) \/ TryBuild(t) \/ FindHcl(t) \/ NeedTable(t)
      PROVE  TypeOK'
  <2>1. CASE TryRestore(t)
    BY <2>1, RepoAssumption DEF TryRestore, Enter, PLUGIN, Goto, statics, heap, TypeOK,
       Frames, Label, Hcl, Pass, Search, Type, LOCALHCL, DIRECT, ROMHCL, BINARY
  <2>2. CASE TryBuild(t)
    BY <2>2, RepoAssumption DEF TryBuild, Enter, PLUGIN, Goto, statics, heap, TypeOK,
       Frames, Label, Hcl, Pass, Search, Type, LOCALHCL, DIRECT, ROMHCL, BINARY
  <2>3. CASE FindHcl(t)
    BY <2>3, RepoAssumption DEF FindHcl, Enter, PLUGIN, Goto, statics, heap, TypeOK,
       Frames, Label, Hcl, Pass, Search, Type, LOCALHCL, DIRECT, ROMHCL, BINARY
  <2>4. CASE NeedTable(t)
    BY <2>4, RepoAssumption DEF NeedTable, Enter, PLUGIN, Goto, statics, heap, TypeOK,
       Frames, Label, Hcl, Pass, Search, Type, LOCALHCL, DIRECT, ROMHCL, BINARY
  <2> QED
    BY <1>1, <2>1, <2>2, <2>3, <2>4
<1>2. ASSUME NEW t \in Thread,
             Skip(t) \/ Check(t) \/ Nothing(t) \/ Got(t) \/ Refused(t)
      PROVE  TypeOK'
  <2>1. CASE Skip(t)
    BY <2>1, RepoAssumption DEF Skip, Skipped, Pass, Hcl, PLUGIN, LOCALHCL, ROMHCL,
       Advance, Last, BINARY, Following, Search, Goto, statics, heap, TypeOK, Frames,
       Label, Type, DIRECT
  <2>2. CASE Check(t)
    BY <2>2, RepoAssumption DEF Check, Skipped, Pass, Hcl, PLUGIN, LOCALHCL, ROMHCL,
       Goto, statics, heap, TypeOK, Frames, Label, Search, Type, DIRECT, BINARY
  <2>3. CASE Nothing(t)
    BY <2>3, RepoAssumption DEF Nothing, Advance, Last, Pass, BINARY, ROMHCL, Following,
       Search, LOCALHCL, Goto, statics, heap, TypeOK, Frames, Label, Hcl, Type, PLUGIN,
       DIRECT
  <2>4. CASE Got(t)
    BY <2>4, RepoAssumption DEF Got, Pass, Tried, Hcl, PLUGIN, LOCALHCL, ROMHCL, Goto,
       statics, heap, TypeOK, Frames, Label, Search, Type, DIRECT, BINARY
  <2>5. CASE Refused(t)
    BY <2>5, RepoAssumption DEF Refused, Advance, Last, Pass, BINARY, ROMHCL, Following,
       Search, LOCALHCL, Goto, statics, heap, TypeOK, Frames, Label, Hcl, Type, PLUGIN,
       DIRECT
  <2> QED
    BY <1>2, <2>1, <2>2, <2>3, <2>4, <2>5
<1>3. ASSUME NEW t \in Thread,
             Lock(t) \/ Recheck(t) \/ Create(t) \/ CreateNothing(t) \/ Add(t) \/ Unlock(t)
      PROVE  TypeOK'
  <2>1. CASE Lock(t)
    BY <2>1, RepoAssumption DEF Lock, Goto, heap, TypeOK, Frames, Label, Hcl, Pass,
       Search, Type, PLUGIN, LOCALHCL, DIRECT, ROMHCL, BINARY
  <2>2. CASE Recheck(t)
    BY <2>2, RepoAssumption DEF Recheck, Goto, statics, heap, TypeOK, Frames, Label,
       Hcl, Pass, Search, Type, PLUGIN, LOCALHCL, DIRECT, ROMHCL, BINARY
  <2>3. CASE Create(t)
    BY <2>3, RepoAssumption DEF Create, Loadable, DIRECT, PLUGIN, Goto, statics, TypeOK,
       Frames, Label, Hcl, Pass, Search, Type, LOCALHCL, ROMHCL, BINARY
  <2>4. CASE CreateNothing(t)
    BY <2>4, RepoAssumption DEF CreateNothing, Loadable, DIRECT, PLUGIN, Goto, heap,
       TypeOK, Frames, Label, Hcl, Pass, Search, Type, LOCALHCL, ROMHCL, BINARY
  <2>5. CASE Add(t)
    BY <2>5, RepoAssumption DEF Add, Goto, heap, TypeOK, Frames, Label, Hcl, Pass,
       Search, Type, PLUGIN, LOCALHCL, DIRECT, ROMHCL, BINARY
  <2>6. CASE Unlock(t)
    BY <2>6, RepoAssumption DEF Unlock, Goto, heap, TypeOK, Frames, Label, Hcl, Pass,
       Search, Type, PLUGIN, LOCALHCL, DIRECT, ROMHCL, BINARY
  <2> QED
    BY <1>3, <2>1, <2>2, <2>3, <2>4, <2>5, <2>6
<1>4. ASSUME NEW t \in Thread, Accepted(t) \/ NotFound(t) \/ Found(t)
      PROVE  TypeOK'
  <2>1. CASE Accepted(t)
    BY <2>1, RepoAssumption DEF Accepted, SymbolsAt, Leave, Goto, Enter, PLUGIN,
       statics, TypeOK, Frames, Label, Hcl, Pass, Search, Type, LOCALHCL, DIRECT, ROMHCL,
       BINARY
  <2>2. CASE NotFound(t)
    BY <2>2, RepoAssumption DEF NotFound, Leave, Goto, Enter, PLUGIN, statics, heap,
       TypeOK, Frames, Label, Hcl, Pass, Search, Type, LOCALHCL, DIRECT, ROMHCL, BINARY
  <2>3. CASE Found(t)
    BY <2>3, RepoAssumption DEF Found, Leave, Goto, Enter, PLUGIN, statics, heap,
       TypeOK, Frames, Label, Hcl, Pass, Search, Type, LOCALHCL, DIRECT, ROMHCL, BINARY
  <2> QED
    BY <1>4, <2>1, <2>2, <2>3
<1>5. ASSUME NEW t \in Thread,
             LockTable(t) \/ InitTable(t) \/ UnlockTable(t)
      PROVE  TypeOK'
  <2>1. CASE LockTable(t)
    BY <2>1, RepoAssumption DEF LockTable, Goto, heap, TypeOK, Frames, Label, Hcl, Pass,
       Search, Type, PLUGIN, LOCALHCL, DIRECT, ROMHCL, BINARY
  <2>2. CASE InitTable(t)
    BY <2>2, RepoAssumption DEF InitTable, SymbolsAt, Goto, heap, TypeOK, Frames, Label,
       Hcl, Pass, Search, Type, PLUGIN, LOCALHCL, DIRECT, ROMHCL, BINARY
  <2>3. CASE UnlockTable(t)
    BY <2>3, RepoAssumption DEF UnlockTable, Leave, Goto, Enter, PLUGIN, heap, TypeOK,
       Frames, Label, Hcl, Pass, Search, Type, LOCALHCL, DIRECT, ROMHCL, BINARY
  <2> QED
    BY <1>5, <2>1, <2>2, <2>3
<1>6. ASSUME NEW m \in Model, Destroy(m)
      PROVE  TypeOK'
  BY <1>6, RepoAssumption DEF Destroy, statics, locals, TypeOK, Frames, Label, Hcl,
     Pass, Search, Type, PLUGIN, LOCALHCL, DIRECT, ROMHCL, BINARY
<1>7. ASSUME Install
      PROVE  TypeOK'
  <2>1. device \in DeviceType /\ device.kind \in [Type -> Kind]
    BY DEF TypeOK, DeviceType
  <2>2. /\ device' = [device EXCEPT !.kind = [device.kind EXCEPT ![PLUGIN] = "usable"]]
        /\ UNCHANGED <<statics, heap, locals>>
    BY <1>7 DEF Install
  <2>3. [device.kind EXCEPT ![PLUGIN] = "usable"] \in [Type -> Kind]
    BY <2>1 DEF Kind
  <2>4. device' \in DeviceType
    BY <2>1, <2>2, <2>3 DEF DeviceType
  <2> QED
    BY <2>2, <2>4 DEF statics, heap, locals, TypeOK
<1>8. ASSUME DeInit
      PROVE  TypeOK'
  BY <1>8, RepoAssumption DEF DeInit, DeInited, Type, PLUGIN, BINARY, locals, TypeOK,
     Frames, Label, Hcl, Pass, Search, LOCALHCL, DIRECT, ROMHCL
<1>9. ASSUME Exited
      PROVE  TypeOK'
  BY <1>9, RepoAssumption DEF Exited, vars, statics, heap, locals, TypeOK, Frames,
     Label, Hcl, Pass, Search, Type, PLUGIN, LOCALHCL, DIRECT, ROMHCL, BINARY
<1>10. CASE UNCHANGED vars
  BY <1>10 DEF vars, statics, heap, locals, TypeOK, Frames, Label, Hcl, Pass, Search,
     Type, PLUGIN, LOCALHCL, DIRECT, ROMHCL, BINARY
<1> QED
  BY <1>1, <1>2, <1>3, <1>4, <1>5, <1>6, <1>7, <1>8, <1>9, <1>10 DEF Next, Begin,
     Continue

\* What TypeOK says of the variables the invariants are about.
LEMMA Types ==
  TypeOK =>
      /\ device \in [kind : [Type -> Kind], symbols : [Type -> SUBSET Symbol], upgradable : BOOLEAN]
      /\ runtimes \in [Type -> Object \cup {None}]
      /\ g_runtimesMutex \in Thread \cup {None}
      /\ enhanceChecked \in BOOLEAN
      /\ funcs \in [Table -> Object \cup {V1, None}]
      /\ exited \in BOOLEAN
      /\ memory \in [Object -> Type \cup {None}]
      /\ builtModels \in [Model -> Object \cup {None}]
      /\ pc \in [Thread -> Label]
      /\ op \in [Thread -> Pass \cup Search \cup {"none"}]
      /\ index \in [Thread -> Type]
      /\ isHCLTried \in [Thread -> BOOLEAN]
      /\ modelRuntime \in [Thread -> Object \cup {None}]
      /\ options \in [Thread -> Object \cup {V1, None}]
      /\ table \in [Thread -> Table \cup {None}]
      /\ asked \in [Thread -> SUBSET Type]
  BY DEF TypeOK, DeviceType

LEMMA FramesStep ==
  TypeOK /\ Frames /\ Fetched /\ [Next]_vars => Frames'
<1> SUFFICES ASSUME TypeOK, Frames, Fetched, [Next]_vars
             PROVE  Frames'
  OBVIOUS
<1>0. /\ device \in [kind : [Type -> Kind], symbols : [Type -> SUBSET Symbol], upgradable : BOOLEAN]
      /\ runtimes \in [Type -> Object \cup {None}]
      /\ g_runtimesMutex \in Thread \cup {None}
      /\ enhanceChecked \in BOOLEAN
      /\ funcs \in [Table -> Object \cup {V1, None}]
      /\ exited \in BOOLEAN
      /\ memory \in [Object -> Type \cup {None}]
      /\ builtModels \in [Model -> Object \cup {None}]
      /\ pc \in [Thread -> Label]
      /\ op \in [Thread -> Pass \cup Search \cup {"none"}]
      /\ index \in [Thread -> Type]
      /\ isHCLTried \in [Thread -> BOOLEAN]
      /\ modelRuntime \in [Thread -> Object \cup {None}]
      /\ options \in [Thread -> Object \cup {V1, None}]
      /\ table \in [Thread -> Table \cup {None}]
      /\ asked \in [Thread -> SUBSET Type]
  BY Types
<1>1. ASSUME NEW t \in Thread,
             TryRestore(t) \/ TryBuild(t) \/ FindHcl(t) \/ NeedTable(t)
      PROVE  Frames'
  BY <1>0, <1>1, RepoAssumption DEF TryRestore, Enter, PLUGIN, Goto, statics, heap,
     TryBuild, FindHcl, NeedTable, Frames, Fetched, Hcl, Pass, Search, Type, LOCALHCL,
     DIRECT, ROMHCL, BINARY
<1>2. ASSUME NEW t \in Thread,
             Skip(t) \/ Check(t) \/ Nothing(t) \/ Got(t) \/ Refused(t)
      PROVE  Frames'
  BY <1>0, <1>2, RepoAssumption DEF Skip, Skipped, Pass, Hcl, PLUGIN, LOCALHCL, ROMHCL,
     Advance, Last, BINARY, Following, Search, Goto, statics, heap, Check, Nothing, Got,
     Tried, Refused, Frames, Fetched, Type, DIRECT
<1>3. ASSUME NEW t \in Thread,
             Lock(t) \/ Recheck(t) \/ Create(t) \/ CreateNothing(t) \/ Add(t) \/ Unlock(t)
      PROVE  Frames'
  BY <1>0, <1>3, RepoAssumption DEF Lock, Goto, heap, Recheck, statics, Create,
     Loadable, DIRECT, PLUGIN, CreateNothing, Add, Unlock, Frames, Fetched, Hcl, Pass,
     Search, Type, LOCALHCL, ROMHCL, BINARY
<1>4. ASSUME NEW t \in Thread, Accepted(t) \/ NotFound(t) \/ Found(t)
      PROVE  Frames'
  BY <1>0, <1>4, RepoAssumption DEF Accepted, SymbolsAt, Leave, Goto, Enter, PLUGIN,
     statics, NotFound, heap, Found, Frames, Fetched, Hcl, Pass, Search, Type, LOCALHCL,
     DIRECT, ROMHCL, BINARY
<1>5. ASSUME NEW t \in Thread,
             LockTable(t) \/ InitTable(t) \/ UnlockTable(t)
      PROVE  Frames'
  BY <1>0, <1>5, RepoAssumption DEF LockTable, Goto, heap, InitTable, SymbolsAt,
     UnlockTable, Leave, Enter, PLUGIN, Frames, Fetched, Hcl, Pass, Search, Type, LOCALHCL,
     DIRECT, ROMHCL, BINARY
<1>6. ASSUME NEW m \in Model, Destroy(m)
      PROVE  Frames'
  BY <1>0, <1>6, RepoAssumption DEF Destroy, statics, locals, Frames, Fetched, Hcl,
     Pass, Search, Type, PLUGIN, LOCALHCL, DIRECT, ROMHCL, BINARY
<1>7. ASSUME Install
      PROVE  Frames'
  BY <1>0, <1>7, RepoAssumption DEF Install, PLUGIN, statics, heap, locals, Frames,
     Fetched, Hcl, Pass, Search, Type, LOCALHCL, DIRECT, ROMHCL, BINARY
<1>8. ASSUME DeInit
      PROVE  Frames'
  BY <1>0, <1>8, RepoAssumption DEF DeInit, DeInited, Type, PLUGIN, BINARY, locals,
     Frames, Fetched, Hcl, Pass, Search, LOCALHCL, DIRECT, ROMHCL
<1>9. ASSUME Exited
      PROVE  Frames'
  BY <1>0, <1>9, RepoAssumption DEF Exited, vars, statics, heap, locals, Frames,
     Fetched, Hcl, Pass, Search, Type, PLUGIN, LOCALHCL, DIRECT, ROMHCL, BINARY
<1>10. CASE UNCHANGED vars
  BY <1>10 DEF vars, statics, heap, locals, Frames, Fetched, Hcl, Pass, Search, Type,
     PLUGIN, LOCALHCL, DIRECT, ROMHCL, BINARY
<1> QED
  BY <1>1, <1>2, <1>3, <1>4, <1>5, <1>6, <1>7, <1>8, <1>9, <1>10 DEF Next, Begin,
     Continue

LEMMA MutexStep ==
  TypeOK /\ Mutex /\ [Next]_vars => Mutex'
<1> SUFFICES ASSUME TypeOK, Mutex, [Next]_vars
             PROVE  Mutex'
  OBVIOUS
<1>0. /\ device \in [kind : [Type -> Kind], symbols : [Type -> SUBSET Symbol], upgradable : BOOLEAN]
      /\ runtimes \in [Type -> Object \cup {None}]
      /\ g_runtimesMutex \in Thread \cup {None}
      /\ enhanceChecked \in BOOLEAN
      /\ funcs \in [Table -> Object \cup {V1, None}]
      /\ exited \in BOOLEAN
      /\ memory \in [Object -> Type \cup {None}]
      /\ builtModels \in [Model -> Object \cup {None}]
      /\ pc \in [Thread -> Label]
      /\ op \in [Thread -> Pass \cup Search \cup {"none"}]
      /\ index \in [Thread -> Type]
      /\ isHCLTried \in [Thread -> BOOLEAN]
      /\ modelRuntime \in [Thread -> Object \cup {None}]
      /\ options \in [Thread -> Object \cup {V1, None}]
      /\ table \in [Thread -> Table \cup {None}]
      /\ asked \in [Thread -> SUBSET Type]
  BY Types
<1>1. ASSUME NEW t \in Thread,
             TryRestore(t) \/ TryBuild(t) \/ FindHcl(t) \/ NeedTable(t)
      PROVE  Mutex'
  BY <1>0, <1>1, RepoAssumption DEF TryRestore, Enter, PLUGIN, Goto, statics, heap,
     TryBuild, FindHcl, NeedTable, Mutex
<1>2. ASSUME NEW t \in Thread,
             Skip(t) \/ Check(t) \/ Nothing(t) \/ Got(t) \/ Refused(t)
      PROVE  Mutex'
  BY <1>0, <1>2, RepoAssumption DEF Skip, Skipped, Pass, Hcl, PLUGIN, LOCALHCL, ROMHCL,
     Advance, Last, BINARY, Following, Search, Goto, statics, heap, Check, Nothing, Got,
     Tried, Refused, Mutex
<1>3. ASSUME NEW t \in Thread,
             Lock(t) \/ Recheck(t) \/ Create(t) \/ CreateNothing(t) \/ Add(t) \/ Unlock(t)
      PROVE  Mutex'
  BY <1>0, <1>3, RepoAssumption DEF Lock, Goto, heap, Recheck, statics, Create,
     Loadable, DIRECT, PLUGIN, CreateNothing, Add, Unlock, Mutex
<1>4. ASSUME NEW t \in Thread, Accepted(t) \/ NotFound(t) \/ Found(t)
      PROVE  Mutex'
  BY <1>0, <1>4, RepoAssumption DEF Accepted, SymbolsAt, Leave, Goto, Enter, PLUGIN,
     statics, NotFound, heap, Found, Mutex
<1>5. ASSUME NEW t \in Thread,
             LockTable(t) \/ InitTable(t) \/ UnlockTable(t)
      PROVE  Mutex'
  BY <1>0, <1>5, RepoAssumption DEF LockTable, Goto, heap, InitTable, SymbolsAt,
     UnlockTable, Leave, Enter, PLUGIN, Mutex
<1>6. ASSUME NEW m \in Model, Destroy(m)
      PROVE  Mutex'
  BY <1>0, <1>6, RepoAssumption DEF Destroy, statics, locals, Mutex
<1>7. ASSUME Install
      PROVE  Mutex'
  BY <1>0, <1>7, RepoAssumption DEF Install, PLUGIN, statics, heap, locals, Mutex
<1>8. ASSUME DeInit
      PROVE  Mutex'
  BY <1>0, <1>8, RepoAssumption DEF DeInit, DeInited, Type, PLUGIN, BINARY, locals,
     Mutex
<1>9. ASSUME Exited
      PROVE  Mutex'
  BY <1>0, <1>9, RepoAssumption DEF Exited, vars, statics, heap, locals, Mutex
<1>10. CASE UNCHANGED vars
  BY <1>10 DEF vars, statics, heap, locals, Mutex
<1> QED
  BY <1>1, <1>2, <1>3, <1>4, <1>5, <1>6, <1>7, <1>8, <1>9, <1>10 DEF Next, Begin,
     Continue

LEMMA FetchedStep ==
  TypeOK /\ Fetched /\ Mutex /\ [Next]_vars => Fetched'
<1> SUFFICES ASSUME TypeOK, Fetched, Mutex, [Next]_vars
             PROVE  Fetched'
  OBVIOUS
<1>0. /\ device \in [kind : [Type -> Kind], symbols : [Type -> SUBSET Symbol], upgradable : BOOLEAN]
      /\ runtimes \in [Type -> Object \cup {None}]
      /\ g_runtimesMutex \in Thread \cup {None}
      /\ enhanceChecked \in BOOLEAN
      /\ funcs \in [Table -> Object \cup {V1, None}]
      /\ exited \in BOOLEAN
      /\ memory \in [Object -> Type \cup {None}]
      /\ builtModels \in [Model -> Object \cup {None}]
      /\ pc \in [Thread -> Label]
      /\ op \in [Thread -> Pass \cup Search \cup {"none"}]
      /\ index \in [Thread -> Type]
      /\ isHCLTried \in [Thread -> BOOLEAN]
      /\ modelRuntime \in [Thread -> Object \cup {None}]
      /\ options \in [Thread -> Object \cup {V1, None}]
      /\ table \in [Thread -> Table \cup {None}]
      /\ asked \in [Thread -> SUBSET Type]
  BY Types
<1>1. ASSUME NEW t \in Thread,
             TryRestore(t) \/ TryBuild(t) \/ FindHcl(t) \/ NeedTable(t)
      PROVE  Fetched'
  BY <1>0, <1>1, RepoAssumption DEF TryRestore, Enter, PLUGIN, Goto, statics, heap,
     TryBuild, FindHcl, NeedTable, Fetched, Mutex
<1>2. ASSUME NEW t \in Thread,
             Skip(t) \/ Check(t) \/ Nothing(t) \/ Got(t) \/ Refused(t)
      PROVE  Fetched'
  BY <1>0, <1>2, RepoAssumption DEF Skip, Skipped, Pass, Hcl, PLUGIN, LOCALHCL, ROMHCL,
     Advance, Last, BINARY, Following, Search, Goto, statics, heap, Check, Nothing, Got,
     Tried, Refused, Fetched, Mutex
<1>3. ASSUME NEW t \in Thread,
             Lock(t) \/ Recheck(t) \/ Create(t) \/ CreateNothing(t) \/ Add(t) \/ Unlock(t)
      PROVE  Fetched'
  BY <1>0, <1>3, RepoAssumption DEF Lock, Goto, heap, Recheck, statics, Create,
     Loadable, DIRECT, PLUGIN, CreateNothing, Add, Unlock, Fetched, Mutex
<1>4. ASSUME NEW t \in Thread, Accepted(t) \/ NotFound(t) \/ Found(t)
      PROVE  Fetched'
  BY <1>0, <1>4, RepoAssumption DEF Accepted, SymbolsAt, Leave, Goto, Enter, PLUGIN,
     statics, NotFound, heap, Found, Fetched, Mutex
<1>5. ASSUME NEW t \in Thread,
             LockTable(t) \/ InitTable(t) \/ UnlockTable(t)
      PROVE  Fetched'
  BY <1>0, <1>5, RepoAssumption DEF LockTable, Goto, heap, InitTable, SymbolsAt,
     UnlockTable, Leave, Enter, PLUGIN, Fetched, Mutex
<1>6. ASSUME NEW m \in Model, Destroy(m)
      PROVE  Fetched'
  BY <1>0, <1>6, RepoAssumption DEF Destroy, statics, locals, Fetched, Mutex
<1>7. ASSUME Install
      PROVE  Fetched'
  BY <1>0, <1>7, RepoAssumption DEF Install, PLUGIN, statics, heap, locals, Fetched,
     Mutex
<1>8. ASSUME DeInit
      PROVE  Fetched'
  BY <1>0, <1>8, RepoAssumption DEF DeInit, DeInited, Type, PLUGIN, BINARY, locals,
     Fetched, Mutex
<1>9. ASSUME Exited
      PROVE  Fetched'
  BY <1>0, <1>9, RepoAssumption DEF Exited, vars, statics, heap, locals, Fetched, Mutex
<1>10. CASE UNCHANGED vars
  BY <1>10 DEF vars, statics, heap, locals, Fetched, Mutex
<1> QED
  BY <1>1, <1>2, <1>3, <1>4, <1>5, <1>6, <1>7, <1>8, <1>9, <1>10 DEF Next, Begin,
     Continue

LEMMA QuietStep ==
  TypeOK /\ Quiet /\ Frames /\ [Next]_vars => Quiet'
<1> SUFFICES ASSUME TypeOK, Quiet, Frames, [Next]_vars
             PROVE  Quiet'
  OBVIOUS
<1>0. /\ device \in [kind : [Type -> Kind], symbols : [Type -> SUBSET Symbol], upgradable : BOOLEAN]
      /\ runtimes \in [Type -> Object \cup {None}]
      /\ g_runtimesMutex \in Thread \cup {None}
      /\ enhanceChecked \in BOOLEAN
      /\ funcs \in [Table -> Object \cup {V1, None}]
      /\ exited \in BOOLEAN
      /\ memory \in [Object -> Type \cup {None}]
      /\ builtModels \in [Model -> Object \cup {None}]
      /\ pc \in [Thread -> Label]
      /\ op \in [Thread -> Pass \cup Search \cup {"none"}]
      /\ index \in [Thread -> Type]
      /\ isHCLTried \in [Thread -> BOOLEAN]
      /\ modelRuntime \in [Thread -> Object \cup {None}]
      /\ options \in [Thread -> Object \cup {V1, None}]
      /\ table \in [Thread -> Table \cup {None}]
      /\ asked \in [Thread -> SUBSET Type]
  BY Types
<1>1. ASSUME NEW t \in Thread,
             TryRestore(t) \/ TryBuild(t) \/ FindHcl(t) \/ NeedTable(t)
      PROVE  Quiet'
  BY <1>0, <1>1, RepoAssumption DEF TryRestore, Enter, PLUGIN, Goto, statics, heap,
     TryBuild, FindHcl, NeedTable, Quiet, Frames
<1>2. ASSUME NEW t \in Thread,
             Skip(t) \/ Check(t) \/ Nothing(t) \/ Got(t) \/ Refused(t)
      PROVE  Quiet'
  BY <1>0, <1>2, RepoAssumption DEF Skip, Skipped, Pass, Hcl, PLUGIN, LOCALHCL, ROMHCL,
     Advance, Last, BINARY, Following, Search, Goto, statics, heap, Check, Nothing, Got,
     Tried, Refused, Quiet, Frames
<1>3. ASSUME NEW t \in Thread,
             Lock(t) \/ Recheck(t) \/ Create(t) \/ CreateNothing(t) \/ Add(t) \/ Unlock(t)
      PROVE  Quiet'
  BY <1>0, <1>3, RepoAssumption DEF Lock, Goto, heap, Recheck, statics, Create,
     Loadable, DIRECT, PLUGIN, CreateNothing, Add, Unlock, Quiet, Frames
<1>4. ASSUME NEW t \in Thread, Accepted(t) \/ NotFound(t) \/ Found(t)
      PROVE  Quiet'
  BY <1>0, <1>4, RepoAssumption DEF Accepted, SymbolsAt, Leave, Goto, Enter, PLUGIN,
     statics, NotFound, heap, Found, Quiet, Frames
<1>5. ASSUME NEW t \in Thread,
             LockTable(t) \/ InitTable(t) \/ UnlockTable(t)
      PROVE  Quiet'
  BY <1>0, <1>5, RepoAssumption DEF LockTable, Goto, heap, InitTable, SymbolsAt,
     UnlockTable, Leave, Enter, PLUGIN, Quiet, Frames
<1>6. ASSUME NEW m \in Model, Destroy(m)
      PROVE  Quiet'
  BY <1>0, <1>6, RepoAssumption DEF Destroy, statics, locals, Quiet, Frames
<1>7. ASSUME Install
      PROVE  Quiet'
  BY <1>0, <1>7, RepoAssumption DEF Install, PLUGIN, statics, heap, locals, Quiet,
     Frames
<1>8. ASSUME DeInit
      PROVE  Quiet'
  BY <1>0, <1>8, RepoAssumption DEF DeInit, DeInited, Type, PLUGIN, BINARY, locals,
     Quiet, Frames
<1>9. ASSUME Exited
      PROVE  Quiet'
  BY <1>0, <1>9, RepoAssumption DEF Exited, vars, statics, heap, locals, Quiet, Frames
<1>10. CASE UNCHANGED vars
  BY <1>10 DEF vars, statics, heap, locals, Quiet, Frames
<1> QED
  BY <1>1, <1>2, <1>3, <1>4, <1>5, <1>6, <1>7, <1>8, <1>9, <1>10 DEF Next, Begin,
     Continue

LEMMA LoadedOnceStep ==
  TypeOK /\ LoadedOnce /\ Fetched /\ [Next]_vars => LoadedOnce'
<1> SUFFICES ASSUME TypeOK, LoadedOnce, Fetched, [Next]_vars
             PROVE  LoadedOnce'
  OBVIOUS
<1>0. /\ device \in [kind : [Type -> Kind], symbols : [Type -> SUBSET Symbol], upgradable : BOOLEAN]
      /\ runtimes \in [Type -> Object \cup {None}]
      /\ g_runtimesMutex \in Thread \cup {None}
      /\ enhanceChecked \in BOOLEAN
      /\ funcs \in [Table -> Object \cup {V1, None}]
      /\ exited \in BOOLEAN
      /\ memory \in [Object -> Type \cup {None}]
      /\ builtModels \in [Model -> Object \cup {None}]
      /\ pc \in [Thread -> Label]
      /\ op \in [Thread -> Pass \cup Search \cup {"none"}]
      /\ index \in [Thread -> Type]
      /\ isHCLTried \in [Thread -> BOOLEAN]
      /\ modelRuntime \in [Thread -> Object \cup {None}]
      /\ options \in [Thread -> Object \cup {V1, None}]
      /\ table \in [Thread -> Table \cup {None}]
      /\ asked \in [Thread -> SUBSET Type]
  BY Types
<1>1. ASSUME NEW t \in Thread,
             TryRestore(t) \/ TryBuild(t) \/ FindHcl(t) \/ NeedTable(t)
      PROVE  LoadedOnce'
  BY <1>0, <1>1, RepoAssumption DEF TryRestore, Enter, PLUGIN, Goto, statics, heap,
     TryBuild, FindHcl, NeedTable, LoadedOnce, Kept, Fetched
<1>2. ASSUME NEW t \in Thread,
             Skip(t) \/ Check(t) \/ Nothing(t) \/ Got(t) \/ Refused(t)
      PROVE  LoadedOnce'
  BY <1>0, <1>2, RepoAssumption DEF Skip, Skipped, Pass, Hcl, PLUGIN, LOCALHCL, ROMHCL,
     Advance, Last, BINARY, Following, Search, Goto, statics, heap, Check, Nothing, Got,
     Tried, Refused, LoadedOnce, Kept, Fetched
<1>3. ASSUME NEW t \in Thread,
             Lock(t) \/ Recheck(t) \/ Create(t) \/ CreateNothing(t) \/ Add(t) \/ Unlock(t)
      PROVE  LoadedOnce'
  BY <1>0, <1>3, RepoAssumption DEF Lock, Goto, heap, Recheck, statics, Create,
     Loadable, DIRECT, PLUGIN, CreateNothing, Add, Unlock, LoadedOnce, Kept, Fetched
<1>4. ASSUME NEW t \in Thread, Accepted(t) \/ NotFound(t) \/ Found(t)
      PROVE  LoadedOnce'
  BY <1>0, <1>4, RepoAssumption DEF Accepted, SymbolsAt, Leave, Goto, Enter, PLUGIN,
     statics, NotFound, heap, Found, LoadedOnce, Kept, Fetched
<1>5. ASSUME NEW t \in Thread,
             LockTable(t) \/ InitTable(t) \/ UnlockTable(t)
      PROVE  LoadedOnce'
  BY <1>0, <1>5, RepoAssumption DEF LockTable, Goto, heap, InitTable, SymbolsAt,
     UnlockTable, Leave, Enter, PLUGIN, LoadedOnce, Kept, Fetched
<1>6. ASSUME NEW m \in Model, Destroy(m)
      PROVE  LoadedOnce'
  BY <1>0, <1>6, RepoAssumption DEF Destroy, statics, locals, LoadedOnce, Kept, Fetched
<1>7. ASSUME Install
      PROVE  LoadedOnce'
  BY <1>0, <1>7, RepoAssumption DEF Install, PLUGIN, statics, heap, locals, LoadedOnce,
     Kept, Fetched
<1>8. ASSUME DeInit
      PROVE  LoadedOnce'
  BY <1>0, <1>8, RepoAssumption DEF DeInit, DeInited, Type, PLUGIN, BINARY, locals,
     LoadedOnce, Kept, Fetched
<1>9. ASSUME Exited
      PROVE  LoadedOnce'
  BY <1>0, <1>9, RepoAssumption DEF Exited, vars, statics, heap, locals, LoadedOnce,
     Kept, Fetched
<1>10. CASE UNCHANGED vars
  BY <1>10 DEF vars, statics, heap, locals, LoadedOnce, Kept, Fetched
<1> QED
  BY <1>1, <1>2, <1>3, <1>4, <1>5, <1>6, <1>7, <1>8, <1>9, <1>10 DEF Next, Begin,
     Continue

LEMMA ExitUnloadsAllStep ==
  TypeOK /\ ExitUnloadsAll /\ LoadedOnce /\ Quiet /\ Fetched /\ [Next]_vars => ExitUnloadsAll'
<1> SUFFICES ASSUME TypeOK, ExitUnloadsAll, LoadedOnce, Quiet, Fetched, [Next]_vars
             PROVE  ExitUnloadsAll'
  OBVIOUS
<1>0. /\ device \in [kind : [Type -> Kind], symbols : [Type -> SUBSET Symbol], upgradable : BOOLEAN]
      /\ runtimes \in [Type -> Object \cup {None}]
      /\ g_runtimesMutex \in Thread \cup {None}
      /\ enhanceChecked \in BOOLEAN
      /\ funcs \in [Table -> Object \cup {V1, None}]
      /\ exited \in BOOLEAN
      /\ memory \in [Object -> Type \cup {None}]
      /\ builtModels \in [Model -> Object \cup {None}]
      /\ pc \in [Thread -> Label]
      /\ op \in [Thread -> Pass \cup Search \cup {"none"}]
      /\ index \in [Thread -> Type]
      /\ isHCLTried \in [Thread -> BOOLEAN]
      /\ modelRuntime \in [Thread -> Object \cup {None}]
      /\ options \in [Thread -> Object \cup {V1, None}]
      /\ table \in [Thread -> Table \cup {None}]
      /\ asked \in [Thread -> SUBSET Type]
  BY Types
<1>1. ASSUME NEW t \in Thread,
             TryRestore(t) \/ TryBuild(t) \/ FindHcl(t) \/ NeedTable(t)
      PROVE  ExitUnloadsAll'
  BY <1>0, <1>1, RepoAssumption DEF TryRestore, Enter, PLUGIN, Goto, statics, heap,
     TryBuild, FindHcl, NeedTable, ExitUnloadsAll, LoadedOnce, Quiet, Fetched, Kept
<1>2. ASSUME NEW t \in Thread,
             Skip(t) \/ Check(t) \/ Nothing(t) \/ Got(t) \/ Refused(t)
      PROVE  ExitUnloadsAll'
  BY <1>0, <1>2, RepoAssumption DEF Skip, Skipped, Pass, Hcl, PLUGIN, LOCALHCL, ROMHCL,
     Advance, Last, BINARY, Following, Search, Goto, statics, heap, Check, Nothing, Got,
     Tried, Refused, ExitUnloadsAll, LoadedOnce, Quiet, Fetched, Kept
<1>3. ASSUME NEW t \in Thread,
             Lock(t) \/ Recheck(t) \/ Create(t) \/ CreateNothing(t) \/ Add(t) \/ Unlock(t)
      PROVE  ExitUnloadsAll'
  BY <1>0, <1>3, RepoAssumption DEF Lock, Goto, heap, Recheck, statics, Create,
     Loadable, DIRECT, PLUGIN, CreateNothing, Add, Unlock, ExitUnloadsAll, LoadedOnce,
     Quiet, Fetched, Kept
<1>4. ASSUME NEW t \in Thread, Accepted(t) \/ NotFound(t) \/ Found(t)
      PROVE  ExitUnloadsAll'
  BY <1>0, <1>4, RepoAssumption DEF Accepted, SymbolsAt, Leave, Goto, Enter, PLUGIN,
     statics, NotFound, heap, Found, ExitUnloadsAll, LoadedOnce, Quiet, Fetched, Kept
<1>5. ASSUME NEW t \in Thread,
             LockTable(t) \/ InitTable(t) \/ UnlockTable(t)
      PROVE  ExitUnloadsAll'
  BY <1>0, <1>5, RepoAssumption DEF LockTable, Goto, heap, InitTable, SymbolsAt,
     UnlockTable, Leave, Enter, PLUGIN, ExitUnloadsAll, LoadedOnce, Quiet, Fetched, Kept
<1>6. ASSUME NEW m \in Model, Destroy(m)
      PROVE  ExitUnloadsAll'
  BY <1>0, <1>6, RepoAssumption DEF Destroy, statics, locals, ExitUnloadsAll,
     LoadedOnce, Quiet, Fetched, Kept
<1>7. ASSUME Install
      PROVE  ExitUnloadsAll'
  BY <1>0, <1>7, RepoAssumption DEF Install, PLUGIN, statics, heap, locals,
     ExitUnloadsAll, LoadedOnce, Quiet, Fetched, Kept
<1>8. ASSUME DeInit
      PROVE  ExitUnloadsAll'
  BY <1>0, <1>8, RepoAssumption DEF DeInit, DeInited, Type, PLUGIN, BINARY, locals,
     ExitUnloadsAll, LoadedOnce, Quiet, Fetched, Kept
<1>9. ASSUME Exited
      PROVE  ExitUnloadsAll'
  BY <1>0, <1>9, RepoAssumption DEF Exited, vars, statics, heap, locals, ExitUnloadsAll,
     LoadedOnce, Quiet, Fetched, Kept
<1>10. CASE UNCHANGED vars
  BY <1>10 DEF vars, statics, heap, locals, ExitUnloadsAll, LoadedOnce, Quiet, Fetched,
     Kept
<1> QED
  BY <1>1, <1>2, <1>3, <1>4, <1>5, <1>6, <1>7, <1>8, <1>9, <1>10 DEF Next, Begin,
     Continue

LEMMA RuntimesOwnedStep ==
  TypeOK /\ RuntimesOwned /\ Fetched /\ Frames /\ Quiet /\ [Next]_vars => RuntimesOwned'
<1> SUFFICES ASSUME TypeOK, RuntimesOwned, Fetched, Frames, Quiet, [Next]_vars
             PROVE  RuntimesOwned'
  OBVIOUS
<1>0. /\ device \in [kind : [Type -> Kind], symbols : [Type -> SUBSET Symbol], upgradable : BOOLEAN]
      /\ runtimes \in [Type -> Object \cup {None}]
      /\ g_runtimesMutex \in Thread \cup {None}
      /\ enhanceChecked \in BOOLEAN
      /\ funcs \in [Table -> Object \cup {V1, None}]
      /\ exited \in BOOLEAN
      /\ memory \in [Object -> Type \cup {None}]
      /\ builtModels \in [Model -> Object \cup {None}]
      /\ pc \in [Thread -> Label]
      /\ op \in [Thread -> Pass \cup Search \cup {"none"}]
      /\ index \in [Thread -> Type]
      /\ isHCLTried \in [Thread -> BOOLEAN]
      /\ modelRuntime \in [Thread -> Object \cup {None}]
      /\ options \in [Thread -> Object \cup {V1, None}]
      /\ table \in [Thread -> Table \cup {None}]
      /\ asked \in [Thread -> SUBSET Type]
  BY Types
<1>1. ASSUME NEW t \in Thread,
             TryRestore(t) \/ TryBuild(t) \/ FindHcl(t) \/ NeedTable(t)
      PROVE  RuntimesOwned'
  <2>1. CASE TryRestore(t)
    BY <1>0, <2>1, RepoAssumption DEF TryRestore, Enter, PLUGIN, Goto, statics, heap,
       RuntimesOwned, Kept, NoMalformed, Fetched, Frames, Quiet
  <2>2. CASE TryBuild(t)
    BY <1>0, <2>2, RepoAssumption DEF TryBuild, Enter, PLUGIN, Goto, statics, heap,
       RuntimesOwned, Kept, NoMalformed, Fetched, Frames, Quiet
  <2>3. CASE FindHcl(t)
    BY <1>0, <2>3, RepoAssumption DEF FindHcl, Enter, PLUGIN, Goto, statics, heap,
       RuntimesOwned, Kept, NoMalformed, Fetched, Frames, Quiet
  <2>4. CASE NeedTable(t)
    BY <1>0, <2>4, RepoAssumption DEF NeedTable, Enter, PLUGIN, Goto, statics, heap,
       RuntimesOwned, Kept, NoMalformed, Fetched, Frames, Quiet
  <2> QED
    BY <1>1, <2>1, <2>2, <2>3, <2>4
<1>2. ASSUME NEW t \in Thread,
             Skip(t) \/ Check(t) \/ Nothing(t) \/ Got(t) \/ Refused(t)
      PROVE  RuntimesOwned'
  <2>1. CASE Skip(t)
    BY <1>0, <2>1, RepoAssumption DEF Skip, Skipped, Pass, Hcl, PLUGIN, LOCALHCL,
       ROMHCL, Advance, Last, BINARY, Following, Search, Goto, statics, heap,
       RuntimesOwned, Kept, NoMalformed, Fetched, Frames, Quiet
  <2>2. CASE Check(t)
    BY <1>0, <2>2, RepoAssumption DEF Check, Skipped, Pass, Hcl, PLUGIN, LOCALHCL,
       ROMHCL, Goto, statics, heap, RuntimesOwned, Kept, NoMalformed, Fetched, Frames,
       Quiet
  <2>3. CASE Nothing(t)
    BY <1>0, <2>3, RepoAssumption DEF Nothing, Advance, Last, Pass, BINARY, ROMHCL,
       Following, Search, LOCALHCL, Goto, statics, heap, RuntimesOwned, Kept, NoMalformed,
       Fetched, Frames, Quiet
  <2>4. CASE Got(t)
    BY <1>0, <2>4, RepoAssumption DEF Got, Pass, Tried, Hcl, PLUGIN, LOCALHCL, ROMHCL,
       Goto, statics, heap, RuntimesOwned, Kept, NoMalformed, Fetched, Frames, Quiet
  <2>5. CASE Refused(t)
    BY <1>0, <2>5, RepoAssumption DEF Refused, Advance, Last, Pass, BINARY, ROMHCL,
       Following, Search, LOCALHCL, Goto, statics, heap, RuntimesOwned, Kept, NoMalformed,
       Fetched, Frames, Quiet
  <2> QED
    BY <1>2, <2>1, <2>2, <2>3, <2>4, <2>5
<1>3. ASSUME NEW t \in Thread,
             Lock(t) \/ Recheck(t) \/ Create(t) \/ CreateNothing(t) \/ Add(t) \/ Unlock(t)
      PROVE  RuntimesOwned'
  <2>1. CASE Lock(t)
    BY <1>0, <2>1, RepoAssumption DEF Lock, Goto, heap, RuntimesOwned, Kept,
       NoMalformed, Fetched, Frames, Quiet
  <2>2. CASE Recheck(t)
    BY <1>0, <2>2, RepoAssumption DEF Recheck, Goto, statics, heap, RuntimesOwned, Kept,
       NoMalformed, Fetched, Frames, Quiet
  <2>3. CASE Create(t)
    BY <1>0, <2>3, RepoAssumption DEF Create, Loadable, DIRECT, PLUGIN, Goto, statics,
       RuntimesOwned, Kept, NoMalformed, Fetched, Frames, Quiet
  <2>4. CASE CreateNothing(t)
    BY <1>0, <2>4, RepoAssumption DEF CreateNothing, Loadable, DIRECT, PLUGIN, Goto,
       heap, RuntimesOwned, Kept, NoMalformed, Fetched, Frames, Quiet
  <2>5. CASE Add(t)
    BY <1>0, <2>5, RepoAssumption DEF Add, Goto, heap, RuntimesOwned, Kept, NoMalformed,
       Fetched, Frames, Quiet
  <2>6. CASE Unlock(t)
    BY <1>0, <2>6, RepoAssumption DEF Unlock, Goto, heap, RuntimesOwned, Kept,
       NoMalformed, Fetched, Frames, Quiet
  <2> QED
    BY <1>3, <2>1, <2>2, <2>3, <2>4, <2>5, <2>6
<1>4. ASSUME NEW t \in Thread, Accepted(t) \/ NotFound(t) \/ Found(t)
      PROVE  RuntimesOwned'
  <2>1. CASE Accepted(t)
    <3>1. /\ UNCHANGED <<device, runtimes, memory, funcs, exited, modelRuntime>>
          /\ modelRuntime[t] = None
          /\ \A u \in Thread \ {t} : index'[u] = index[u]
      BY <1>0, <2>1 DEF Accepted, Leave, Enter, statics, Fetched
    <3>2. PICK m \in Model : builtModels' = [builtModels EXCEPT ![m] = runtimes[index[t]]]
      BY <2>1 DEF Accepted
    <3>3. index[t] \in Type
      BY <1>0
    <3>4. \A o \in Object, i \in Type : Kept(o, i)' <=> Kept(o, i)
      BY <1>0, <3>1, RepoAssumption DEF Kept
    <3>5. \A o \in Object :
            (\E k \in Model : builtModels'[k] = o) =>
              (\E k \in Model : builtModels[k] = o) \/ runtimes[index[t]] = o
      BY <1>0, <3>2
    <3> QED
      BY <3>1, <3>3, <3>4, <3>5 DEF RuntimesOwned, NoMalformed
  <2>2. CASE NotFound(t)
    BY <1>0, <2>2, RepoAssumption DEF NotFound, Leave, Goto, Enter, PLUGIN, statics,
       heap, RuntimesOwned, Kept, NoMalformed, Fetched, Frames, Quiet
  <2>3. CASE Found(t)
    BY <1>0, <2>3, RepoAssumption DEF Found, Leave, Goto, Enter, PLUGIN, statics, heap,
       RuntimesOwned, Kept, NoMalformed, Fetched, Frames, Quiet
  <2> QED
    BY <1>4, <2>1, <2>2, <2>3
<1>5. ASSUME NEW t \in Thread,
             LockTable(t) \/ InitTable(t) \/ UnlockTable(t)
      PROVE  RuntimesOwned'
  <2>1. CASE LockTable(t)
    BY <1>0, <2>1, RepoAssumption DEF LockTable, Goto, heap, RuntimesOwned, Kept,
       NoMalformed, Fetched, Frames, Quiet
  <2>2. CASE InitTable(t)
    <3>1. /\ UNCHANGED <<device, exited, memory, runtimes, modelRuntime, index, builtModels>>
          /\ index[t] \in Type
          /\ \A tab \in Table : funcs'[tab] \in {funcs[tab], runtimes[index[t]], V1}
      BY <1>0, <2>2 DEF InitTable, heap
    <3>2. ASSUME NoMalformed', ~exited'
          PROVE  NoMalformed /\ ~exited
      BY <3>1, <3>2 DEF NoMalformed
    <3>3. \A o, i : Kept(o, i)' <=> Kept(o, i)
      BY <3>1 DEF Kept
    <3>4. ASSUME NoMalformed, ~exited, NEW o \in Object, NEW tab \in Table, funcs'[tab] = o
          PROVE  \E i \in Type : runtimes[i] = o
      BY <1>0, <3>1, <3>4, RepoAssumption DEF RuntimesOwned
    <3> QED
      BY <3>1, <3>2, <3>3, <3>4 DEF RuntimesOwned
  <2>3. CASE UnlockTable(t)
    BY <1>0, <2>3, RepoAssumption DEF UnlockTable, Leave, Goto, Enter, PLUGIN, heap,
       RuntimesOwned, Kept, NoMalformed, Fetched, Frames, Quiet
  <2> QED
    BY <1>5, <2>1, <2>2, <2>3
<1>6. ASSUME NEW m \in Model, Destroy(m)
      PROVE  RuntimesOwned'
  BY <1>0, <1>6, RepoAssumption DEF Destroy, statics, locals, RuntimesOwned, Kept,
     NoMalformed, Fetched, Frames, Quiet
<1>7. ASSUME Install
      PROVE  RuntimesOwned'
  BY <1>0, <1>7, RepoAssumption DEF Install, PLUGIN, statics, heap, locals,
     RuntimesOwned, Kept, NoMalformed, Fetched, Frames, Quiet
<1>8. ASSUME DeInit
      PROVE  RuntimesOwned'
  BY <1>0, <1>8, RepoAssumption DEF DeInit, DeInited, Type, PLUGIN, BINARY, locals,
     RuntimesOwned, Kept, NoMalformed, Fetched, Frames, Quiet
<1>9. ASSUME Exited
      PROVE  RuntimesOwned'
  BY <1>0, <1>9, RepoAssumption DEF Exited, vars, statics, heap, locals, RuntimesOwned,
     Kept, NoMalformed, Fetched, Frames, Quiet
<1>10. CASE UNCHANGED vars
  BY <1>10 DEF vars, statics, heap, locals, RuntimesOwned, Kept, NoMalformed, Fetched,
     Frames, Quiet
<1> QED
  BY <1>1, <1>2, <1>3, <1>4, <1>5, <1>6, <1>7, <1>8, <1>9, <1>10 DEF Next, Begin,
     Continue

-----------------------------------------------------------------------------
(* Which HCL library, on a device that does not change *)

CanLoad(i) == i \in Supported /\ device.kind[i] \in {"usable", "malformed"}

\* Type i is the HCL runtime of this device.
Chosen(i) == CanLoad(i) /\ \A j \in Hcl : j < i => ~CanLoad(j)

Walking == {"look", "lock", "load", "create", "add", "unlock", "got", "ask"}

\* A runtime that was looked for and is not there cannot be had.
Missing ==
  /\ enhanceChecked => device.kind[PLUGIN] = "absent"
  /\ device.kind[DIRECT] # "malformed"
  /\ device.kind[DIRECT] = "usable" => runtimes[DIRECT] # None
  /\ \A t \in Thread :
       pc[t] \in {"unlock", "got"} /\ runtimes[index[t]] = None => ~CanLoad(index[t])

\* A thread that looks for an HCL library has found none before.
Walks ==
  \A t \in Thread :
    /\ pc[t] \in Walking \ {"look"} => index[t] \in Supported
    /\ pc[t] \in Walking \ {"look", "ask"} /\ op[t] \in Pass /\ index[t] \in Hcl => ~isHCLTried[t]
    /\ pc[t] \in Walking \cup {"end"} /\ ~isHCLTried[t] =>
         \A j \in Hcl : j < index[t] => ~CanLoad(j)
    /\ pc[t] = "ask" /\ index[t] \in Hcl => isHCLTried[t]
    /\ op[t] \notin Pass => ~isHCLTried[t]
    /\ pc[t] = "end" /\ op[t] = "table" => \A j \in Hcl : ~CanLoad(j)

\* The only HCL runtime in the repository is the one of the device.
HclChosen ==
  /\ \A i \in Hcl : runtimes[i] # None => Chosen(i)
  /\ \A t \in Thread : modelRuntime[t] # None /\ index[t] \in Hcl => Chosen(index[t])

\* The functions v fit the HCL runtime of the device.
Fits(v) ==
  \A i \in Hcl : Chosen(i) =>
    IF "options" \in device.symbols[i] THEN runtimes[i] = v ELSE v = V1

OptionsFit ==
  NoMalformed =>
    /\ \A tab \in Table : funcs[tab] # None => Fits(funcs[tab])
    /\ \A t \in Thread : options[t] # None => Fits(options[t])

\* A pass leaves behind only runtimes it asked.
Asked ==
  \A t \in Thread :
    pc[t] \in Walking \cup {"end"} /\ op[t] \in Pass =>
      /\ isHCLTried[t] =>
           asked[t] \cap Hcl # {} \/ (pc[t] = "ask" /\ index[t] \in Hcl)
      /\ \A j \in Type : CanLoad(j) /\ (j < index[t] \/ pc[t] = "end") =>
           j \in asked[t] \/ (j \in Hcl /\ asked[t] \cap Hcl # {})

ChosenInv == Missing /\ Walks /\ HclChosen /\ OptionsFit /\ Asked

\* Whether the device may change does not change.
LEMMA UpgradableKept == TypeOK /\ [Next]_vars => Upgradable' = Upgradable
<1> SUFFICES ASSUME TypeOK, [Next]_vars PROVE Upgradable' = Upgradable
  OBVIOUS
<1> USE DEF Upgradable
<1>1. ASSUME NEW t \in Thread, TryRestore(t) \/ TryBuild(t) \/ FindHcl(t) \/ NeedTable(t)
      PROVE  Upgradable' = Upgradable
  BY <1>1 DEF TryRestore, TryBuild, FindHcl, NeedTable
<1>2. ASSUME NEW t \in Thread, Skip(t) \/ Check(t) \/ Nothing(t) \/ Got(t) \/ Refused(t)
      PROVE  Upgradable' = Upgradable
  BY <1>2 DEF Skip, Check, Nothing, Got, Refused
<1>3. ASSUME NEW t \in Thread, Lock(t) \/ Recheck(t) \/ Create(t) \/ CreateNothing(t) \/ Add(t) \/ Unlock(t)
      PROVE  Upgradable' = Upgradable
  BY <1>3 DEF Lock, Recheck, Create, CreateNothing, Add, Unlock
<1>4. ASSUME NEW t \in Thread, Accepted(t) \/ NotFound(t) \/ Found(t)
      PROVE  Upgradable' = Upgradable
  BY <1>4 DEF Accepted, NotFound, Found
<1>5. ASSUME NEW t \in Thread, LockTable(t) \/ InitTable(t) \/ UnlockTable(t)
      PROVE  Upgradable' = Upgradable
  BY <1>5 DEF LockTable, InitTable, UnlockTable
<1>6. ASSUME NEW m \in Model, Destroy(m)
      PROVE  Upgradable' = Upgradable
  BY <1>6 DEF Destroy
<1>7. ASSUME Install
      PROVE  Upgradable' = Upgradable
  BY <1>7 DEF Install, TypeOK, DeviceType
<1>8. ASSUME DeInit
      PROVE  Upgradable' = Upgradable
  BY <1>8 DEF DeInit
<1>9. ASSUME Exited
      PROVE  Upgradable' = Upgradable
  BY <1>9 DEF Exited, vars
<1>10. CASE UNCHANGED vars
  BY <1>10 DEF vars
<1> QED
  BY <1>1, <1>2, <1>3, <1>4, <1>5, <1>6, <1>7, <1>8, <1>9, <1>10 DEF Next, Begin,
     Continue

LEMMA MissingStep ==
  TypeOK /\ ~Upgradable /\ Missing /\ Frames /\ Fetched /\ Mutex /\ [Next]_vars => Missing'
<1> SUFFICES ASSUME TypeOK, ~Upgradable, Missing, Frames, Fetched, Mutex, [Next]_vars
             PROVE  Missing'
  OBVIOUS
<1>0. /\ device \in [kind : [Type -> Kind], symbols : [Type -> SUBSET Symbol], upgradable : BOOLEAN]
      /\ runtimes \in [Type -> Object \cup {None}]
      /\ g_runtimesMutex \in Thread \cup {None}
      /\ enhanceChecked \in BOOLEAN
      /\ funcs \in [Table -> Object \cup {V1, None}]
      /\ exited \in BOOLEAN
      /\ memory \in [Object -> Type \cup {None}]
      /\ builtModels \in [Model -> Object \cup {None}]
      /\ pc \in [Thread -> Label]
      /\ op \in [Thread -> Pass \cup Search \cup {"none"}]
      /\ index \in [Thread -> Type]
      /\ isHCLTried \in [Thread -> BOOLEAN]
      /\ modelRuntime \in [Thread -> Object \cup {None}]
      /\ options \in [Thread -> Object \cup {V1, None}]
      /\ table \in [Thread -> Table \cup {None}]
      /\ asked \in [Thread -> SUBSET Type]
  BY Types
<1>1. ASSUME NEW t \in Thread,
             TryRestore(t) \/ TryBuild(t) \/ FindHcl(t) \/ NeedTable(t)
      PROVE  Missing'
  BY <1>0, <1>1, RepoAssumption DEF TryRestore, Enter, PLUGIN, Goto, statics, heap,
     TryBuild, FindHcl, NeedTable, Missing, CanLoad, Frames, Fetched, Mutex
<1>2. ASSUME NEW t \in Thread,
             Skip(t) \/ Check(t) \/ Nothing(t) \/ Got(t) \/ Refused(t)
      PROVE  Missing'
  BY <1>0, <1>2, RepoAssumption DEF Skip, Skipped, Pass, Hcl, PLUGIN, LOCALHCL, ROMHCL,
     Advance, Last, BINARY, Following, Search, Goto, statics, heap, Check, Nothing, Got,
     Tried, Refused, Missing, CanLoad, Frames, Fetched, Mutex
<1>3. ASSUME NEW t \in Thread,
             Lock(t) \/ Recheck(t) \/ Create(t) \/ CreateNothing(t) \/ Add(t) \/ Unlock(t)
      PROVE  Missing'
  <2>1. CASE Lock(t)
    BY <1>0, <2>1, RepoAssumption DEF Lock, Goto, heap, Missing, CanLoad, Frames,
       Fetched, Mutex
  <2>2. CASE Recheck(t)
    BY <1>0, <2>2, RepoAssumption DEF Recheck, Goto, statics, heap, Missing, CanLoad,
       Frames, Fetched, Mutex
  <2>3. CASE Create(t)
    BY <1>0, <2>3, RepoAssumption DEF Create, Loadable, DIRECT, PLUGIN, Goto, statics,
       Missing, CanLoad, Frames, Fetched, Mutex
  <2>4. CASE CreateNothing(t)
    BY <1>0, <2>4, RepoAssumption DEF CreateNothing, Loadable, DIRECT, PLUGIN, Goto,
       heap, Missing, CanLoad, Frames, Fetched, Mutex
  <2>5. CASE Add(t)
    BY <1>0, <2>5, RepoAssumption DEF Add, Goto, heap, Missing, CanLoad, Frames,
       Fetched, Mutex
  <2>6. CASE Unlock(t)
    BY <1>0, <2>6, RepoAssumption DEF Unlock, Goto, heap, Missing, CanLoad, Frames,
       Fetched, Mutex
  <2> QED
    BY <1>3, <2>1, <2>2, <2>3, <2>4, <2>5, <2>6
<1>4. ASSUME NEW t \in Thread, Accepted(t) \/ NotFound(t) \/ Found(t)
      PROVE  Missing'
  BY <1>0, <1>4, RepoAssumption DEF Accepted, SymbolsAt, Leave, Goto, Enter, PLUGIN,
     statics, NotFound, heap, Found, Missing, CanLoad, Frames, Fetched, Mutex
<1>5. ASSUME NEW t \in Thread,
             LockTable(t) \/ InitTable(t) \/ UnlockTable(t)
      PROVE  Missing'
  BY <1>0, <1>5, RepoAssumption DEF LockTable, Goto, heap, InitTable, SymbolsAt,
     UnlockTable, Leave, Enter, PLUGIN, Missing, CanLoad, Frames, Fetched, Mutex
<1>6. ASSUME NEW m \in Model, Destroy(m)
      PROVE  Missing'
  BY <1>0, <1>6, RepoAssumption DEF Destroy, statics, locals, Missing, CanLoad, Frames,
     Fetched, Mutex
<1>7. ASSUME Install
      PROVE  Missing'
  BY <1>0, <1>7, RepoAssumption DEF Install, PLUGIN, statics, heap, locals, Missing,
     CanLoad, Frames, Fetched, Mutex
<1>8. ASSUME DeInit
      PROVE  Missing'
  BY <1>0, <1>8, RepoAssumption DEF DeInit, DeInited, Type, PLUGIN, BINARY, locals,
     Missing, CanLoad, Frames, Fetched, Mutex
<1>9. ASSUME Exited
      PROVE  Missing'
  BY <1>0, <1>9, RepoAssumption DEF Exited, vars, statics, heap, locals, Missing,
     CanLoad, Frames, Fetched, Mutex
<1>10. CASE UNCHANGED vars
  BY <1>10 DEF vars, statics, heap, locals, Missing, CanLoad, Frames, Fetched, Mutex
<1> QED
  BY <1>1, <1>2, <1>3, <1>4, <1>5, <1>6, <1>7, <1>8, <1>9, <1>10 DEF Next, Begin,
     Continue

LEMMA WalksStep ==
  TypeOK /\ ~Upgradable /\ Walks /\ Missing /\ Frames /\ Fetched /\ [Next]_vars => Walks'
<1> SUFFICES ASSUME TypeOK, ~Upgradable, Walks, Missing, Frames, Fetched, [Next]_vars
             PROVE  Walks'
  OBVIOUS
<1>0. /\ device \in [kind : [Type -> Kind], symbols : [Type -> SUBSET Symbol], upgradable : BOOLEAN]
      /\ runtimes \in [Type -> Object \cup {None}]
      /\ g_runtimesMutex \in Thread \cup {None}
      /\ enhanceChecked \in BOOLEAN
      /\ funcs \in [Table -> Object \cup {V1, None}]
      /\ exited \in BOOLEAN
      /\ memory \in [Object -> Type \cup {None}]
      /\ builtModels \in [Model -> Object \cup {None}]
      /\ pc \in [Thread -> Label]
      /\ op \in [Thread -> Pass \cup Search \cup {"none"}]
      /\ index \in [Thread -> Type]
      /\ isHCLTried \in [Thread -> BOOLEAN]
      /\ modelRuntime \in [Thread -> Object \cup {None}]
      /\ options \in [Thread -> Object \cup {V1, None}]
      /\ table \in [Thread -> Table \cup {None}]
      /\ asked \in [Thread -> SUBSET Type]
  BY Types
<1>1. ASSUME NEW t \in Thread,
             TryRestore(t) \/ TryBuild(t) \/ FindHcl(t) \/ NeedTable(t)
      PROVE  Walks'
  BY <1>0, <1>1, RepoAssumption DEF TryRestore, Enter, PLUGIN, Goto, statics, heap,
     TryBuild, FindHcl, NeedTable, Walks, CanLoad, Missing, Walking, Frames, Fetched, Hcl,
     Pass, Search, Type, LOCALHCL, DIRECT, ROMHCL, BINARY
<1>2. ASSUME NEW t \in Thread,
             Skip(t) \/ Check(t) \/ Nothing(t) \/ Got(t) \/ Refused(t)
      PROVE  Walks'
  <2>1. CASE Skip(t)
    BY <1>0, <2>1, RepoAssumption DEF Skip, Skipped, Pass, Hcl, PLUGIN, LOCALHCL,
       ROMHCL, Advance, Last, BINARY, Following, Search, Goto, statics, heap, Walks,
       CanLoad, Missing, Walking, Frames, Fetched, Type, DIRECT
  <2>2. CASE Check(t)
    BY <1>0, <2>2, RepoAssumption DEF Check, Skipped, Pass, Hcl, PLUGIN, LOCALHCL,
       ROMHCL, Goto, statics, heap, Walks, CanLoad, Missing, Walking, Frames, Fetched,
       Search, Type, DIRECT, BINARY
  <2>3. CASE Nothing(t)
    BY <1>0, <2>3, RepoAssumption DEF Nothing, Advance, Last, Pass, BINARY, ROMHCL,
       Following, Search, LOCALHCL, Goto, statics, heap, Walks, CanLoad, Missing, Walking,
       Frames, Fetched, Hcl, Type, PLUGIN, DIRECT
  <2>4. CASE Got(t)
    <3>1. /\ op[t] \in Pass /\ pc[t] = "got"
          /\ pc' = [pc EXCEPT ![t] = "ask"]
          /\ UNCHANGED <<op, index, device>>
      BY <2>4 DEF Got, Goto
    <3>2. /\ index[t] \in Hcl => isHCLTried'[t]
          /\ isHCLTried[t] => isHCLTried'[t]
      BY <1>0, <2>4 DEF Got, Tried
    <3>3. ASSUME NEW u \in Thread, u # t PROVE isHCLTried'[u] = isHCLTried[u]
      BY <1>0, <2>4, <3>3 DEF Got
    <3> QED
      BY <1>0, <3>1, <3>2, <3>3 DEF Walks, CanLoad, Walking
  <2>5. CASE Refused(t)
    BY <1>0, <2>5, RepoAssumption DEF Refused, Advance, Last, Pass, BINARY, ROMHCL,
       Following, Search, LOCALHCL, Goto, statics, heap, Walks, CanLoad, Missing, Walking,
       Frames, Fetched, Hcl, Type, PLUGIN, DIRECT
  <2> QED
    BY <1>2, <2>1, <2>2, <2>3, <2>4, <2>5
<1>3. ASSUME NEW t \in Thread,
             Lock(t) \/ Recheck(t) \/ Create(t) \/ CreateNothing(t) \/ Add(t) \/ Unlock(t)
      PROVE  Walks'
  BY <1>0, <1>3, RepoAssumption DEF Lock, Goto, heap, Recheck, statics, Create,
     Loadable, DIRECT, PLUGIN, CreateNothing, Add, Unlock, Walks, CanLoad, Missing,
     Walking, Frames, Fetched, Hcl, Pass, Search, Type, LOCALHCL, ROMHCL, BINARY
<1>4. ASSUME NEW t \in Thread, Accepted(t) \/ NotFound(t) \/ Found(t)
      PROVE  Walks'
  BY <1>0, <1>4, RepoAssumption DEF Accepted, SymbolsAt, Leave, Goto, Enter, PLUGIN,
     statics, NotFound, heap, Found, Walks, CanLoad, Missing, Walking, Frames, Fetched,
     Hcl, Pass, Search, Type, LOCALHCL, DIRECT, ROMHCL, BINARY
<1>5. ASSUME NEW t \in Thread,
             LockTable(t) \/ InitTable(t) \/ UnlockTable(t)
      PROVE  Walks'
  BY <1>0, <1>5, RepoAssumption DEF LockTable, Goto, heap, InitTable, SymbolsAt,
     UnlockTable, Leave, Enter, PLUGIN, Walks, CanLoad, Missing, Walking, Frames, Fetched,
     Hcl, Pass, Search, Type, LOCALHCL, DIRECT, ROMHCL, BINARY
<1>6. ASSUME NEW m \in Model, Destroy(m)
      PROVE  Walks'
  BY <1>0, <1>6, RepoAssumption DEF Destroy, statics, locals, Walks, CanLoad, Missing,
     Walking, Frames, Fetched, Hcl, Pass, Search, Type, PLUGIN, LOCALHCL, DIRECT, ROMHCL,
     BINARY
<1>7. ASSUME Install
      PROVE  Walks'
  BY <1>0, <1>7, RepoAssumption DEF Install, PLUGIN, statics, heap, locals, Walks,
     CanLoad, Missing, Walking, Frames, Fetched, Hcl, Pass, Search, Type, LOCALHCL, DIRECT,
     ROMHCL, BINARY
<1>8. ASSUME DeInit
      PROVE  Walks'
  BY <1>0, <1>8, RepoAssumption DEF DeInit, DeInited, Type, PLUGIN, BINARY, locals,
     Walks, CanLoad, Missing, Walking, Frames, Fetched, Hcl, Pass, Search, LOCALHCL,
     DIRECT, ROMHCL
<1>9. ASSUME Exited
      PROVE  Walks'
  BY <1>0, <1>9, RepoAssumption DEF Exited, vars, statics, heap, locals, Walks, CanLoad,
     Missing, Walking, Frames, Fetched, Hcl, Pass, Search, Type, PLUGIN, LOCALHCL, DIRECT,
     ROMHCL, BINARY
<1>10. CASE UNCHANGED vars
  BY <1>10 DEF vars, statics, heap, locals, Walks, CanLoad, Missing, Walking, Frames,
     Fetched, Hcl, Pass, Search, Type, PLUGIN, LOCALHCL, DIRECT, ROMHCL, BINARY
<1> QED
  BY <1>1, <1>2, <1>3, <1>4, <1>5, <1>6, <1>7, <1>8, <1>9, <1>10 DEF Next, Begin,
     Continue

LEMMA HclChosenStep ==
  TypeOK /\ ~Upgradable /\ HclChosen /\ Walks /\ Missing /\ Frames /\ Fetched /\ Mutex /\ [Next]_vars => HclChosen'
<1> SUFFICES ASSUME TypeOK, ~Upgradable, HclChosen, Walks, Missing, Frames, Fetched, Mutex, [Next]_vars
             PROVE  HclChosen'
  OBVIOUS
<1>0. /\ device \in [kind : [Type -> Kind], symbols : [Type -> SUBSET Symbol], upgradable : BOOLEAN]
      /\ runtimes \in [Type -> Object \cup {None}]
      /\ g_runtimesMutex \in Thread \cup {None}
      /\ enhanceChecked \in BOOLEAN
      /\ funcs \in [Table -> Object \cup {V1, None}]
      /\ exited \in BOOLEAN
      /\ memory \in [Object -> Type \cup {None}]
      /\ builtModels \in [Model -> Object \cup {None}]
      /\ pc \in [Thread -> Label]
      /\ op \in [Thread -> Pass \cup Search \cup {"none"}]
      /\ index \in [Thread -> Type]
      /\ isHCLTried \in [Thread -> BOOLEAN]
      /\ modelRuntime \in [Thread -> Object \cup {None}]
      /\ options \in [Thread -> Object \cup {V1, None}]
      /\ table \in [Thread -> Table \cup {None}]
      /\ asked \in [Thread -> SUBSET Type]
  BY Types
<1>1. ASSUME NEW t \in Thread,
             TryRestore(t) \/ TryBuild(t) \/ FindHcl(t) \/ NeedTable(t)
      PROVE  HclChosen'
  BY <1>0, <1>1, RepoAssumption DEF TryRestore, Enter, PLUGIN, Goto, statics, heap,
     TryBuild, FindHcl, NeedTable, HclChosen, Chosen, CanLoad, Walks, Walking, Missing,
     Frames, Fetched, Mutex
<1>2. ASSUME NEW t \in Thread,
             Skip(t) \/ Check(t) \/ Nothing(t) \/ Got(t) \/ Refused(t)
      PROVE  HclChosen'
  BY <1>0, <1>2, RepoAssumption DEF Skip, Skipped, Pass, Hcl, PLUGIN, LOCALHCL, ROMHCL,
     Advance, Last, BINARY, Following, Search, Goto, statics, heap, Check, Nothing, Got,
     Tried, Refused, HclChosen, Chosen, CanLoad, Walks, Walking, Missing, Frames, Fetched,
     Mutex
<1>3. ASSUME NEW t \in Thread,
             Lock(t) \/ Recheck(t) \/ Create(t) \/ CreateNothing(t) \/ Add(t) \/ Unlock(t)
      PROVE  HclChosen'
  <2>1. CASE Lock(t)
    BY <1>0, <2>1, RepoAssumption DEF Lock, Goto, heap, HclChosen, Chosen, CanLoad,
       Walks, Walking, Missing, Frames, Fetched, Mutex
  <2>2. CASE Recheck(t)
    BY <1>0, <2>2, RepoAssumption DEF Recheck, Goto, statics, heap, HclChosen, Chosen,
       CanLoad, Walks, Walking, Missing, Frames, Fetched, Mutex
  <2>3. CASE Create(t)
    BY <1>0, <2>3, RepoAssumption DEF Create, Loadable, DIRECT, PLUGIN, Goto, statics,
       HclChosen, Chosen, CanLoad, Walks, Walking, Missing, Frames, Fetched, Mutex
  <2>4. CASE CreateNothing(t)
    BY <1>0, <2>4, RepoAssumption DEF CreateNothing, Loadable, DIRECT, PLUGIN, Goto,
       heap, HclChosen, Chosen, CanLoad, Walks, Walking, Missing, Frames, Fetched, Mutex
  <2>5. CASE Add(t)
    BY <1>0, <2>5, RepoAssumption DEF Add, Goto, heap, HclChosen, Chosen, CanLoad,
       Walks, Walking, Missing, Frames, Fetched, Mutex
  <2>6. CASE Unlock(t)
    BY <1>0, <2>6, RepoAssumption DEF Unlock, Goto, heap, HclChosen, Chosen, CanLoad,
       Walks, Walking, Missing, Frames, Fetched, Mutex
  <2> QED
    BY <1>3, <2>1, <2>2, <2>3, <2>4, <2>5, <2>6
<1>4. ASSUME NEW t \in Thread, Accepted(t) \/ NotFound(t) \/ Found(t)
      PROVE  HclChosen'
  BY <1>0, <1>4, RepoAssumption DEF Accepted, SymbolsAt, Leave, Goto, Enter, PLUGIN,
     statics, NotFound, heap, Found, HclChosen, Chosen, CanLoad, Walks, Walking, Missing,
     Frames, Fetched, Mutex
<1>5. ASSUME NEW t \in Thread,
             LockTable(t) \/ InitTable(t) \/ UnlockTable(t)
      PROVE  HclChosen'
  BY <1>0, <1>5, RepoAssumption DEF LockTable, Goto, heap, InitTable, SymbolsAt,
     UnlockTable, Leave, Enter, PLUGIN, HclChosen, Chosen, CanLoad, Walks, Walking,
     Missing, Frames, Fetched, Mutex
<1>6. ASSUME NEW m \in Model, Destroy(m)
      PROVE  HclChosen'
  BY <1>0, <1>6, RepoAssumption DEF Destroy, statics, locals, HclChosen, Chosen,
     CanLoad, Walks, Walking, Missing, Frames, Fetched, Mutex
<1>7. ASSUME Install
      PROVE  HclChosen'
  BY <1>0, <1>7, RepoAssumption DEF Install, PLUGIN, statics, heap, locals, HclChosen,
     Chosen, CanLoad, Walks, Walking, Missing, Frames, Fetched, Mutex
<1>8. ASSUME DeInit
      PROVE  HclChosen'
  BY <1>0, <1>8, RepoAssumption DEF DeInit, DeInited, Type, PLUGIN, BINARY, locals,
     HclChosen, Chosen, CanLoad, Walks, Walking, Missing, Frames, Fetched, Mutex
<1>9. ASSUME Exited
      PROVE  HclChosen'
  BY <1>0, <1>9, RepoAssumption DEF Exited, vars, statics, heap, locals, HclChosen,
     Chosen, CanLoad, Walks, Walking, Missing, Frames, Fetched, Mutex
<1>10. CASE UNCHANGED vars
  BY <1>10 DEF vars, statics, heap, locals, HclChosen, Chosen, CanLoad, Walks, Walking,
     Missing, Frames, Fetched, Mutex
<1> QED
  BY <1>1, <1>2, <1>3, <1>4, <1>5, <1>6, <1>7, <1>8, <1>9, <1>10 DEF Next, Begin,
     Continue

LEMMA OptionsFitStep ==
  TypeOK /\ ~Upgradable /\ OptionsFit /\ HclChosen /\ Missing /\ Walks /\ Frames /\ Fetched /\ RuntimesOwned /\ Quiet /\ [Next]_vars => OptionsFit'
<1> SUFFICES ASSUME TypeOK, ~Upgradable, OptionsFit, HclChosen, Missing, Walks, Frames, Fetched, RuntimesOwned, Quiet, [Next]_vars
             PROVE  OptionsFit'
  OBVIOUS
<1>0. /\ device \in [kind : [Type -> Kind], symbols : [Type -> SUBSET Symbol], upgradable : BOOLEAN]
      /\ runtimes \in [Type -> Object \cup {None}]
      /\ g_runtimesMutex \in Thread \cup {None}
      /\ enhanceChecked \in BOOLEAN
      /\ funcs \in [Table -> Object \cup {V1, None}]
      /\ exited \in BOOLEAN
      /\ memory \in [Object -> Type \cup {None}]
      /\ builtModels \in [Model -> Object \cup {None}]
      /\ pc \in [Thread -> Label]
      /\ op \in [Thread -> Pass \cup Search \cup {"none"}]
      /\ index \in [Thread -> Type]
      /\ isHCLTried \in [Thread -> BOOLEAN]
      /\ modelRuntime \in [Thread -> Object \cup {None}]
      /\ options \in [Thread -> Object \cup {V1, None}]
      /\ table \in [Thread -> Table \cup {None}]
      /\ asked \in [Thread -> SUBSET Type]
  BY Types
<1>1. ASSUME NEW t \in Thread,
             TryRestore(t) \/ TryBuild(t) \/ FindHcl(t) \/ NeedTable(t)
      PROVE  OptionsFit'
  <2>1. CASE TryRestore(t)
    BY <1>0, <2>1, RepoAssumption DEF TryRestore, Enter, PLUGIN, Goto, statics, heap,
       OptionsFit, Fits, Chosen, CanLoad, HclChosen, Missing, Walks, Walking, Frames,
       Fetched, RuntimesOwned, Quiet, Kept, NoMalformed
  <2>2. CASE TryBuild(t)
    BY <1>0, <2>2, RepoAssumption DEF TryBuild, Enter, PLUGIN, Goto, statics, heap,
       OptionsFit, Fits, Chosen, CanLoad, HclChosen, Missing, Walks, Walking, Frames,
       Fetched, RuntimesOwned, Quiet, Kept, NoMalformed
  <2>3. CASE FindHcl(t)
    BY <1>0, <2>3, RepoAssumption DEF FindHcl, Enter, PLUGIN, Goto, statics, heap,
       OptionsFit, Fits, Chosen, CanLoad, HclChosen, Missing, Walks, Walking, Frames,
       Fetched, RuntimesOwned, Quiet, Kept, NoMalformed
  <2>4. CASE NeedTable(t)
    BY <1>0, <2>4, RepoAssumption DEF NeedTable, Enter, PLUGIN, Goto, statics, heap,
       OptionsFit, Fits, Chosen, CanLoad, HclChosen, Missing, Walks, Walking, Frames,
       Fetched, RuntimesOwned, Quiet, Kept, NoMalformed
  <2> QED
    BY <1>1, <2>1, <2>2, <2>3, <2>4
<1>2. ASSUME NEW t \in Thread,
             Skip(t) \/ Check(t) \/ Nothing(t) \/ Got(t) \/ Refused(t)
      PROVE  OptionsFit'
  BY <1>0, <1>2, RepoAssumption DEF Skip, Skipped, Pass, Hcl, PLUGIN, LOCALHCL, ROMHCL,
     Advance, Last, BINARY, Following, Search, Goto, statics, heap, Check, Nothing, Got,
     Tried, Refused, OptionsFit, Fits, Chosen, CanLoad, HclChosen, Missing, Walks, Walking,
     Frames, Fetched, RuntimesOwned, Quiet, Kept, NoMalformed
<1>3. ASSUME NEW t \in Thread,
             Lock(t) \/ Recheck(t) \/ Create(t) \/ CreateNothing(t) \/ Add(t) \/ Unlock(t)
      PROVE  OptionsFit'
  BY <1>0, <1>3, RepoAssumption DEF Lock, Goto, heap, Recheck, statics, Create,
     Loadable, DIRECT, PLUGIN, CreateNothing, Add, Unlock, OptionsFit, Fits, Chosen,
     CanLoad, HclChosen, Missing, Walks, Walking, Frames, Fetched, RuntimesOwned, Quiet,
     Kept, NoMalformed
<1>4. ASSUME NEW t \in Thread, Accepted(t) \/ NotFound(t) \/ Found(t)
      PROVE  OptionsFit'
  BY <1>0, <1>4, RepoAssumption DEF Accepted, SymbolsAt, Leave, Goto, Enter, PLUGIN,
     statics, NotFound, heap, Found, OptionsFit, Fits, Chosen, CanLoad, HclChosen, Missing,
     Walks, Walking, Frames, Fetched, RuntimesOwned, Quiet, Kept, NoMalformed
<1>5. ASSUME NEW t \in Thread,
             LockTable(t) \/ InitTable(t) \/ UnlockTable(t)
      PROVE  OptionsFit'
  <2>1. CASE LockTable(t)
    BY <1>0, <2>1, RepoAssumption DEF LockTable, Goto, heap, OptionsFit, Fits, Chosen,
       CanLoad, HclChosen, Missing, Walks, Walking, Frames, Fetched, RuntimesOwned, Quiet,
       Kept, NoMalformed
  <2>2. CASE InitTable(t)
    <3> DEFINE i == index[t]
               v == IF pc[t] = "got" /\ "options" \in SymbolsAt(runtimes[i])
                      THEN runtimes[i] ELSE V1
    <3>1. /\ i \in Hcl /\ table[t] \in Table
          /\ pc[t] = "end" \/ (pc[t] = "got" /\ runtimes[i] # None)
          /\ funcs' = [funcs EXCEPT ![table[t]] = v]
          /\ UNCHANGED <<device, runtimes, options, memory, exited>>
      BY <2>2 DEF InitTable, Frames, Pass, heap
    <3>2. NoMalformed => Fits(v)
      <4>1. CASE pc[t] = "end"
        BY <2>2, <4>1 DEF InitTable, Walks, Fits, Chosen
      <4>2. CASE pc[t] = "got" /\ runtimes[i] # None /\ NoMalformed
        <5>1. Chosen(i) /\ i \in Type /\ runtimes[i] \in Object
          BY <1>0, <3>1, <4>2
          DEF HclChosen, Hcl, Type, PLUGIN, LOCALHCL, DIRECT, ROMHCL, BINARY
        <5>2. pc[t] # "idle"
          BY <4>2
        <5>3. memory[runtimes[i]] = i
          BY <1>0, <4>2, <5>1, <5>2 DEF RuntimesOwned, Kept, Quiet
        <5>4. SymbolsAt(runtimes[i]) = device.symbols[i]
          BY <1>0, <5>1, <5>3, RepoAssumption DEF SymbolsAt
        <5>5. ASSUME NEW j \in Hcl, Chosen(j) PROVE j = i
          BY <3>1, <5>1, <5>5 DEF Chosen, Hcl, PLUGIN, LOCALHCL, ROMHCL
        <5> QED
          BY <4>2, <5>4, <5>5 DEF Fits
      <4> QED
        BY <3>1, <4>1, <4>2
    <3>3. \A w : (NoMalformed <=> NoMalformed') /\ (Fits(w) <=> Fits(w)')
      BY <3>1 DEF NoMalformed, Fits, Chosen, CanLoad
    <3>4. ASSUME NoMalformed', NEW tab \in Table, (funcs[tab] # None)'
          PROVE  (Fits(funcs[tab]))'
      <4>1. Fits(funcs'[tab])
        BY <1>0, <3>1, <3>2, <3>3, <3>4 DEF OptionsFit
      <4> QED
        BY <3>1, <4>1 DEF Fits, Chosen, CanLoad
    <3>5. ASSUME NoMalformed', NEW u \in Thread, (options[u] # None)'
          PROVE  (Fits(options[u]))'
      <4>1. Fits(options'[u])
        BY <3>1, <3>3, <3>5 DEF OptionsFit
      <4> QED
        BY <3>1, <4>1 DEF Fits, Chosen, CanLoad
    <3> QED
      BY <3>4, <3>5 DEF OptionsFit
  <2>3. CASE UnlockTable(t)
    BY <1>0, <2>3, RepoAssumption DEF UnlockTable, Leave, Goto, Enter, PLUGIN, heap,
       OptionsFit, Fits, Chosen, CanLoad, HclChosen, Missing, Walks, Walking, Frames,
       Fetched, RuntimesOwned, Quiet, Kept, NoMalformed
  <2> QED
    BY <1>5, <2>1, <2>2, <2>3
<1>6. ASSUME NEW m \in Model, Destroy(m)
      PROVE  OptionsFit'
  BY <1>0, <1>6, RepoAssumption DEF Destroy, statics, locals, OptionsFit, Fits, Chosen,
     CanLoad, HclChosen, Missing, Walks, Walking, Frames, Fetched, RuntimesOwned, Quiet,
     Kept, NoMalformed
<1>7. ASSUME Install
      PROVE  OptionsFit'
  BY <1>0, <1>7, RepoAssumption DEF Install, PLUGIN, statics, heap, locals, OptionsFit,
     Fits, Chosen, CanLoad, HclChosen, Missing, Walks, Walking, Frames, Fetched,
     RuntimesOwned, Quiet, Kept, NoMalformed
<1>8. ASSUME DeInit
      PROVE  OptionsFit'
  BY <1>0, <1>8, RepoAssumption DEF DeInit, DeInited, Type, PLUGIN, BINARY, locals,
     OptionsFit, Fits, Chosen, CanLoad, HclChosen, Missing, Walks, Walking, Frames,
     Fetched, RuntimesOwned, Quiet, Kept, NoMalformed
<1>9. ASSUME Exited
      PROVE  OptionsFit'
  BY <1>0, <1>9, RepoAssumption DEF Exited, vars, statics, heap, locals, OptionsFit,
     Fits, Chosen, CanLoad, HclChosen, Missing, Walks, Walking, Frames, Fetched,
     RuntimesOwned, Quiet, Kept, NoMalformed
<1>10. CASE UNCHANGED vars
  BY <1>10 DEF vars, statics, heap, locals, OptionsFit, Fits, Chosen, CanLoad,
     HclChosen, Missing, Walks, Walking, Frames, Fetched, RuntimesOwned, Quiet, Kept,
     NoMalformed
<1> QED
  BY <1>1, <1>2, <1>3, <1>4, <1>5, <1>6, <1>7, <1>8, <1>9, <1>10 DEF Next, Begin,
     Continue

LEMMA AskedStep ==
  TypeOK /\ ~Upgradable /\ Asked /\ Missing /\ Frames /\ Walks /\ [Next]_vars => Asked'
<1> SUFFICES ASSUME TypeOK, ~Upgradable, Asked, Missing, Frames, Walks, [Next]_vars
             PROVE  Asked'
  OBVIOUS
<1>0. /\ device \in [kind : [Type -> Kind], symbols : [Type -> SUBSET Symbol], upgradable : BOOLEAN]
      /\ runtimes \in [Type -> Object \cup {None}]
      /\ g_runtimesMutex \in Thread \cup {None}
      /\ enhanceChecked \in BOOLEAN
      /\ funcs \in [Table -> Object \cup {V1, None}]
      /\ exited \in BOOLEAN
      /\ memory \in [Object -> Type \cup {None}]
      /\ builtModels \in [Model -> Object \cup {None}]
      /\ pc \in [Thread -> Label]
      /\ op \in [Thread -> Pass \cup Search \cup {"none"}]
      /\ index \in [Thread -> Type]
      /\ isHCLTried \in [Thread -> BOOLEAN]
      /\ modelRuntime \in [Thread -> Object \cup {None}]
      /\ options \in [Thread -> Object \cup {V1, None}]
      /\ table \in [Thread -> Table \cup {None}]
      /\ asked \in [Thread -> SUBSET Type]
  BY Types
<1>1. ASSUME NEW t \in Thread,
             TryRestore(t) \/ TryBuild(t) \/ FindHcl(t) \/ NeedTable(t)
      PROVE  Asked'
  BY <1>0, <1>1, RepoAssumption DEF TryRestore, Enter, PLUGIN, Goto, statics, heap,
     TryBuild, FindHcl, NeedTable, Asked, CanLoad, Walking, Missing, Frames, Walks, Hcl,
     Pass, Search, Type, LOCALHCL, DIRECT, ROMHCL, BINARY
<1>2. ASSUME NEW t \in Thread,
             Skip(t) \/ Check(t) \/ Nothing(t) \/ Got(t) \/ Refused(t)
      PROVE  Asked'
  <2>1. CASE Skip(t)
    BY <1>0, <2>1, RepoAssumption DEF Skip, Skipped, Pass, Hcl, PLUGIN, LOCALHCL,
       ROMHCL, Advance, Last, BINARY, Following, Search, Goto, statics, heap, Asked,
       CanLoad, Walking, Missing, Frames, Walks, Type, DIRECT
  <2>2. CASE Check(t)
    BY <1>0, <2>2, RepoAssumption DEF Check, Skipped, Pass, Hcl, PLUGIN, LOCALHCL,
       ROMHCL, Goto, statics, heap, Asked, CanLoad, Walking, Missing, Frames, Walks,
       Search, Type, DIRECT, BINARY
  <2>3. CASE Nothing(t)
    BY <1>0, <2>3, RepoAssumption DEF Nothing, Advance, Last, Pass, BINARY, ROMHCL,
       Following, Search, LOCALHCL, Goto, statics, heap, Asked, CanLoad, Walking, Missing,
       Frames, Walks, Hcl, Type, PLUGIN, DIRECT
  <2>4. CASE Got(t)
    BY <1>0, <2>4, RepoAssumption DEF Got, Pass, Tried, Hcl, PLUGIN, LOCALHCL, ROMHCL,
       Goto, statics, heap, Asked, CanLoad, Walking, Missing, Frames, Walks, Search, Type,
       DIRECT, BINARY
  <2>5. CASE Refused(t)
    <3>1. /\ op[t] \in Pass /\ pc[t] = "ask" /\ index[t] \in Type
          /\ UNCHANGED <<op, isHCLTried, device>>
      BY <1>0, <2>5 DEF Refused, Frames
    <3>2. /\ asked'[t] = asked[t] \cup {index[t]}
          /\ index'[t] = IF index[t] = BINARY THEN BINARY ELSE index[t] + 1
          /\ pc'[t] = IF index[t] = BINARY THEN "end" ELSE "look"
      BY <1>0, <3>1, <2>5 DEF Refused, Advance, Last, Following, Goto, Pass, Search
    <3>5. ASSUME NEW u \in Thread, u # t
          PROVE  asked'[u] = asked[u] /\ index'[u] = index[u] /\ pc'[u] = pc[u]
      BY <1>0, <2>5, <3>5 DEF Refused, Advance, Goto
    <3>3. isHCLTried[t] => asked'[t] \cap Hcl # {}
      BY <3>1, <3>2 DEF Asked, Walking
    <3>4. ASSUME NEW j \in Type, CanLoad(j), j < index'[t] \/ index[t] = BINARY
          PROVE  j \in asked'[t] \/ (j \in Hcl /\ asked'[t] \cap Hcl # {})
      <4>1. j < index[t] \/ j = index[t]
        BY <3>1, <3>2, <3>4 DEF Type, PLUGIN, BINARY
      <4> QED
        BY <3>1, <3>2, <3>4, <4>1 DEF Asked, Walking
    <3> QED
      BY <1>0, <3>1, <3>2, <3>3, <3>4, <3>5 DEF Asked, CanLoad, Walking
  <2> QED
    BY <1>2, <2>1, <2>2, <2>3, <2>4, <2>5
<1>3. ASSUME NEW t \in Thread,
             Lock(t) \/ Recheck(t) \/ Create(t) \/ CreateNothing(t) \/ Add(t) \/ Unlock(t)
      PROVE  Asked'
  BY <1>0, <1>3, RepoAssumption DEF Lock, Goto, heap, Recheck, statics, Create,
     Loadable, DIRECT, PLUGIN, CreateNothing, Add, Unlock, Asked, CanLoad, Walking,
     Missing, Frames, Walks, Hcl, Pass, Search, Type, LOCALHCL, ROMHCL, BINARY
<1>4. ASSUME NEW t \in Thread, Accepted(t) \/ NotFound(t) \/ Found(t)
      PROVE  Asked'
  BY <1>0, <1>4, RepoAssumption DEF Accepted, SymbolsAt, Leave, Goto, Enter, PLUGIN,
     statics, NotFound, heap, Found, Asked, CanLoad, Walking, Missing, Frames, Walks, Hcl,
     Pass, Search, Type, LOCALHCL, DIRECT, ROMHCL, BINARY
<1>5. ASSUME NEW t \in Thread,
             LockTable(t) \/ InitTable(t) \/ UnlockTable(t)
      PROVE  Asked'
  BY <1>0, <1>5, RepoAssumption DEF LockTable, Goto, heap, InitTable, SymbolsAt,
     UnlockTable, Leave, Enter, PLUGIN, Asked, CanLoad, Walking, Missing, Frames, Walks,
     Hcl, Pass, Search, Type, LOCALHCL, DIRECT, ROMHCL, BINARY
<1>6. ASSUME NEW m \in Model, Destroy(m)
      PROVE  Asked'
  BY <1>0, <1>6, RepoAssumption DEF Destroy, statics, locals, Asked, CanLoad, Walking,
     Missing, Frames, Walks, Hcl, Pass, Search, Type, PLUGIN, LOCALHCL, DIRECT, ROMHCL,
     BINARY
<1>7. ASSUME Install
      PROVE  Asked'
  BY <1>0, <1>7, RepoAssumption DEF Install, PLUGIN, statics, heap, locals, Asked,
     CanLoad, Walking, Missing, Frames, Walks, Hcl, Pass, Search, Type, LOCALHCL, DIRECT,
     ROMHCL, BINARY
<1>8. ASSUME DeInit
      PROVE  Asked'
  BY <1>0, <1>8, RepoAssumption DEF DeInit, DeInited, Type, PLUGIN, BINARY, locals,
     Asked, CanLoad, Walking, Missing, Frames, Walks, Hcl, Pass, Search, LOCALHCL, DIRECT,
     ROMHCL
<1>9. ASSUME Exited
      PROVE  Asked'
  BY <1>0, <1>9, RepoAssumption DEF Exited, vars, statics, heap, locals, Asked, CanLoad,
     Walking, Missing, Frames, Walks, Hcl, Pass, Search, Type, PLUGIN, LOCALHCL, DIRECT,
     ROMHCL, BINARY
<1>10. CASE UNCHANGED vars
  BY <1>10 DEF vars, statics, heap, locals, Asked, CanLoad, Walking, Missing, Frames,
     Walks, Hcl, Pass, Search, Type, PLUGIN, LOCALHCL, DIRECT, ROMHCL, BINARY
<1> QED
  BY <1>1, <1>2, <1>3, <1>4, <1>5, <1>6, <1>7, <1>8, <1>9, <1>10 DEF Next, Begin,
     Continue

-----------------------------------------------------------------------------
(* Theorems *)

LEMMA InitInvariant == Init => IInv
  BY RepoAssumption DEF Init, IInv, Frames, Fetched, Hcl, Pass, Search, Type, PLUGIN,
     LOCALHCL, DIRECT, ROMHCL, BINARY, Mutex, Quiet, LoadedOnce, Kept, ExitUnloadsAll,
     RuntimesOwned, NoMalformed, Type, Hcl, Pass, Search, PLUGIN, LOCALHCL, DIRECT, ROMHCL,
     BINARY

LEMMA InvariantStep == TypeOK /\ IInv /\ [Next]_vars => TypeOK' /\ IInv'
  BY TypeStep, FramesStep, MutexStep, FetchedStep, QuietStep, LoadedOnceStep,
     ExitUnloadsAllStep, RuntimesOwnedStep DEF IInv

LEMMA Invariant == Spec => [](TypeOK /\ IInv)
<1>1. Init => TypeOK /\ IInv
  BY InitTyped, InitInvariant
<1>2. TypeOK /\ IInv /\ [Next]_vars => (TypeOK /\ IInv)'
  BY InvariantStep
<1> QED
  BY <1>1, <1>2, PTL DEF Spec

LEMMA InitChosen == Init => ChosenInv
  BY RepoAssumption DEF Init, ChosenInv, Missing, Walks, HclChosen, OptionsFit, Asked,
     Chosen, CanLoad, Fits, Walking, Type, Hcl, Pass, Search, PLUGIN, LOCALHCL, DIRECT,
     ROMHCL, BINARY

LEMMA ChosenStep ==
  ~Upgradable /\ TypeOK /\ IInv /\ ChosenInv /\ [Next]_vars => ChosenInv'
  BY MissingStep, WalksStep, HclChosenStep, OptionsFitStep, AskedStep DEF IInv,
     ChosenInv

LEMMA ChosenInvariant == Spec => [](Upgradable \/ ChosenInv)
<1>1. Init => Upgradable \/ ChosenInv
  BY InitChosen
<1>2. TypeOK /\ IInv /\ (Upgradable \/ ChosenInv) /\ [Next]_vars => (Upgradable \/ ChosenInv)'
  <2> SUFFICES ASSUME TypeOK, IInv, Upgradable \/ ChosenInv, [Next]_vars
               PROVE  Upgradable' \/ ChosenInv'
    OBVIOUS
  <2>1. CASE Upgradable
    BY <2>1, UpgradableKept
  <2>2. CASE ~Upgradable
    BY <2>2, ChosenStep
  <2> QED
    BY <2>1, <2>2
<1> QED
  BY <1>1, <1>2, Invariant, PTL DEF Spec

\* Every variable keeps its type: no loop leaves the enumeration of the types.
THEOREM TypeCorrect == Spec => []TypeOK
<1>1. TypeOK /\ IInv => TypeOK
  OBVIOUS
<1> QED
  BY <1>1, Invariant, PTL

\* LoadByType, in any number of threads: each library is loaded at most once,
\* and built models and tables keep runtimes that are in the repository.
THEOREM EveryRuntimeOwned == Spec => []RuntimesOwned
<1>1. TypeOK /\ IInv => RuntimesOwned
  BY DEF IInv
<1> QED
  BY <1>1, Invariant, PTL

\* No object is lost, whatever the libraries are.
THEOREM NoneLost == Spec => []LoadedOnce
<1>1. TypeOK /\ IInv => LoadedOnce
  BY DEF IInv
<1> QED
  BY <1>1, Invariant, PTL

\* HIAI_ModelRuntimeRepo_DeInit unloads whatever was loaded.
THEOREM NothingLeft == Spec => []ExitUnloadsAll
<1>1. TypeOK /\ IInv => ExitUnloadsAll
  BY DEF IInv
<1> QED
  BY <1>1, Invariant, PTL

\* GetRuntimeFromIndex and GetSutiableHclRuntime never load two HCL libraries.
THEOREM OnlyOneHcl == Spec => []OneHcl
<1>1. TypeOK /\ (Upgradable \/ ChosenInv) => OneHcl
  BY Types
  DEF ChosenInv, HclChosen, Chosen, CanLoad, OneHcl, Hcl, PLUGIN, LOCALHCL, ROMHCL
<1> QED
  BY <1>1, Invariant, ChosenInvariant, PTL

\* Options given to an HCL runtime were made by its own functions, or by the
\* ones compiled in when it has none.
THEOREM OptionsMatch == Spec => []OptionsUnderstood
<1>1. TypeOK /\ IInv /\ (Upgradable \/ ChosenInv) => OptionsUnderstood
  <2> SUFFICES ASSUME TypeOK, IInv, ChosenInv, NoMalformed, NEW t \in Thread,
                      pc[t] = "ask", index[t] \in Hcl, options[t] # None
               PROVE  options[t] = IF "options" \in SymbolsAt(runtimes[index[t]])
                                   THEN runtimes[index[t]] ELSE V1
    BY DEF OptionsUnderstood
  <2>1. Chosen(index[t]) /\ runtimes[index[t]] \in Object
    BY Types DEF IInv, Frames, ChosenInv, HclChosen, Hcl, Type, PLUGIN, LOCALHCL, ROMHCL, BINARY
  <2>2. ~exited
    BY DEF IInv, Quiet
  <2>3. memory[runtimes[index[t]]] = index[t]
    BY <2>1, <2>2, Types DEF IInv, RuntimesOwned, Kept
  <2>4. SymbolsAt(runtimes[index[t]]) = device.symbols[index[t]]
    BY <2>3, Types, RepoAssumption DEF SymbolsAt
  <2>5. Fits(options[t])
    BY DEF ChosenInv, OptionsFit
  <2> QED
    BY <2>1, <2>4, <2>5 DEF Fits
<1> QED
  BY <1>1, Invariant, ChosenInvariant, PTL

\* TryRestore and TryBuild give up only after they asked every runtime.
THEOREM EveryRuntimeAsked == Spec => []FailedAskedAll
<1>1. TypeOK /\ (Upgradable \/ ChosenInv) => FailedAskedAll
  BY Types, RepoAssumption DEF ChosenInv, Asked, CanLoad, FailedAskedAll, Hcl, Type, PLUGIN, LOCALHCL, ROMHCL, BINARY
<1> QED
  BY <1>1, Invariant, ChosenInvariant, PTL

\* LoadByType and HIAI_ModelRuntimeRepo_DeInit: a library is loaded once, kept
\* while something refers to its runtime, and unloaded at the end.
THEOREM LibrariesAreSound == Spec => []LibrariesSound
<1>1. RuntimesOwned /\ LoadedOnce /\ ExitUnloadsAll => LibrariesSound
  BY DEF LibrariesSound
<1> QED
  BY <1>1, EveryRuntimeOwned, NoneLost, NothingLeft, PTL

\* TryRestore, TryBuild and GetSutiableHclRuntime: one HCL library per process,
\* and a pass fails only after it asked every runtime.
THEOREM ChoiceIsSound == Spec => []ChoiceSound
<1>1. OneHcl /\ FailedAskedAll => ChoiceSound
  BY DEF ChoiceSound
<1> QED
  BY <1>1, OnlyOneHcl, EveryRuntimeAsked, PTL

=============================================================================
