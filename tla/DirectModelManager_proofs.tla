----------------------- MODULE DirectModelManager_proofs -----------------------
(***************************************************************************)
(* Proofs about DirectModelManager, for any number of objects, readers,    *)
(* legacy managers and stamps.                                             *)
(***************************************************************************)
EXTENDS DirectModelManager, TLAPS

(***************************************************************************)
(* Control: how a thread's program counter ties down its locals, and what  *)
(* the ROM's books say of the stamps in use.  TypeOK is inductive only     *)
(* together with it: InitDone and EndWait read through `local` and `stamp`.*)
(***************************************************************************)
Holding == {"load", "initDone", "drop", "unload", "destroy"} \cup WaitPc

Control ==
  /\ \A p \in Thread : pc[p] \in Holding => local[p] \in Legacy
  /\ \A p \in Thread : Waiting(p) => stamp[p] \in Stamp

-----------------------------------------------------------------------------

LEMMA InitTyped == Init => TypeOK /\ Control
  BY Disjointness, Bounds
  DEF Init, TypeOK, ThreadsTyped, MembersTyped, GlobalsTyped, RomTyped, HistoryTyped,
      Control, Thread, Stamp, Entry, NoEntry, NotIssued, Idle, Kind, Pc, UnusedLegacy,
      Holding, Waiting, WaitPc

\* The values the actions store in the table are entries.
LEMMA EntryValues ==
  /\ NoEntry \in Entry
  /\ \A o \in Manager \cup {None}, h \in BOOLEAN : NewEntry(o, h) \in Entry
  /\ \A e \in Entry : /\ [e EXCEPT !.hasResponsed = TRUE] \in Entry
                       /\ [e EXCEPT !.hasResponsed = TRUE, !.result = TRUE] \in Entry
  BY DEF NoEntry, NewEntry, Entry

\* The sets the types are made of.
LEMMA Sets ==
  /\ Manager \subseteq Thread /\ Reader \subseteq Thread
  /\ Stamp \subseteq 0 .. MaxStamp /\ 0 \in 0 .. MaxStamp
  /\ \A s \in Stamp : s + 1 \in 1 .. (MaxStamp + 1)
  /\ 1 \in 1 .. (MaxStamp + 1)
  BY Bounds DEF Thread, Stamp

\* What the table and the ROM's books look like after a request was accepted.
LEMMA RegisterTyped ==
  ASSUME GlobalsTyped, RomTyped, NEW owner \in Manager \cup {None},
         NEW kind \in Kind, Register(owner, kind)
  PROVE  /\ nextStamp \in Stamp
         /\ callBackMap' \in [Stamp -> Entry]
         /\ issued' \in [Stamp -> [kind : Kind, owner : Manager \cup {None}]]
         /\ nextStamp' \in 1 .. (MaxStamp + 1)
<1>1. nextStamp \in Stamp
  BY DEF Register
<1>2. NewEntry(owner, kind # "run") \in Entry
  BY EntryValues
<1>3. callBackMap' \in [Stamp -> Entry]
  BY <1>1, <1>2 DEF Register, GlobalsTyped
<1>4. issued' \in [Stamp -> [kind : Kind, owner : Manager \cup {None}]]
  BY <1>1 DEF Register, RomTyped
<1>5. nextStamp' \in 1 .. (MaxStamp + 1)
  BY <1>1, Sets DEF Register
<1> QED
  BY <1>1, <1>3, <1>4, <1>5

LEMMA NewLegacyTyped ==
  ASSUME RomTyped, NEW l \in Legacy, NEW owner \in Manager \cup {None},
         NEW async \in BOOLEAN, NewLegacy(l, owner, async)
  PROVE  legacy' \in [Legacy -> [state : {"unused", "live", "destroyed"},
                                owner : Manager \cup {None}, listener : BOOLEAN]]
  BY DEF RomTyped, NewLegacy

LEMMA DeathsTyped ==
  ASSUME RomTyped, NEW l \in Legacy, ServiceDiedBegin(l)
  PROVE  deaths' \in 0 .. MaxDeath
  BY Bounds DEF RomTyped, ServiceDiedBegin

\* A callback that reports a run reports an existing stamp.
LEMMA HandlerTyped ==
  ASSUME GlobalsTyped, handler.kind = "run"
  PROVE  handler.at \in Stamp
<1>1. CASE handler = Idle
  BY <1>1 DEF Idle
<1>2. CASE handler \in [kind : {"run"}, at : Stamp]
  BY <1>2
<1>3. CASE handler \in [kind : {"died"}, at : 1 .. (MaxStamp + 1)]
  BY <1>3
<1> QED
  BY <1>1, <1>2, <1>3 DEF GlobalsTyped

LEMMA StepTyped == TypeOK /\ Control /\ [Next]_vars => TypeOK' /\ Control'
<1> SUFFICES ASSUME TypeOK, Control, [Next]_vars
             PROVE  TypeOK' /\ Control'
  OBVIOUS
<1> USE EntryValues, Sets DEF TypeOK
<1>1. ASSUME NEW p \in Thread, DropLocal(p)
       PROVE  TypeOK' /\ Control'
  <2>1. MembersTyped' /\ GlobalsTyped' /\ RomTyped' /\ HistoryTyped'
    BY <1>1 DEF DropLocal, MembersTyped, GlobalsTyped, RomTyped, HistoryTyped, memberVars, globalVars, romVars, histVars
  <2>2. ThreadsTyped' /\ Control'
    <3>1. CASE LastRef(p, local[p])
      <4>1. ThreadsTyped'
        BY <1>1, <3>1 DEF DropLocal, Goto, ThreadsTyped, Pc, WaitPc
      <4>2. Control'
        BY <1>1, <3>1 DEF DropLocal, Goto, ThreadsTyped, Control, Pc, WaitPc, Holding, Waiting
      <4> QED
        BY <4>1, <4>2
    <3>2. CASE ~(LastRef(p, local[p]))
      <4>1. ThreadsTyped'
        BY <1>1, <3>2 DEF DropLocal, Goto, ThreadsTyped, Pc, WaitPc
      <4>2. Control'
        BY <1>1, <3>2 DEF DropLocal, Goto, ThreadsTyped, Control, Pc, WaitPc, Holding, Waiting
      <4> QED
        BY <4>1, <4>2
    <3> QED
      BY <3>1, <3>2
  <2> QED
    BY <2>1, <2>2
<1>2. ASSUME NEW p \in Thread, UnloadSync(p)
       PROVE  TypeOK' /\ Control'
  <2>1. MembersTyped' /\ GlobalsTyped' /\ RomTyped' /\ HistoryTyped'
    BY <1>2 DEF UnloadSync, MembersTyped, GlobalsTyped, RomTyped, HistoryTyped, memberVars, globalVars, romVars, histVars
  <2>2. ThreadsTyped' /\ Control'
    BY <1>2 DEF UnloadSync, Goto, ThreadsTyped, Control, Pc, WaitPc, Holding, Waiting
  <2> QED
    BY <2>1, <2>2
<1>3. ASSUME NEW p \in Thread, UnloadAsync(p)
       PROVE  TypeOK' /\ Control'
  <2>1. MembersTyped' /\ HistoryTyped'
    BY <1>3 DEF UnloadAsync, MembersTyped, HistoryTyped, memberVars, histVars
  <2>2. p \in Thread /\ local[p] \in Legacy
    BY <1>3 DEF UnloadAsync, Control, Holding
  <2>3. legacy[local[p]].owner \in Manager \cup {None}
    BY <2>2 DEF RomTyped
  <2>4. /\ nextStamp \in Stamp
        /\ callBackMap' \in [Stamp -> Entry]
        /\ issued' \in [Stamp -> [kind : Kind, owner : Manager \cup {None}]]
        /\ nextStamp' \in 1 .. (MaxStamp + 1)
    BY <1>3, <2>3, RegisterTyped DEF UnloadAsync, Kind
  <2>5. GlobalsTyped' /\ RomTyped'
    BY <1>3, <2>4 DEF UnloadAsync, GlobalsTyped, RomTyped
  <2>6. ThreadsTyped'
    BY <1>3, <2>2, <2>4 DEF UnloadAsync, Goto, ThreadsTyped, Pc, WaitPc
  <2>7. Control'
    BY <1>3, <2>2, <2>4 DEF UnloadAsync, Goto, ThreadsTyped, Control, WaitPc, Holding, Waiting
  <2> QED
    BY <2>1, <2>5, <2>6, <2>7
<1>4. ASSUME NEW p \in Thread, UnloadRefused(p)
       PROVE  TypeOK' /\ Control'
  <2>1. MembersTyped' /\ GlobalsTyped' /\ RomTyped' /\ HistoryTyped'
    BY <1>4 DEF UnloadRefused, MembersTyped, GlobalsTyped, RomTyped, HistoryTyped, memberVars, globalVars, romVars, histVars
  <2>2. ThreadsTyped' /\ Control'
    BY <1>4 DEF UnloadRefused, Goto, ThreadsTyped, Control, Pc, WaitPc, Holding, Waiting
  <2> QED
    BY <2>1, <2>2
<1>5. ASSUME NEW p \in Thread, DestroyLegacy(p)
       PROVE  TypeOK' /\ Control'
  <2>1. MembersTyped' /\ GlobalsTyped' /\ HistoryTyped'
    BY <1>5 DEF DestroyLegacy, MembersTyped, GlobalsTyped, HistoryTyped, memberVars, globalVars, histVars
  <2>2. ThreadsTyped' /\ Control'
    <3>1. CASE op[p] \in {"Init", "Query"}
      <4>1. ThreadsTyped'
        BY <1>5, <3>1 DEF DestroyLegacy, Goto, ThreadsTyped, Pc, WaitPc
      <4>2. Control'
        BY <1>5, <3>1 DEF DestroyLegacy, Goto, ThreadsTyped, Control, Pc, WaitPc, Holding, Waiting
      <4> QED
        BY <4>1, <4>2
    <3>2. CASE ~(op[p] \in {"Init", "Query"})
      <4>1. ThreadsTyped'
        BY <1>5, <3>2 DEF DestroyLegacy, Goto, ThreadsTyped, Pc, WaitPc
      <4>2. Control'
        BY <1>5, <3>2 DEF DestroyLegacy, Goto, ThreadsTyped, Control, Pc, WaitPc, Holding, Waiting
      <4> QED
        BY <4>1, <4>2
    <3> QED
      BY <3>1, <3>2
  <2>3. RomTyped'
    BY <1>5 DEF DestroyLegacy, UnusedLegacy, Goto, RomTyped, Kind, ThreadsTyped, Control, Holding
  <2> QED
    BY <2>1, <2>2, <2>3
<1>6. ASSUME NEW p \in Thread, LockMutex(p)
       PROVE  TypeOK' /\ Control'
  <2>1. MembersTyped' /\ RomTyped' /\ HistoryTyped'
    BY <1>6 DEF LockMutex, MembersTyped, RomTyped, HistoryTyped, memberVars, romVars, histVars
  <2>2. ThreadsTyped' /\ Control'
    BY <1>6 DEF LockMutex, Goto, ThreadsTyped, Control, Pc, WaitPc, Holding, Waiting
  <2>3. GlobalsTyped'
    BY <1>6 DEF LockMutex, Goto, GlobalsTyped, Idle
  <2> QED
    BY <2>1, <2>2, <2>3
<1>7. ASSUME NEW p \in Thread, CheckPredicate(p)
       PROVE  TypeOK' /\ Control'
  <2>1. MembersTyped' /\ GlobalsTyped' /\ RomTyped' /\ HistoryTyped'
    BY <1>7 DEF CheckPredicate, MembersTyped, GlobalsTyped, RomTyped, HistoryTyped, memberVars, globalVars, romVars, histVars
  <2>2. stamp[p] \in Stamp
    BY <1>7 DEF CheckPredicate, Control, Waiting, WaitPc
  <2>3. callBackMap[stamp[p]] \in Entry
    BY <2>2 DEF GlobalsTyped
  <2>4. callBackMap[stamp[p]].result \in BOOLEAN
    BY <2>3 DEF Entry
  <2>5. ThreadsTyped'
    BY <1>7, <2>4 DEF CheckPredicate, Goto, ThreadsTyped, Pc, WaitPc
  <2>6. Control'
    BY <1>7 DEF CheckPredicate, Goto, ThreadsTyped, Control, Waiting, WaitPc, Holding
  <2> QED
    BY <2>1, <2>5, <2>6
<1>8. ASSUME NEW p \in Thread, Block(p)
       PROVE  TypeOK' /\ Control'
  <2>1. MembersTyped' /\ RomTyped' /\ HistoryTyped'
    BY <1>8 DEF Block, MembersTyped, RomTyped, HistoryTyped, memberVars, romVars, histVars
  <2>2. ThreadsTyped' /\ Control'
    BY <1>8 DEF Block, Goto, ThreadsTyped, Control, Pc, WaitPc, Holding, Waiting
  <2>3. GlobalsTyped'
    BY <1>8 DEF Block, Goto, GlobalsTyped, Idle
  <2> QED
    BY <2>1, <2>2, <2>3
<1>9. ASSUME NEW p \in Thread, Timeout(p)
       PROVE  TypeOK' /\ Control'
  <2>1. MembersTyped' /\ GlobalsTyped' /\ RomTyped' /\ HistoryTyped'
    BY <1>9 DEF Timeout, MembersTyped, GlobalsTyped, RomTyped, HistoryTyped, memberVars, globalVars, romVars, histVars
  <2>2. ThreadsTyped' /\ Control'
    BY <1>9 DEF Timeout, Goto, ThreadsTyped, Control, Pc, WaitPc, Holding, Waiting
  <2> QED
    BY <2>1, <2>2
<1>10. ASSUME NEW p \in Thread, EndWait(p)
       PROVE  TypeOK' /\ Control'
  <2>1. MembersTyped' /\ RomTyped' /\ HistoryTyped'
    BY <1>10 DEF EndWait, MembersTyped, RomTyped, HistoryTyped, memberVars, romVars, histVars
  <2>2. ThreadsTyped' /\ Control'
    BY <1>10 DEF EndWait, Erase, Goto, ThreadsTyped, Control, Pc, WaitPc, Holding, Waiting
  <2>3. GlobalsTyped'
    BY <1>10 DEF EndWait, Erase, Goto, GlobalsTyped, Idle
  <2> QED
    BY <2>1, <2>2, <2>3
<1>11. ASSUME NEW m \in Manager, LoadSync(m)
       PROVE  TypeOK' /\ Control'
  <2>1. MembersTyped' /\ GlobalsTyped' /\ RomTyped' /\ HistoryTyped'
    BY <1>11 DEF LoadSync, MembersTyped, GlobalsTyped, RomTyped, HistoryTyped, memberVars, globalVars, romVars, histVars
  <2>2. ThreadsTyped' /\ Control'
    BY <1>11 DEF LoadSync, Goto, ThreadsTyped, Control, Pc, WaitPc, Holding, Waiting
  <2> QED
    BY <2>1, <2>2
<1>12. ASSUME NEW m \in Manager, LoadAsync(m)
       PROVE  TypeOK' /\ Control'
  <2>1. MembersTyped' /\ HistoryTyped'
    BY <1>12 DEF LoadAsync, MembersTyped, HistoryTyped, memberVars, histVars
  <2>2. m \in Thread /\ local[m] \in Legacy
    BY <1>12 DEF LoadAsync, Control, Holding
  <2>3. m \in Manager \cup {None}
    BY <2>2
  <2>4. /\ nextStamp \in Stamp
        /\ callBackMap' \in [Stamp -> Entry]
        /\ issued' \in [Stamp -> [kind : Kind, owner : Manager \cup {None}]]
        /\ nextStamp' \in 1 .. (MaxStamp + 1)
    BY <1>12, <2>3, RegisterTyped DEF LoadAsync, Kind
  <2>5. GlobalsTyped' /\ RomTyped'
    BY <1>12, <2>4 DEF LoadAsync, GlobalsTyped, RomTyped
  <2>6. ThreadsTyped'
    BY <1>12, <2>2, <2>4 DEF LoadAsync, Goto, ThreadsTyped, Pc, WaitPc
  <2>7. Control'
    BY <1>12, <2>2, <2>4 DEF LoadAsync, Goto, ThreadsTyped, Control, WaitPc, Holding, Waiting
  <2> QED
    BY <2>1, <2>5, <2>6, <2>7
<1>13. ASSUME NEW m \in Manager, LoadRefused(m)
       PROVE  TypeOK' /\ Control'
  <2>1. MembersTyped' /\ GlobalsTyped' /\ RomTyped' /\ HistoryTyped'
    BY <1>13 DEF LoadRefused, MembersTyped, GlobalsTyped, RomTyped, HistoryTyped, memberVars, globalVars, romVars, histVars
  <2>2. ThreadsTyped' /\ Control'
    BY <1>13 DEF LoadRefused, Goto, ThreadsTyped, Control, Pc, WaitPc, Holding, Waiting
  <2> QED
    BY <2>1, <2>2
<1>14. ASSUME NEW m \in Manager, InitDone(m)
       PROVE  TypeOK' /\ Control'
  <2>1. GlobalsTyped' /\ RomTyped' /\ HistoryTyped'
    BY <1>14 DEF InitDone, GlobalsTyped, RomTyped, HistoryTyped, globalVars, romVars, histVars
  <2>2. ThreadsTyped' /\ Control'
    BY <1>14 DEF InitDone, Goto, ThreadsTyped, Control, Pc, WaitPc, Holding, Waiting
  <2>3. MembersTyped'
    BY <1>14 DEF InitDone, Goto, MembersTyped, ThreadsTyped, RomTyped, Control, Holding
  <2> QED
    BY <2>1, <2>2, <2>3
<1>15. ASSUME NEW m \in Manager, ReleaseManager(m)
       PROVE  TypeOK' /\ Control'
  <2>1. GlobalsTyped' /\ RomTyped' /\ HistoryTyped'
    BY <1>15 DEF ReleaseManager, GlobalsTyped, RomTyped, HistoryTyped, globalVars, romVars, histVars
  <2>2. ThreadsTyped' /\ Control'
    BY <1>15 DEF ReleaseManager, Goto, ThreadsTyped, Control, Pc, WaitPc, Holding, Waiting, MembersTyped
  <2>3. MembersTyped'
    BY <1>15 DEF ReleaseManager, Goto, MembersTyped, ThreadsTyped, RomTyped, Control, Holding
  <2> QED
    BY <2>1, <2>2, <2>3
<1>16. ASSUME NEW m \in Manager, DropListener(m)
       PROVE  TypeOK' /\ Control'
  <2>1. GlobalsTyped' /\ RomTyped' /\ HistoryTyped'
    BY <1>16 DEF DropListener, GlobalsTyped, RomTyped, HistoryTyped, globalVars, romVars, histVars
  <2>2. ThreadsTyped' /\ Control'
    BY <1>16 DEF DropListener, Goto, ThreadsTyped, Control, Pc, WaitPc, Holding, Waiting
  <2>3. MembersTyped'
    BY <1>16 DEF DropListener, Goto, MembersTyped, ThreadsTyped, RomTyped, Control, Holding
  <2> QED
    BY <2>1, <2>2, <2>3
<1>17. ASSUME NEW m \in Manager, Purge(m)
       PROVE  TypeOK' /\ Control'
  <2>1. MembersTyped' /\ RomTyped' /\ HistoryTyped'
    BY <1>17 DEF Purge, MembersTyped, RomTyped, HistoryTyped, memberVars, romVars, histVars
  <2>2. ThreadsTyped' /\ Control'
    BY <1>17 DEF Purge, Goto, ThreadsTyped, Control, Pc, WaitPc, Holding, Waiting
  <2>3. GlobalsTyped'
    BY <1>17 DEF Purge, Goto, GlobalsTyped, Idle
  <2> QED
    BY <2>1, <2>2, <2>3
<1>18. ASSUME NEW m \in Manager, InitBegin(m)
       PROVE  TypeOK' /\ Control'
  <2>1. MembersTyped' /\ GlobalsTyped' /\ HistoryTyped'
    BY <1>18 DEF InitBegin, MembersTyped, GlobalsTyped, HistoryTyped, memberVars, globalVars, histVars
  <2>2. ThreadsTyped' /\ Control'
    <3>1. PICK l \in Legacy : local' = [local EXCEPT ![m] = l]
      BY <1>18 DEF InitBegin
    <3>2. /\ pc' = [pc EXCEPT ![m] = "load"] /\ op' = [op EXCEPT ![m] = "Init"]
          /\ UNCHANGED <<stamp, result, expired>> /\ m \in Thread /\ "load" \in Pc
      BY <1>18 DEF InitBegin, Goto, Pc
    <3>3. ThreadsTyped'
      BY <3>1, <3>2 DEF ThreadsTyped
    <3>4. Control'
      BY <3>1, <3>2 DEF ThreadsTyped, Control, Holding, Waiting, WaitPc
    <3> QED
      BY <3>3, <3>4
  <2>3. RomTyped'
    <3>1. PICK l \in Legacy, async \in BOOLEAN : NewLegacy(l, m, async)
      BY <1>18 DEF InitBegin
    <3>2. legacy' \in [Legacy -> [state : {"unused", "live", "destroyed"},
                                 owner : Manager \cup {None}, listener : BOOLEAN]]
      BY <3>1, NewLegacyTyped
    <3> QED
      BY <1>18, <3>2 DEF InitBegin, RomTyped
  <2> QED
    BY <2>1, <2>2, <2>3
<1>19. ASSUME NEW m \in Manager, RunAsync(m)
       PROVE  TypeOK' /\ Control'
  <2>1. ThreadsTyped' /\ MembersTyped' /\ HistoryTyped' /\ Control'
    BY <1>19 DEF RunAsync, SubmitRun, ThreadsTyped, MembersTyped, HistoryTyped, threadVars, memberVars, histVars, Control, Waiting
  <2>2. GlobalsTyped'
    BY <1>19 DEF RunAsync, SubmitRun, Register, GlobalsTyped, Idle, RomTyped, ThreadsTyped, Control, Holding
  <2>3. RomTyped'
    BY <1>19 DEF RunAsync, SubmitRun, Register, RomTyped, Kind, ThreadsTyped, Control, Holding
  <2> QED
    BY <2>1, <2>2, <2>3
<1>20. ASSUME NEW m \in Manager, RunAipp(m)
       PROVE  TypeOK' /\ Control'
  <2>1. ThreadsTyped' /\ MembersTyped' /\ HistoryTyped' /\ Control'
    BY <1>20 DEF RunAipp, SubmitRun, ThreadsTyped, MembersTyped, HistoryTyped, threadVars, memberVars, histVars, Control, Waiting
  <2>2. GlobalsTyped'
    BY <1>20 DEF RunAipp, SubmitRun, Register, GlobalsTyped, Idle, RomTyped, ThreadsTyped, Control, Holding
  <2>3. RomTyped'
    BY <1>20 DEF RunAipp, SubmitRun, Register, RomTyped, Kind, ThreadsTyped, Control, Holding
  <2> QED
    BY <2>1, <2>2, <2>3
<1>21. ASSUME NEW m \in Manager, NEW call \in {"DeInit", "Destroy"}, BeginDeInit(m, call)
       PROVE  TypeOK' /\ Control'
  <2>1. GlobalsTyped' /\ RomTyped' /\ HistoryTyped'
    BY <1>21 DEF BeginDeInit, GlobalsTyped, RomTyped, HistoryTyped, globalVars, romVars, histVars
  <2>2. ThreadsTyped' /\ Control'
    BY <1>21 DEF BeginDeInit, Goto, ThreadsTyped, Control, Pc, WaitPc, Holding, Waiting
  <2>3. MembersTyped'
    BY <1>21 DEF BeginDeInit, Goto, MembersTyped, ThreadsTyped, RomTyped, Control, Holding
  <2> QED
    BY <2>1, <2>2, <2>3
<1>22. ASSUME NEW r \in Reader, Query(r)
       PROVE  TypeOK' /\ Control'
  <2>1. MembersTyped' /\ GlobalsTyped' /\ HistoryTyped'
    BY <1>22 DEF Query, MembersTyped, GlobalsTyped, HistoryTyped, memberVars, globalVars, histVars
  <2>2. ThreadsTyped' /\ Control'
    <3>1. PICK l \in Legacy : local' = [local EXCEPT ![r] = l]
      BY <1>22 DEF Query, MembersTyped
    <3> QED
      BY <1>22, <3>1 DEF Query, Goto, ThreadsTyped, Control, Pc, WaitPc, Holding, Waiting
  <2>3. RomTyped'
    <3>1. CASE UNCHANGED legacy
      BY <1>22, <3>1 DEF Query, RomTyped
    <3>2. CASE \E l \in Legacy : NewLegacy(l, None, FALSE)
      <4>1. legacy' \in [Legacy -> [state : {"unused", "live", "destroyed"},
                                   owner : Manager \cup {None}, listener : BOOLEAN]]
        BY <3>2, NewLegacyTyped
      <4> QED
        BY <1>22, <4>1 DEF Query, RomTyped
    <3> QED
      BY <1>22, <3>1, <3>2 DEF Query
  <2> QED
    BY <2>1, <2>2, <2>3
<1>23. ASSUME NEW s \in Stamp, OnLoadDone(s)
       PROVE  TypeOK' /\ Control'
  <2>1. MembersTyped' /\ RomTyped'
    BY <1>23 DEF OnLoadDone, MembersTyped, RomTyped, memberVars, romVars
  <2>2. ThreadsTyped' /\ Control'
    BY <1>23 DEF OnLoadDone, NotifyAll, ThreadsTyped, Control, Pc, WaitPc, Holding, Waiting
  <2>3. GlobalsTyped'
    BY <1>23 DEF OnLoadDone, NotifyAll, GlobalsTyped, Idle
  <2>4. HistoryTyped'
    BY <1>23 DEF OnLoadDone, NotifyAll, HistoryTyped, GlobalsTyped
  <2> QED
    BY <2>1, <2>2, <2>3, <2>4
<1>24. ASSUME NEW s \in Stamp, OnUnloadDone(s)
       PROVE  TypeOK' /\ Control'
  <2>1. MembersTyped' /\ RomTyped' /\ HistoryTyped'
    BY <1>24 DEF OnUnloadDone, MembersTyped, RomTyped, HistoryTyped, memberVars, romVars, histVars
  <2>2. ThreadsTyped' /\ Control'
    BY <1>24 DEF OnUnloadDone, NotifyAll, ThreadsTyped, Control, Pc, WaitPc, Holding, Waiting
  <2>3. GlobalsTyped'
    BY <1>24 DEF OnUnloadDone, NotifyAll, GlobalsTyped, Idle
  <2> QED
    BY <2>1, <2>2, <2>3
<1>25. ASSUME NEW s \in Stamp, OnErrorHandshake(s)
       PROVE  TypeOK' /\ Control'
  <2>1. MembersTyped' /\ RomTyped' /\ HistoryTyped'
    BY <1>25 DEF OnErrorHandshake, MembersTyped, RomTyped, HistoryTyped, memberVars, romVars, histVars
  <2>2. ThreadsTyped' /\ Control'
    BY <1>25 DEF OnErrorHandshake, NotifyAll, ThreadsTyped, Control, Pc, WaitPc, Holding, Waiting
  <2>3. GlobalsTyped'
    BY <1>25 DEF OnErrorHandshake, NotifyAll, GlobalsTyped, Idle
  <2> QED
    BY <2>1, <2>2, <2>3
<1>26. ASSUME NEW s \in Stamp, RunAnswerBegin(s)
       PROVE  TypeOK' /\ Control'
  <2>1. ThreadsTyped' /\ MembersTyped' /\ RomTyped' /\ HistoryTyped' /\ Control'
    BY <1>26 DEF RunAnswerBegin, ThreadsTyped, MembersTyped, RomTyped, HistoryTyped, threadVars, memberVars, romVars, histVars, Control, Waiting
  <2>2. GlobalsTyped'
    BY <1>26 DEF RunAnswerBegin, GlobalsTyped, Idle
  <2> QED
    BY <2>1, <2>2
<1>27. ASSUME NEW l \in Legacy, ServiceDiedBegin(l)
       PROVE  TypeOK' /\ Control'
  <2>1. ThreadsTyped' /\ MembersTyped' /\ HistoryTyped' /\ Control'
    BY <1>27 DEF ServiceDiedBegin, ThreadsTyped, MembersTyped, HistoryTyped, threadVars, memberVars, histVars, Control, Waiting
  <2>2. GlobalsTyped'
    BY <1>27 DEF ServiceDiedBegin, GlobalsTyped, Idle
  <2>3. RomTyped'
    <3>1. deaths' \in 0 .. MaxDeath
      BY <1>27, DeathsTyped
    <3> QED
      BY <1>27, <3>1 DEF ServiceDiedBegin, RomTyped
  <2> QED
    BY <2>1, <2>2, <2>3
<1>28. CASE RunAnswerEnd
  <2>1. ThreadsTyped' /\ MembersTyped' /\ RomTyped' /\ Control'
    BY <1>28 DEF RunAnswerEnd, ThreadsTyped, MembersTyped, RomTyped, threadVars, memberVars, romVars, Control, Waiting
  <2>2. GlobalsTyped'
    BY <1>28 DEF RunAnswerEnd, Erase, GlobalsTyped, Idle
  <2>3. HistoryTyped'
    <3>1. handler.at \in Stamp
      BY <1>28, HandlerTyped DEF RunAnswerEnd
    <3> QED
      BY <1>28, <3>1 DEF RunAnswerEnd, HistoryTyped
  <2> QED
    BY <2>1, <2>2, <2>3
<1>29. CASE ServiceDiedClear
  <2>1. ThreadsTyped' /\ MembersTyped' /\ RomTyped' /\ HistoryTyped' /\ Control'
    BY <1>29 DEF ServiceDiedClear, ThreadsTyped, MembersTyped, RomTyped, HistoryTyped, threadVars, memberVars, romVars, histVars, Control, Waiting
  <2>2. GlobalsTyped'
    BY <1>29 DEF ServiceDiedClear, GlobalsTyped, Idle
  <2> QED
    BY <2>1, <2>2
<1>30. ASSUME NEW s \in Stamp, ServiceDiedVisit(s)
       PROVE  TypeOK' /\ Control'
  <2>1. ThreadsTyped' /\ MembersTyped' /\ RomTyped' /\ Control'
    BY <1>30 DEF ServiceDiedVisit, ThreadsTyped, MembersTyped, RomTyped, threadVars, memberVars, romVars, Control, Waiting
  <2>2. GlobalsTyped'
    BY <1>30 DEF ServiceDiedVisit, AtEntry, GlobalsTyped, Idle
  <2>3. HistoryTyped'
    BY <1>30 DEF ServiceDiedVisit, AtEntry, HistoryTyped, GlobalsTyped
  <2> QED
    BY <2>1, <2>2, <2>3
<1>31. ASSUME NEW s \in Stamp, ServiceDiedReturn(s)
       PROVE  TypeOK' /\ Control'
  <2>1. ThreadsTyped' /\ MembersTyped' /\ RomTyped' /\ HistoryTyped' /\ Control'
    BY <1>31 DEF ServiceDiedReturn, ThreadsTyped, MembersTyped, RomTyped, HistoryTyped, threadVars, memberVars, romVars, histVars, Control, Waiting
  <2>2. GlobalsTyped'
    BY <1>31 DEF ServiceDiedReturn, GlobalsTyped, Idle
  <2> QED
    BY <2>1, <2>2
<1>32. ASSUME NEW s \in Stamp, ServiceDiedDangling(s)
       PROVE  TypeOK' /\ Control'
  <2>1. ThreadsTyped' /\ MembersTyped' /\ RomTyped' /\ HistoryTyped' /\ Control'
    BY <1>32 DEF ServiceDiedDangling, ThreadsTyped, MembersTyped, RomTyped, HistoryTyped, threadVars, memberVars, romVars, histVars, Control, Waiting
  <2>2. GlobalsTyped'
    BY <1>32 DEF ServiceDiedDangling, AtEntry, GlobalsTyped, Idle
  <2> QED
    BY <2>1, <2>2
<1>33. CASE UNCHANGED vars
  BY <1>33 DEF vars, threadVars, memberVars, globalVars, romVars, histVars, ThreadsTyped,
     MembersTyped, GlobalsTyped, RomTyped, HistoryTyped, Control, Waiting
<1> QED
  BY <1>1, <1>2, <1>3, <1>4, <1>5, <1>6, <1>7, <1>8, <1>9, <1>10, <1>11, <1>12, <1>13, <1>14, <1>15, <1>16, <1>17, <1>18, <1>19, <1>20, <1>21, <1>22, <1>23, <1>24, <1>25, <1>26, <1>27, <1>28, <1>29, <1>30, <1>31, <1>32, <1>33
  DEF Next, InCall, Deleter, WaitFor, Call, Answer, InCallback, Terminated

\* Every variable keeps its type, for any number of objects, readers, models,
\* legacy managers, stamps and service deaths.
THEOREM TypeCorrect == Spec => []TypeOK
<1>1. Init => TypeOK /\ Control
  BY InitTyped
<1>2. TypeOK /\ Control /\ [Next]_vars => (TypeOK /\ Control)'
  BY StepTyped
<1> QED
  BY <1>1, <1>2, PTL DEF Spec


-----------------------------------------------------------------------------
(***************************************************************************)
(* Safety of the callback table, that the table implements the ledger of   *)
(* runs of RunLedger, and who owns the legacy managers: objects, threads   *)
(* and the container that lends them to queries.                           *)
(***************************************************************************)

\* No entry waits at a stamp that was not given out.
FreshEmpty == \A s \in Stamp : s >= nextStamp => ~InMap(s)

\* A thread waits for a stamp that was given out.
WaitedIssued == \A p \in Thread : Waiting(p) => stamp[p] < nextStamp

\* From the last step of DeInit to the end of the destructor no listener is set.
Quiet == \A m \in Manager : pc[m] \in {"purge", "gone"} => ~userListener[m]

\* The entry of a reported run is erased for good.
ReportedGone == \A s \in completed : s < nextStamp /\ ~InMap(s)

\* A ROM manager that is referred to was created.
HeldUsed ==
  /\ \A p \in Thread : pc[p] \in Holding => legacy[local[p]].state # "unused"
  /\ \A m \in Manager : manager[m] # None => legacy[manager[m]].state # "unused"
  /\ \A b \in BuiltModel :
       modelManagerMap[b] # None => legacy[modelManagerMap[b]].state # "unused"

\* Only onLoadDone records success in the entry of a load.
Answers ==
  \A s \in Stamp : issued[s].kind = "load" /\ callBackMap[s].result => s \in loaded

\* InitAsync's `result` is set only between the wait and the return.
Results ==
  \A p \in Thread : result[p] => /\ pc[p] = "erase"
                                 /\ Pair(p) = "load" => stamp[p] \in loaded

LEMMA NextStampNat == TypeOK => nextStamp \in Nat /\ \A s \in Stamp : s \in Nat
  BY Bounds DEF TypeOK, RomTyped, Stamp

\* A new request only fills the entry of the stamp it was given.
LEMMA RegisterFresh ==
  ASSUME TypeOK, FreshEmpty, NEW owner, NEW kind, Register(owner, kind)
  PROVE  FreshEmpty'
<1>1. callBackMap \in [Stamp -> Entry] /\ nextStamp \in Nat /\ Stamp \subseteq Nat
  BY NextStampNat DEF TypeOK, GlobalsTyped
<1>2. nextStamp' = nextStamp + 1
  BY DEF Register
<1>3. ASSUME NEW s \in Stamp, s # nextStamp
      PROVE  callBackMap'[s] = callBackMap[s]
  BY <1>1, <1>3 DEF Register
<1>4. ASSUME NEW s \in Stamp, s >= nextStamp'
      PROVE  ~InMap(s)'
  <2>1. s >= nextStamp /\ s # nextStamp
    BY <1>1, <1>2, <1>4
  <2> QED
    BY <1>3, <2>1 DEF FreshEmpty, InMap, NoEntry
<1> QED
  BY <1>4 DEF FreshEmpty

LEMMA FreshStep ==
  TypeOK /\ Control /\ FreshEmpty /\ [Next]_vars => FreshEmpty'
<1> SUFFICES ASSUME TypeOK, Control, FreshEmpty, [Next]_vars
             PROVE  FreshEmpty'
  OBVIOUS
<1>0. /\ pc \in [Thread -> Pc] /\ stamp \in [Thread -> 0 .. MaxStamp]
      /\ userListener \in [Manager -> BOOLEAN] /\ callBackMap \in [Stamp -> Entry]
      /\ nextStamp \in Nat /\ Manager \subseteq Thread /\ Reader \subseteq Thread
  BY NextStampNat, Sets DEF TypeOK, ThreadsTyped, MembersTyped, GlobalsTyped
<1>1. ASSUME NEW p \in Thread, Deleter(p)
      PROVE  FreshEmpty'
  <2>1. CASE DropLocal(p)
    BY <1>0, <2>1 DEF DropLocal, Goto, memberVars, globalVars, romVars, histVars,
     FreshEmpty, InMap, NoEntry
  <2>2. CASE UnloadSync(p)
    BY <1>0, <2>2 DEF UnloadSync, Goto, memberVars, globalVars, romVars, histVars,
     FreshEmpty, InMap, NoEntry
  <2>3. CASE UnloadAsync(p)
    BY <2>3, RegisterFresh DEF UnloadAsync
  <2>4. CASE UnloadRefused(p)
    BY <1>0, <2>4 DEF UnloadRefused, Goto, memberVars, globalVars, romVars,
     histVars, FreshEmpty, InMap, NoEntry
  <2>5. CASE DestroyLegacy(p)
    BY <1>0, <2>5 DEF DestroyLegacy, UnusedLegacy, Goto, memberVars, globalVars,
     histVars, FreshEmpty, InMap, NoEntry
  <2> QED
    BY <1>1, <2>1, <2>2, <2>3, <2>4, <2>5 DEF Deleter
<1>2. ASSUME NEW p \in Thread, WaitFor(p)
      PROVE  FreshEmpty'
  BY <1>0, <1>2 DEF WaitFor, LockMutex, Goto, memberVars, romVars, histVars,
     CheckPredicate, Responded, globalVars, Block, Timeout, EndWait, Erase,
     FreshEmpty, InMap, NoEntry
<1>3. ASSUME NEW m \in Manager, LoadSync(m) \/ LoadAsync(m) \/ LoadRefused(m) \/ InitDone(m)
      PROVE  FreshEmpty'
  <2>1. CASE LoadSync(m)
    BY <1>0, <2>1 DEF LoadSync, Goto, memberVars, globalVars, romVars, histVars,
     FreshEmpty, InMap, NoEntry
  <2>2. CASE LoadAsync(m)
    BY <2>2, RegisterFresh DEF LoadAsync
  <2>3. CASE LoadRefused(m)
    BY <1>0, <2>3 DEF LoadRefused, Goto, memberVars, globalVars, romVars, histVars,
     FreshEmpty, InMap, NoEntry
  <2>4. CASE InitDone(m)
    BY <1>0, <2>4 DEF InitDone, Goto, globalVars, romVars, histVars, FreshEmpty,
     InMap, NoEntry
  <2> QED
    BY <1>3, <2>1, <2>2, <2>3, <2>4
<1>4. ASSUME NEW m \in Manager, ReleaseManager(m) \/ DropListener(m) \/ Purge(m)
      PROVE  FreshEmpty'
  BY <1>0, <1>4 DEF ReleaseManager, Goto, globalVars, romVars, histVars,
     DropListener, Purge, memberVars, FreshEmpty, InMap, NoEntry
<1>5. ASSUME NEW m \in Manager, Call(m)
      PROVE  FreshEmpty'
  <2>1. CASE InitBegin(m)
    BY <1>0, <2>1 DEF InitBegin, NewLegacy, Goto, memberVars, globalVars, histVars,
     FreshEmpty, InMap, NoEntry
  <2>2. CASE RunAsync(m)
    BY <2>2, RegisterFresh DEF RunAsync, SubmitRun
  <2>3. CASE RunAipp(m)
    BY <2>3, RegisterFresh DEF RunAipp, SubmitRun
  <2>4. CASE BeginDeInit(m, "DeInit") \/ BeginDeInit(m, "Destroy")
    BY <1>0, <2>4 DEF BeginDeInit, Goto, globalVars, romVars, histVars, FreshEmpty,
     InMap, NoEntry
  <2> QED
    BY <1>5, <2>1, <2>2, <2>3, <2>4 DEF Call
<1>6. ASSUME NEW r \in Reader, Query(r)
      PROVE  FreshEmpty'
  BY <1>0, <1>6 DEF Query, NewLegacy, Goto, memberVars, globalVars, histVars,
     FreshEmpty, InMap, NoEntry
<1>7. ASSUME NEW s \in Stamp, Answer(s)
      PROVE  FreshEmpty'
  BY <1>0, <1>7 DEF Answer, OnLoadDone, NotifyAll, memberVars, romVars,
     OnUnloadDone, histVars, OnErrorHandshake, RunAnswerBegin, threadVars,
     FreshEmpty, InMap, NoEntry
<1>8. ASSUME NEW l \in Legacy, ServiceDiedBegin(l)
      PROVE  FreshEmpty'
  BY <1>0, <1>8 DEF ServiceDiedBegin, threadVars, memberVars, histVars, FreshEmpty,
     InMap, NoEntry
<1>9. CASE InCallback
  BY <1>0, <1>9 DEF InCallback, RunAnswerEnd, Erase, threadVars, memberVars,
     romVars, ServiceDiedClear, histVars, ServiceDiedVisit, AtEntry,
     ServiceDiedReturn, ServiceDiedDangling, FreshEmpty, InMap, NoEntry
<1>10. CASE UNCHANGED vars
  BY <1>10 DEF vars, threadVars, memberVars, globalVars,
     romVars, histVars, FreshEmpty, InMap, NoEntry
<1> QED
  BY <1>1, <1>2, <1>3, <1>4, <1>5, <1>6, <1>7, <1>8, <1>9, <1>10 DEF Next, InCall, Terminated

LEMMA WaitedStep ==
  TypeOK /\ Control /\ WaitedIssued /\ [Next]_vars => WaitedIssued'
<1> SUFFICES ASSUME TypeOK, Control, WaitedIssued, [Next]_vars
             PROVE  WaitedIssued'
  OBVIOUS
<1>0. /\ pc \in [Thread -> Pc] /\ stamp \in [Thread -> 0 .. MaxStamp]
      /\ userListener \in [Manager -> BOOLEAN] /\ callBackMap \in [Stamp -> Entry]
      /\ nextStamp \in Nat /\ Manager \subseteq Thread /\ Reader \subseteq Thread
  BY NextStampNat, Sets DEF TypeOK, ThreadsTyped, MembersTyped, GlobalsTyped
<1>1. ASSUME NEW p \in Thread, Deleter(p)
      PROVE  WaitedIssued'
  BY <1>0, <1>1 DEF Deleter, DropLocal, Goto, memberVars, globalVars, romVars,
     histVars, UnloadSync, UnloadAsync, Register, UnloadRefused, DestroyLegacy,
     UnusedLegacy, WaitedIssued, Waiting, WaitPc
<1>2. ASSUME NEW p \in Thread, WaitFor(p)
      PROVE  WaitedIssued'
  BY <1>0, <1>2 DEF WaitFor, LockMutex, Goto, memberVars, romVars, histVars,
     CheckPredicate, Responded, globalVars, Block, Timeout, EndWait, Erase,
     WaitedIssued, Waiting, WaitPc
<1>3. ASSUME NEW m \in Manager, LoadSync(m) \/ LoadAsync(m) \/ LoadRefused(m) \/ InitDone(m)
      PROVE  WaitedIssued'
  BY <1>0, <1>3 DEF LoadSync, Goto, memberVars, globalVars, romVars, histVars,
     LoadAsync, Register, LoadRefused, InitDone, WaitedIssued, Waiting, WaitPc
<1>4. ASSUME NEW m \in Manager, ReleaseManager(m) \/ DropListener(m) \/ Purge(m)
      PROVE  WaitedIssued'
  BY <1>0, <1>4 DEF ReleaseManager, Goto, globalVars, romVars, histVars,
     DropListener, Purge, memberVars, WaitedIssued, Waiting, WaitPc
<1>5. ASSUME NEW m \in Manager, Call(m)
      PROVE  WaitedIssued'
  BY <1>0, <1>5 DEF Call, InitBegin, NewLegacy, Goto, memberVars, globalVars,
     histVars, RunAsync, SubmitRun, Register, threadVars, RunAipp, BeginDeInit,
     romVars, WaitedIssued, Waiting, WaitPc
<1>6. ASSUME NEW r \in Reader, Query(r)
      PROVE  WaitedIssued'
  BY <1>0, <1>6 DEF Query, NewLegacy, Goto, memberVars, globalVars, histVars,
     WaitedIssued, Waiting, WaitPc
<1>7. ASSUME NEW s \in Stamp, Answer(s)
      PROVE  WaitedIssued'
  BY <1>0, <1>7 DEF Answer, OnLoadDone, NotifyAll, memberVars, romVars,
     OnUnloadDone, histVars, OnErrorHandshake, RunAnswerBegin, threadVars,
     WaitedIssued, Waiting, WaitPc
<1>8. ASSUME NEW l \in Legacy, ServiceDiedBegin(l)
      PROVE  WaitedIssued'
  BY <1>0, <1>8 DEF ServiceDiedBegin, threadVars, memberVars, histVars,
     WaitedIssued, Waiting, WaitPc
<1>9. CASE InCallback
  BY <1>0, <1>9 DEF InCallback, RunAnswerEnd, Erase, threadVars, memberVars,
     romVars, ServiceDiedClear, histVars, ServiceDiedVisit, AtEntry,
     ServiceDiedReturn, ServiceDiedDangling, WaitedIssued, Waiting, WaitPc
<1>10. CASE UNCHANGED vars
  BY <1>10 DEF vars, threadVars, memberVars, globalVars,
     romVars, histVars, WaitedIssued, Waiting, WaitPc
<1> QED
  BY <1>1, <1>2, <1>3, <1>4, <1>5, <1>6, <1>7, <1>8, <1>9, <1>10 DEF Next, InCall, Terminated

LEMMA HandshakeStep ==
  TypeOK /\ Control /\ FreshEmpty /\ WaitedIssued /\ HandshakeAwaited /\ [Next]_vars => HandshakeAwaited'
<1> SUFFICES ASSUME TypeOK, Control, FreshEmpty, WaitedIssued, HandshakeAwaited, [Next]_vars
             PROVE  HandshakeAwaited'
  OBVIOUS
<1>0. /\ pc \in [Thread -> Pc] /\ stamp \in [Thread -> 0 .. MaxStamp]
      /\ userListener \in [Manager -> BOOLEAN] /\ callBackMap \in [Stamp -> Entry]
      /\ nextStamp \in Nat /\ Manager \subseteq Thread /\ Reader \subseteq Thread
  BY NextStampNat, Sets DEF TypeOK, ThreadsTyped, MembersTyped, GlobalsTyped
<1>1. ASSUME NEW p \in Thread, Deleter(p)
      PROVE  HandshakeAwaited'
  BY <1>0, <1>1 DEF Deleter, DropLocal, Goto, memberVars, globalVars, romVars,
     histVars, UnloadSync, UnloadAsync, Register, UnloadRefused, DestroyLegacy,
     UnusedLegacy, WaitedIssued, HandshakeAwaited, InMap, Waiting, WaitPc, NoEntry,
     NewEntry
<1>2. ASSUME NEW p \in Thread, WaitFor(p)
      PROVE  HandshakeAwaited'
  BY <1>0, <1>2 DEF WaitFor, LockMutex, Goto, memberVars, romVars, histVars,
     CheckPredicate, Responded, globalVars, Block, Timeout, EndWait, Erase,
     WaitedIssued, HandshakeAwaited, InMap, Waiting, WaitPc, NoEntry, NewEntry
<1>3. ASSUME NEW m \in Manager, LoadSync(m) \/ LoadAsync(m) \/ LoadRefused(m) \/ InitDone(m)
      PROVE  HandshakeAwaited'
  BY <1>0, <1>3 DEF LoadSync, Goto, memberVars, globalVars, romVars, histVars,
     LoadAsync, Register, LoadRefused, InitDone, WaitedIssued, HandshakeAwaited,
     InMap, Waiting, WaitPc, NoEntry, NewEntry
<1>4. ASSUME NEW m \in Manager, ReleaseManager(m) \/ DropListener(m) \/ Purge(m)
      PROVE  HandshakeAwaited'
  BY <1>0, <1>4 DEF ReleaseManager, Goto, globalVars, romVars, histVars,
     DropListener, Purge, memberVars, WaitedIssued, HandshakeAwaited, InMap,
     Waiting, WaitPc, NoEntry, NewEntry
<1>5. ASSUME NEW m \in Manager, Call(m)
      PROVE  HandshakeAwaited'
  <2>1. CASE InitBegin(m)
    BY <1>0, <2>1 DEF InitBegin, NewLegacy, Goto, memberVars, globalVars, histVars,
     WaitedIssued, HandshakeAwaited, InMap, Waiting, WaitPc, NoEntry, NewEntry
  <2>2. CASE RunAsync(m)
    BY <1>0, <2>2 DEF RunAsync, SubmitRun, Register, threadVars, memberVars,
     histVars, WaitedIssued, HandshakeAwaited, InMap, Waiting, WaitPc, NoEntry,
     NewEntry
  <2>3. CASE RunAipp(m)
    BY <1>0, <2>3 DEF RunAipp, SubmitRun, Register, threadVars, memberVars,
     histVars, WaitedIssued, HandshakeAwaited, InMap, Waiting, WaitPc, NoEntry,
     NewEntry
  <2>4. CASE BeginDeInit(m, "DeInit") \/ BeginDeInit(m, "Destroy")
    BY <1>0, <2>4 DEF BeginDeInit, Goto, globalVars, romVars, histVars,
     WaitedIssued, HandshakeAwaited, InMap, Waiting, WaitPc, NoEntry, NewEntry
  <2> QED
    BY <1>5, <2>1, <2>2, <2>3, <2>4 DEF Call
<1>6. ASSUME NEW r \in Reader, Query(r)
      PROVE  HandshakeAwaited'
  BY <1>0, <1>6 DEF Query, NewLegacy, Goto, memberVars, globalVars, histVars,
     WaitedIssued, HandshakeAwaited, InMap, Waiting, WaitPc, NoEntry, NewEntry
<1>7. ASSUME NEW s \in Stamp, Answer(s)
      PROVE  HandshakeAwaited'
  <2>1. CASE OnLoadDone(s)
    BY <1>0, <2>1 DEF OnLoadDone, NotifyAll, memberVars, romVars, WaitedIssued,
     HandshakeAwaited, InMap, Waiting, WaitPc, NoEntry, NewEntry
  <2>2. CASE OnUnloadDone(s)
    BY <1>0, <2>2 DEF OnUnloadDone, NotifyAll, memberVars, romVars, histVars,
     WaitedIssued, HandshakeAwaited, InMap, Waiting, WaitPc, NoEntry, NewEntry
  <2>3. CASE OnErrorHandshake(s)
    BY <1>0, <2>3 DEF OnErrorHandshake, NotifyAll, memberVars, romVars, histVars,
     WaitedIssued, HandshakeAwaited, InMap, Waiting, WaitPc, NoEntry, NewEntry
  <2>4. CASE RunAnswerBegin(s)
    BY <1>0, <2>4 DEF RunAnswerBegin, threadVars, memberVars, romVars, histVars,
     WaitedIssued, HandshakeAwaited, InMap, Waiting, WaitPc, NoEntry, NewEntry
  <2> QED
    BY <1>7, <2>1, <2>2, <2>3, <2>4 DEF Answer
<1>8. ASSUME NEW l \in Legacy, ServiceDiedBegin(l)
      PROVE  HandshakeAwaited'
  BY <1>0, <1>8 DEF ServiceDiedBegin, threadVars, memberVars, histVars,
     WaitedIssued, HandshakeAwaited, InMap, Waiting, WaitPc, NoEntry, NewEntry
<1>9. CASE InCallback
  BY <1>0, <1>9 DEF InCallback, RunAnswerEnd, Erase, threadVars, memberVars,
     romVars, ServiceDiedClear, histVars, ServiceDiedVisit, AtEntry,
     ServiceDiedReturn, ServiceDiedDangling, WaitedIssued, HandshakeAwaited, InMap,
     Waiting, WaitPc, NoEntry, NewEntry
<1>10. CASE UNCHANGED vars
  BY <1>10 DEF vars, threadVars, memberVars, globalVars,
     romVars, histVars, WaitedIssued, HandshakeAwaited, InMap, Waiting, WaitPc,
     NoEntry, NewEntry
<1> QED
  BY <1>1, <1>2, <1>3, <1>4, <1>5, <1>6, <1>7, <1>8, <1>9, <1>10 DEF Next, InCall, Terminated

LEMMA QuietStep ==
  TypeOK /\ Control /\ Quiet /\ [Next]_vars => Quiet'
<1> SUFFICES ASSUME TypeOK, Control, Quiet, [Next]_vars
             PROVE  Quiet'
  OBVIOUS
<1>0. /\ pc \in [Thread -> Pc] /\ stamp \in [Thread -> 0 .. MaxStamp]
      /\ userListener \in [Manager -> BOOLEAN] /\ callBackMap \in [Stamp -> Entry]
      /\ nextStamp \in Nat /\ Manager \subseteq Thread /\ Reader \subseteq Thread
  BY NextStampNat, Sets DEF TypeOK, ThreadsTyped, MembersTyped, GlobalsTyped
<1>1. ASSUME NEW p \in Thread, Deleter(p)
      PROVE  Quiet'
  BY <1>0, <1>1 DEF Deleter, DropLocal, Goto, memberVars, globalVars, romVars,
     histVars, UnloadSync, UnloadAsync, Register, UnloadRefused, DestroyLegacy,
     UnusedLegacy, Quiet
<1>2. ASSUME NEW p \in Thread, WaitFor(p)
      PROVE  Quiet'
  BY <1>0, <1>2 DEF WaitFor, LockMutex, Goto, memberVars, romVars, histVars,
     CheckPredicate, Responded, globalVars, Block, Timeout, EndWait, Erase, Quiet
<1>3. ASSUME NEW m \in Manager, LoadSync(m) \/ LoadAsync(m) \/ LoadRefused(m) \/ InitDone(m)
      PROVE  Quiet'
  BY <1>0, <1>3 DEF LoadSync, Goto, memberVars, globalVars, romVars, histVars,
     LoadAsync, Register, LoadRefused, InitDone, Quiet
<1>4. ASSUME NEW m \in Manager, ReleaseManager(m) \/ DropListener(m) \/ Purge(m)
      PROVE  Quiet'
  BY <1>0, <1>4 DEF ReleaseManager, Goto, globalVars, romVars, histVars,
     DropListener, Purge, memberVars, Quiet
<1>5. ASSUME NEW m \in Manager, Call(m)
      PROVE  Quiet'
  BY <1>0, <1>5 DEF Call, InitBegin, NewLegacy, Goto, memberVars, globalVars,
     histVars, RunAsync, SubmitRun, Register, threadVars, RunAipp, BeginDeInit,
     romVars, Quiet
<1>6. ASSUME NEW r \in Reader, Query(r)
      PROVE  Quiet'
  BY <1>0, <1>6 DEF Query, NewLegacy, Goto, memberVars, globalVars, histVars, Quiet
<1>7. ASSUME NEW s \in Stamp, Answer(s)
      PROVE  Quiet'
  BY <1>0, <1>7 DEF Answer, OnLoadDone, NotifyAll, memberVars, romVars,
     OnUnloadDone, histVars, OnErrorHandshake, RunAnswerBegin, threadVars, Quiet
<1>8. ASSUME NEW l \in Legacy, ServiceDiedBegin(l)
      PROVE  Quiet'
  BY <1>0, <1>8 DEF ServiceDiedBegin, threadVars, memberVars, histVars, Quiet
<1>9. CASE InCallback
  BY <1>0, <1>9 DEF InCallback, RunAnswerEnd, Erase, threadVars, memberVars,
     romVars, ServiceDiedClear, histVars, ServiceDiedVisit, AtEntry,
     ServiceDiedReturn, ServiceDiedDangling, Quiet
<1>10. CASE UNCHANGED vars
  BY <1>10 DEF vars, threadVars, memberVars, globalVars,
     romVars, histVars, Quiet
<1> QED
  BY <1>1, <1>2, <1>3, <1>4, <1>5, <1>6, <1>7, <1>8, <1>9, <1>10 DEF Next, InCall, Terminated

LEMMA NoAnswerStep ==
  TypeOK /\ Control /\ Quiet /\ NoAnswerAfterDestroy /\ [Next]_vars => NoAnswerAfterDestroy'
<1> SUFFICES ASSUME TypeOK, Control, Quiet, NoAnswerAfterDestroy, [Next]_vars
             PROVE  NoAnswerAfterDestroy'
  OBVIOUS
<1>0. /\ pc \in [Thread -> Pc] /\ Manager \subseteq Thread /\ Reader \subseteq Thread
      /\ callBackMap \in [Stamp -> Entry] /\ nextStamp \in Nat
      /\ \A s \in Stamp : callBackMap[s].modelMgr \in Manager \cup {None}
      /\ handler.kind = "run" => handler.at \in Stamp
  BY NextStampNat, HandlerTyped, Sets DEF TypeOK, ThreadsTyped, GlobalsTyped, Entry
<1>1. ASSUME NEW p \in Thread, Deleter(p)
      PROVE  NoAnswerAfterDestroy'
  BY <1>0, <1>1 DEF Deleter, DropLocal, Goto, memberVars, globalVars, romVars,
     histVars, UnloadSync, UnloadAsync, Register, UnloadRefused, DestroyLegacy,
     UnusedLegacy, NoAnswerAfterDestroy, Quiet, InMap, Idle, CallBackLockFree
<1>2. ASSUME NEW p \in Thread, WaitFor(p)
      PROVE  NoAnswerAfterDestroy'
  BY <1>0, <1>2 DEF WaitFor, LockMutex, Goto, memberVars, romVars, histVars,
     CheckPredicate, Responded, globalVars, Block, Timeout, EndWait, Erase,
     NoAnswerAfterDestroy, Quiet, InMap, Idle, CallBackLockFree
<1>3. ASSUME NEW m \in Manager, LoadSync(m) \/ LoadAsync(m) \/ LoadRefused(m) \/ InitDone(m)
      PROVE  NoAnswerAfterDestroy'
  BY <1>0, <1>3 DEF LoadSync, Goto, memberVars, globalVars, romVars, histVars,
     LoadAsync, Register, LoadRefused, InitDone, NoAnswerAfterDestroy, Quiet, InMap,
     Idle, CallBackLockFree
<1>4. ASSUME NEW m \in Manager, ReleaseManager(m) \/ DropListener(m) \/ Purge(m)
      PROVE  NoAnswerAfterDestroy'
  BY <1>0, <1>4 DEF ReleaseManager, Goto, globalVars, romVars, histVars,
     DropListener, Purge, memberVars, NoAnswerAfterDestroy, Quiet, InMap, Idle,
     CallBackLockFree
<1>5. ASSUME NEW m \in Manager, Call(m)
      PROVE  NoAnswerAfterDestroy'
  BY <1>0, <1>5 DEF Call, InitBegin, NewLegacy, Goto, memberVars, globalVars,
     histVars, RunAsync, SubmitRun, Register, threadVars, RunAipp, BeginDeInit,
     romVars, NoAnswerAfterDestroy, Quiet, InMap, Idle, CallBackLockFree
<1>6. ASSUME NEW r \in Reader, Query(r)
      PROVE  NoAnswerAfterDestroy'
  BY <1>0, <1>6 DEF Query, NewLegacy, Goto, memberVars, globalVars, histVars,
     NoAnswerAfterDestroy, Quiet, InMap, Idle, CallBackLockFree
<1>7. ASSUME NEW s \in Stamp, Answer(s)
      PROVE  NoAnswerAfterDestroy'
  BY <1>0, <1>7 DEF Answer, OnLoadDone, NotifyAll, memberVars, romVars,
     OnUnloadDone, histVars, OnErrorHandshake, RunAnswerBegin, threadVars,
     NoAnswerAfterDestroy, Quiet, InMap, Idle, CallBackLockFree
<1>8. ASSUME NEW l \in Legacy, ServiceDiedBegin(l)
      PROVE  NoAnswerAfterDestroy'
  BY <1>0, <1>8 DEF ServiceDiedBegin, threadVars, memberVars, histVars,
     NoAnswerAfterDestroy, Quiet, InMap, Idle, CallBackLockFree
<1>9. CASE InCallback
  <2>1. CASE RunAnswerEnd
    BY <1>0, <2>1 DEF RunAnswerEnd, Erase, threadVars, memberVars, romVars,
     NoAnswerAfterDestroy, Quiet, InMap, Idle, CallBackLockFree
  <2>2. CASE ServiceDiedClear
    BY <1>0, <2>2 DEF ServiceDiedClear, threadVars, memberVars, romVars, histVars,
     NoAnswerAfterDestroy, Quiet, InMap, Idle, CallBackLockFree
  <2>3. ASSUME NEW s \in Stamp, ServiceDiedVisit(s)
      PROVE  NoAnswerAfterDestroy'
    BY <1>0, <2>3 DEF ServiceDiedVisit, AtEntry, threadVars, memberVars, romVars,
     NoAnswerAfterDestroy, Quiet, InMap, Idle, CallBackLockFree
  <2>4. ASSUME NEW s \in Stamp, ServiceDiedReturn(s)
      PROVE  NoAnswerAfterDestroy'
    BY <1>0, <2>4 DEF ServiceDiedReturn, threadVars, memberVars, romVars, histVars,
     NoAnswerAfterDestroy, Quiet, InMap, Idle, CallBackLockFree
  <2>5. ASSUME NEW s \in Stamp, ServiceDiedDangling(s)
      PROVE  NoAnswerAfterDestroy'
    BY <1>0, <2>5 DEF ServiceDiedDangling, AtEntry, threadVars, memberVars, romVars,
     histVars, NoAnswerAfterDestroy, Quiet, InMap, Idle, CallBackLockFree
  <2> QED
    BY <1>9, <2>1, <2>2, <2>3, <2>4, <2>5 DEF InCallback
<1>10. CASE UNCHANGED vars
  BY <1>10 DEF vars, threadVars, memberVars, globalVars,
     romVars, histVars, NoAnswerAfterDestroy, Quiet, InMap, Idle, CallBackLockFree
<1> QED
  BY <1>1, <1>2, <1>3, <1>4, <1>5, <1>6, <1>7, <1>8, <1>9, <1>10 DEF Next, InCall, Terminated

LEMMA ReportedGoneStep ==
  TypeOK /\ FreshEmpty /\ NoAnswerAfterDestroy /\ ReportedGone /\ [Next]_vars => ReportedGone'
<1> SUFFICES ASSUME TypeOK, FreshEmpty, NoAnswerAfterDestroy, ReportedGone, [Next]_vars
             PROVE  ReportedGone'
  OBVIOUS
<1>0. /\ callBackMap \in [Stamp -> Entry] /\ nextStamp \in Nat
      /\ completed \subseteq Stamp /\ \A s \in Stamp : s \in Nat
      /\ handler.kind = "run" => handler.at \in Stamp
  BY NextStampNat, HandlerTyped DEF TypeOK, HistoryTyped, GlobalsTyped
<1>1. ASSUME NEW p \in Thread, Deleter(p)
      PROVE  ReportedGone'
  BY <1>0, <1>1 DEF Deleter, DropLocal, Goto, memberVars, globalVars, romVars,
     histVars, UnloadSync, UnloadAsync, Register, UnloadRefused, DestroyLegacy,
     UnusedLegacy, ReportedGone, FreshEmpty, NoAnswerAfterDestroy, InMap, NoEntry
<1>2. ASSUME NEW p \in Thread, WaitFor(p)
      PROVE  ReportedGone'
  BY <1>0, <1>2 DEF WaitFor, LockMutex, Goto, memberVars, romVars, histVars,
     CheckPredicate, Responded, globalVars, Block, Timeout, EndWait, Erase,
     ReportedGone, FreshEmpty, NoAnswerAfterDestroy, InMap, NoEntry
<1>3. ASSUME NEW m \in Manager, LoadSync(m) \/ LoadAsync(m) \/ LoadRefused(m) \/ InitDone(m)
      PROVE  ReportedGone'
  BY <1>0, <1>3 DEF LoadSync, Goto, memberVars, globalVars, romVars, histVars,
     LoadAsync, Register, LoadRefused, InitDone, ReportedGone, FreshEmpty,
     NoAnswerAfterDestroy, InMap, NoEntry
<1>4. ASSUME NEW m \in Manager, ReleaseManager(m) \/ DropListener(m) \/ Purge(m)
      PROVE  ReportedGone'
  BY <1>0, <1>4 DEF ReleaseManager, Goto, globalVars, romVars, histVars,
     DropListener, Purge, memberVars, ReportedGone, FreshEmpty,
     NoAnswerAfterDestroy, InMap, NoEntry
<1>5. ASSUME NEW m \in Manager, Call(m)
      PROVE  ReportedGone'
  BY <1>0, <1>5 DEF Call, InitBegin, NewLegacy, Goto, memberVars, globalVars,
     histVars, RunAsync, SubmitRun, Register, threadVars, RunAipp, BeginDeInit,
     romVars, ReportedGone, FreshEmpty, NoAnswerAfterDestroy, InMap, NoEntry
<1>6. ASSUME NEW r \in Reader, Query(r)
      PROVE  ReportedGone'
  BY <1>0, <1>6 DEF Query, NewLegacy, Goto, memberVars, globalVars, histVars,
     ReportedGone, FreshEmpty, NoAnswerAfterDestroy, InMap, NoEntry
<1>7. ASSUME NEW s \in Stamp, Answer(s)
      PROVE  ReportedGone'
  BY <1>0, <1>7 DEF Answer, OnLoadDone, NotifyAll, memberVars, romVars,
     OnUnloadDone, histVars, OnErrorHandshake, RunAnswerBegin, threadVars,
     ReportedGone, FreshEmpty, NoAnswerAfterDestroy, InMap, NoEntry
<1>8. ASSUME NEW l \in Legacy, ServiceDiedBegin(l)
      PROVE  ReportedGone'
  BY <1>0, <1>8 DEF ServiceDiedBegin, threadVars, memberVars, histVars,
     ReportedGone, FreshEmpty, NoAnswerAfterDestroy, InMap, NoEntry
<1>9. CASE InCallback
  BY <1>0, <1>9 DEF InCallback, RunAnswerEnd, Erase, threadVars, memberVars,
     romVars, ServiceDiedClear, histVars, ServiceDiedVisit, AtEntry,
     ServiceDiedReturn, ServiceDiedDangling, ReportedGone, FreshEmpty,
     NoAnswerAfterDestroy, InMap, NoEntry
<1>10. CASE UNCHANGED vars
  BY <1>10 DEF vars, threadVars, memberVars, globalVars,
     romVars, histVars, ReportedGone, FreshEmpty, NoAnswerAfterDestroy, InMap,
     NoEntry
<1> QED
  BY <1>1, <1>2, <1>3, <1>4, <1>5, <1>6, <1>7, <1>8, <1>9, <1>10 DEF Next, InCall, Terminated

LEMMA HeldUsedStep ==
  TypeOK /\ Control /\ HeldUsed /\ [Next]_vars => HeldUsed'
<1> SUFFICES ASSUME TypeOK, Control, HeldUsed, [Next]_vars
             PROVE  HeldUsed'
  OBVIOUS
<1>0. /\ pc \in [Thread -> Pc] /\ local \in [Thread -> Legacy \cup {None}]
      /\ manager \in [Manager -> Legacy \cup {None}]
      /\ modelManagerMap \in [BuiltModel -> Legacy \cup {None}]
      /\ legacy \in [Legacy -> [state : {"unused", "live", "destroyed"},
                                owner : Manager \cup {None}, listener : BOOLEAN]]
      /\ Manager \subseteq Thread /\ Reader \subseteq Thread /\ None \notin Legacy
  BY Sets, Disjointness DEF TypeOK, ThreadsTyped, MembersTyped, RomTyped
<1>1. ASSUME NEW p \in Thread, Deleter(p)
      PROVE  HeldUsed'
  <2>1. CASE DropLocal(p)
    BY <1>0, <2>1 DEF DropLocal, Goto, memberVars, globalVars, romVars, histVars,
     HeldUsed, Holding, WaitPc
  <2>2. CASE UnloadSync(p)
    BY <1>0, <2>2 DEF UnloadSync, Goto, memberVars, globalVars, romVars, HeldUsed,
     Holding, WaitPc
  <2>3. CASE UnloadAsync(p)
    BY <1>0, <2>3 DEF UnloadAsync, Goto, memberVars, HeldUsed, Holding, WaitPc
  <2>4. CASE UnloadRefused(p)
    BY <1>0, <2>4 DEF UnloadRefused, Goto, memberVars, globalVars, romVars, HeldUsed,
     Holding, WaitPc
  <2>5. CASE DestroyLegacy(p)
    <3>1. \A l \in Legacy : legacy[l].state # "unused" => legacy'[l].state # "unused"
      BY <1>0, <2>5 DEF DestroyLegacy, UnusedLegacy
    <3> QED
      BY <1>0, <2>5, <3>1 DEF DestroyLegacy, Goto, memberVars, globalVars, HeldUsed,
       Holding, WaitPc
  <2> QED
    BY <1>1, <2>1, <2>2, <2>3, <2>4, <2>5 DEF Deleter
<1>2. ASSUME NEW p \in Thread, WaitFor(p)
      PROVE  HeldUsed'
  BY <1>0, <1>2 DEF WaitFor, LockMutex, Goto, memberVars, romVars, histVars,
     CheckPredicate, Responded, globalVars, Block, Timeout, EndWait, Erase,
     HeldUsed, Control, Holding, Waiting, WaitPc
<1>3. ASSUME NEW m \in Manager, LoadSync(m) \/ LoadAsync(m) \/ LoadRefused(m) \/ InitDone(m)
      PROVE  HeldUsed'
  BY <1>0, <1>3 DEF LoadSync, Goto, memberVars, globalVars, romVars, histVars,
     LoadAsync, Register, LoadRefused, InitDone, HeldUsed, Control, Holding,
     Waiting, WaitPc
<1>4. ASSUME NEW m \in Manager, ReleaseManager(m) \/ DropListener(m) \/ Purge(m)
      PROVE  HeldUsed'
  BY <1>0, <1>4 DEF ReleaseManager, Goto, globalVars, romVars, histVars,
     DropListener, Purge, memberVars, HeldUsed, Control, Holding, Waiting, WaitPc
<1>5. ASSUME NEW m \in Manager, Call(m)
      PROVE  HeldUsed'
  BY <1>0, <1>5 DEF Call, InitBegin, NewLegacy, Goto, memberVars, globalVars,
     histVars, RunAsync, SubmitRun, Register, threadVars, RunAipp, BeginDeInit,
     romVars, HeldUsed, Control, Holding, Waiting, WaitPc
<1>6. ASSUME NEW r \in Reader, Query(r)
      PROVE  HeldUsed'
  BY <1>0, <1>6 DEF Query, NewLegacy, Goto, memberVars, globalVars, histVars,
     HeldUsed, Control, Holding, Waiting, WaitPc
<1>7. ASSUME NEW s \in Stamp, Answer(s)
      PROVE  HeldUsed'
  BY <1>0, <1>7 DEF Answer, OnLoadDone, NotifyAll, memberVars, romVars,
     OnUnloadDone, histVars, OnErrorHandshake, RunAnswerBegin, threadVars, HeldUsed,
     Control, Holding, Waiting, WaitPc
<1>8. ASSUME NEW l \in Legacy, ServiceDiedBegin(l)
      PROVE  HeldUsed'
  BY <1>0, <1>8 DEF ServiceDiedBegin, threadVars, memberVars, histVars, HeldUsed,
     Control, Holding, Waiting, WaitPc
<1>9. CASE InCallback
  BY <1>0, <1>9 DEF InCallback, RunAnswerEnd, Erase, threadVars, memberVars,
     romVars, ServiceDiedClear, histVars, ServiceDiedVisit, AtEntry,
     ServiceDiedReturn, ServiceDiedDangling, HeldUsed, Control, Holding, Waiting,
     WaitPc
<1>10. CASE UNCHANGED vars
  BY <1>10 DEF vars, threadVars, memberVars, globalVars,
     romVars, histVars, HeldUsed, Control, Holding, Waiting, WaitPc
<1> QED
  BY <1>1, <1>2, <1>3, <1>4, <1>5, <1>6, <1>7, <1>8, <1>9, <1>10 DEF Next, InCall, Terminated

LEMMA AnswersStep ==
  TypeOK /\ Control /\ FreshEmpty /\ Answers /\ [Next]_vars => Answers'
<1> SUFFICES ASSUME TypeOK, Control, FreshEmpty, Answers, [Next]_vars
             PROVE  Answers'
  OBVIOUS
<1>0. /\ callBackMap \in [Stamp -> Entry] /\ nextStamp \in Nat
      /\ issued \in [Stamp -> [kind : Kind, owner : Manager \cup {None}]]
      /\ \A s \in Stamp : s \in Nat
  BY NextStampNat DEF TypeOK, GlobalsTyped, RomTyped
<1>1. ASSUME NEW p \in Thread, Deleter(p)
      PROVE  Answers'
  BY <1>0, <1>1 DEF Deleter, DropLocal, Goto, memberVars, globalVars, romVars,
     histVars, UnloadSync, UnloadAsync, Register, UnloadRefused, DestroyLegacy,
     UnusedLegacy, Answers, FreshEmpty, InMap, NoEntry, NewEntry
<1>2. ASSUME NEW p \in Thread, WaitFor(p)
      PROVE  Answers'
  BY <1>0, <1>2 DEF WaitFor, LockMutex, Goto, memberVars, romVars, histVars,
     CheckPredicate, Responded, globalVars, Block, Timeout, EndWait, Erase, Answers,
     FreshEmpty, InMap, NoEntry, NewEntry
<1>3. ASSUME NEW m \in Manager, LoadSync(m) \/ LoadAsync(m) \/ LoadRefused(m) \/ InitDone(m)
      PROVE  Answers'
  <2>1. CASE LoadSync(m)
    BY <1>0, <2>1 DEF LoadSync, Goto, memberVars, globalVars, romVars, histVars,
     Answers, FreshEmpty, InMap, NoEntry, NewEntry
  <2>2. CASE LoadAsync(m)
    BY <1>0, <2>2 DEF LoadAsync, Register, Goto, memberVars, histVars, Answers,
     FreshEmpty, InMap, NoEntry, NewEntry
  <2>3. CASE LoadRefused(m)
    BY <1>0, <2>3 DEF LoadRefused, Goto, memberVars, globalVars, romVars, histVars,
     Answers, FreshEmpty, InMap, NoEntry, NewEntry
  <2>4. CASE InitDone(m)
    BY <1>0, <2>4 DEF InitDone, Goto, globalVars, romVars, histVars, Answers,
     FreshEmpty, InMap, NoEntry, NewEntry
  <2> QED
    BY <1>3, <2>1, <2>2, <2>3, <2>4
<1>4. ASSUME NEW m \in Manager, ReleaseManager(m) \/ DropListener(m) \/ Purge(m)
      PROVE  Answers'
  BY <1>0, <1>4 DEF ReleaseManager, Goto, globalVars, romVars, histVars,
     DropListener, Purge, memberVars, Answers, FreshEmpty, InMap, NoEntry, NewEntry
<1>5. ASSUME NEW m \in Manager, Call(m)
      PROVE  Answers'
  BY <1>0, <1>5 DEF Call, InitBegin, NewLegacy, Goto, memberVars, globalVars,
     histVars, RunAsync, SubmitRun, Register, threadVars, RunAipp, BeginDeInit,
     romVars, Answers, FreshEmpty, InMap, NoEntry, NewEntry
<1>6. ASSUME NEW r \in Reader, Query(r)
      PROVE  Answers'
  BY <1>0, <1>6 DEF Query, NewLegacy, Goto, memberVars, globalVars, histVars,
     Answers, FreshEmpty, InMap, NoEntry, NewEntry
<1>7. ASSUME NEW s \in Stamp, Answer(s)
      PROVE  Answers'
  <2>1. CASE OnLoadDone(s)
    BY <1>0, <2>1 DEF OnLoadDone, NotifyAll, memberVars, romVars, Answers,
     FreshEmpty, InMap, NoEntry, NewEntry
  <2>2. CASE OnUnloadDone(s)
    BY <1>0, <2>2 DEF OnUnloadDone, NotifyAll, memberVars, romVars, histVars,
     Answers, FreshEmpty, InMap, NoEntry, NewEntry
  <2>3. CASE OnErrorHandshake(s)
    BY <1>0, <2>3 DEF OnErrorHandshake, NotifyAll, memberVars, romVars, histVars,
     Answers, FreshEmpty, InMap, NoEntry, NewEntry
  <2>4. CASE RunAnswerBegin(s)
    BY <1>0, <2>4 DEF RunAnswerBegin, threadVars, memberVars, romVars, histVars,
     Answers, FreshEmpty, InMap, NoEntry, NewEntry
  <2> QED
    BY <1>7, <2>1, <2>2, <2>3, <2>4 DEF Answer
<1>8. ASSUME NEW l \in Legacy, ServiceDiedBegin(l)
      PROVE  Answers'
  BY <1>0, <1>8 DEF ServiceDiedBegin, threadVars, memberVars, histVars, Answers,
     FreshEmpty, InMap, NoEntry, NewEntry
<1>9. CASE InCallback
  BY <1>0, <1>9 DEF InCallback, RunAnswerEnd, Erase, threadVars, memberVars,
     romVars, ServiceDiedClear, histVars, ServiceDiedVisit, AtEntry,
     ServiceDiedReturn, ServiceDiedDangling, Answers, FreshEmpty, InMap, NoEntry,
     NewEntry
<1>10. CASE UNCHANGED vars
  BY <1>10 DEF vars, threadVars, memberVars, globalVars,
     romVars, histVars, Answers, FreshEmpty, InMap, NoEntry, NewEntry
<1> QED
  BY <1>1, <1>2, <1>3, <1>4, <1>5, <1>6, <1>7, <1>8, <1>9, <1>10 DEF Next, InCall, Terminated

LEMMA ResultsStep ==
  TypeOK /\ Control /\ WaitedIssued /\ Answers /\ Results /\ [Next]_vars => Results'
<1> SUFFICES ASSUME TypeOK, Control, WaitedIssued, Answers, Results, [Next]_vars
             PROVE  Results'
  OBVIOUS
<1>0. /\ pc \in [Thread -> Pc] /\ stamp \in [Thread -> 0 .. MaxStamp]
      /\ result \in [Thread -> BOOLEAN] /\ callBackMap \in [Stamp -> Entry]
      /\ issued \in [Stamp -> [kind : Kind, owner : Manager \cup {None}]]
      /\ nextStamp \in Nat /\ Manager \subseteq Thread /\ Reader \subseteq Thread
      /\ \A p \in Thread : Waiting(p) => stamp[p] \in Stamp
  BY NextStampNat, Sets DEF TypeOK, ThreadsTyped, GlobalsTyped, RomTyped, Control
<1>1. ASSUME NEW p \in Thread, Deleter(p)
      PROVE  Results'
  BY <1>0, <1>1 DEF Deleter, DropLocal, Goto, memberVars, globalVars, romVars,
     histVars, UnloadSync, UnloadAsync, Register, UnloadRefused, DestroyLegacy,
     UnusedLegacy, Results, Answers, WaitedIssued, Waiting, WaitPc, InMap, Pair
<1>2. ASSUME NEW p \in Thread, WaitFor(p)
      PROVE  Results'
  <2>1. CASE LockMutex(p)
    BY <1>0, <2>1 DEF LockMutex, Goto, memberVars, romVars, histVars, Results,
     Answers, WaitedIssued, Waiting, WaitPc, InMap, Pair
  <2>2. CASE CheckPredicate(p)
    <3>1. pc[p] = "check" /\ stamp[p] \in Stamp /\ ~result[p]
      <4>1. pc[p] = "check" /\ stamp[p] \in Stamp
        BY <1>0, <2>2 DEF CheckPredicate, Waiting, WaitPc
      <4>2. result[p] => pc[p] = "erase"
        BY Zenon DEF Results
      <4> QED
        BY <4>1, <4>2
    <3>2. ASSUME NEW q \in Thread, result'[q], q # p
          PROVE  pc'[q] = "erase" /\ (Pair(q)' = "load" => stamp'[q] \in loaded')
      <4>1. result[q] /\ pc'[q] = pc[q]
        BY <1>0, <2>2, <3>2 DEF CheckPredicate, Goto
      <4>2. pc[q] = "erase" /\ (Pair(q) = "load" => stamp[q] \in loaded)
        BY <4>1, Zenon DEF Results
      <4>3. UNCHANGED <<issued, stamp, loaded>>
        BY <2>2 DEF CheckPredicate, romVars, histVars
      <4> QED
        BY <4>1, <4>2, <4>3 DEF Pair
    <3>3. ASSUME result'[p]
          PROVE  pc'[p] = "erase" /\ (Pair(p)' = "load" => stamp'[p] \in loaded')
      <4>1. Responded(stamp[p]) /\ callBackMap[stamp[p]].result /\ pc'[p] = "erase"
        BY <1>0, <2>2, <3>1, <3>3 DEF CheckPredicate, Goto
      <4> QED
        BY <2>2, <3>1, <4>1 DEF CheckPredicate, Pair, Answers, romVars, histVars
    <3> QED
      BY <3>2, <3>3 DEF Results
  <2>3. CASE Block(p)
    BY <1>0, <2>3 DEF Block, Goto, memberVars, romVars, histVars, Results, Answers,
     WaitedIssued, Waiting, WaitPc, InMap, Pair
  <2>4. CASE Timeout(p)
    BY <1>0, <2>4 DEF Timeout, Goto, memberVars, globalVars, romVars, histVars,
     Results, Answers, WaitedIssued, Waiting, WaitPc, InMap, Pair
  <2>5. CASE EndWait(p)
    BY <1>0, <2>5 DEF EndWait, Erase, Goto, memberVars, romVars, histVars, Results,
     Answers, WaitedIssued, Waiting, WaitPc, InMap, Pair
  <2> QED
    BY <1>2, <2>1, <2>2, <2>3, <2>4, <2>5 DEF WaitFor
<1>3. ASSUME NEW m \in Manager, LoadSync(m) \/ LoadAsync(m) \/ LoadRefused(m) \/ InitDone(m)
      PROVE  Results'
  BY <1>0, <1>3 DEF LoadSync, Goto, memberVars, globalVars, romVars, histVars,
     LoadAsync, Register, LoadRefused, InitDone, Results, Answers, WaitedIssued,
     Waiting, WaitPc, InMap, Pair
<1>4. ASSUME NEW m \in Manager, ReleaseManager(m) \/ DropListener(m) \/ Purge(m)
      PROVE  Results'
  BY <1>0, <1>4 DEF ReleaseManager, Goto, globalVars, romVars, histVars,
     DropListener, Purge, memberVars, Results, Answers, WaitedIssued, Waiting,
     WaitPc, InMap, Pair
<1>5. ASSUME NEW m \in Manager, Call(m)
      PROVE  Results'
  BY <1>0, <1>5 DEF Call, InitBegin, NewLegacy, Goto, memberVars, globalVars,
     histVars, RunAsync, SubmitRun, Register, threadVars, RunAipp, BeginDeInit,
     romVars, Results, Answers, WaitedIssued, Waiting, WaitPc, InMap, Pair
<1>6. ASSUME NEW r \in Reader, Query(r)
      PROVE  Results'
  BY <1>0, <1>6 DEF Query, NewLegacy, Goto, memberVars, globalVars, histVars,
     Results, Answers, WaitedIssued, Waiting, WaitPc, InMap, Pair
<1>7. ASSUME NEW s \in Stamp, Answer(s)
      PROVE  Results'
  BY <1>0, <1>7 DEF Answer, OnLoadDone, NotifyAll, memberVars, romVars,
     OnUnloadDone, histVars, OnErrorHandshake, RunAnswerBegin, threadVars, Results,
     Answers, WaitedIssued, Waiting, WaitPc, InMap, Pair
<1>8. ASSUME NEW l \in Legacy, ServiceDiedBegin(l)
      PROVE  Results'
  BY <1>0, <1>8 DEF ServiceDiedBegin, threadVars, memberVars, histVars, Results,
     Answers, WaitedIssued, Waiting, WaitPc, InMap, Pair
<1>9. CASE InCallback
  BY <1>0, <1>9 DEF InCallback, RunAnswerEnd, Erase, threadVars, memberVars,
     romVars, ServiceDiedClear, histVars, ServiceDiedVisit, AtEntry,
     ServiceDiedReturn, ServiceDiedDangling, Results, Answers, WaitedIssued,
     Waiting, WaitPc, InMap, Pair
<1>10. CASE UNCHANGED vars
  BY <1>10 DEF vars, threadVars, memberVars, globalVars,
     romVars, histVars, Results, Answers, WaitedIssued, Waiting, WaitPc, InMap, Pair
<1> QED
  BY <1>1, <1>2, <1>3, <1>4, <1>5, <1>6, <1>7, <1>8, <1>9, <1>10 DEF Next, InCall, Terminated

LEMMA LoadJustifiedStep ==
  TypeOK /\ Control /\ HeldUsed /\ Results /\ LoadJustified /\ [Next]_vars => LoadJustified'
<1> SUFFICES ASSUME TypeOK, Control, HeldUsed, Results, LoadJustified, [Next]_vars
             PROVE  LoadJustified'
  OBVIOUS
<1>0. /\ pc \in [Thread -> Pc] /\ local \in [Thread -> Legacy \cup {None}]
      /\ stamp \in [Thread -> 0 .. MaxStamp]
      /\ legacy \in [Legacy -> [state : {"unused", "live", "destroyed"},
                                owner : Manager \cup {None}, listener : BOOLEAN]]
      /\ Manager \subseteq Thread /\ Reader \subseteq Thread
  BY Sets DEF TypeOK, ThreadsTyped, RomTyped
<1>1. ASSUME NEW p \in Thread, Deleter(p)
      PROVE  LoadJustified'
  BY <1>0, <1>1 DEF Deleter, DropLocal, Goto, memberVars, globalVars, romVars,
     histVars, UnloadSync, UnloadAsync, Register, UnloadRefused, DestroyLegacy,
     UnusedLegacy, LoadJustified, Results, HeldUsed, Control, Holding, Waiting,
     WaitPc, Pair
<1>2. ASSUME NEW p \in Thread, WaitFor(p)
      PROVE  LoadJustified'
  BY <1>0, <1>2 DEF WaitFor, LockMutex, Goto, memberVars, romVars, histVars,
     CheckPredicate, Responded, globalVars, Block, Timeout, EndWait, Erase,
     LoadJustified, Results, HeldUsed, Control, Holding, Waiting, WaitPc, Pair
<1>3. ASSUME NEW m \in Manager, LoadSync(m) \/ LoadAsync(m) \/ LoadRefused(m) \/ InitDone(m)
      PROVE  LoadJustified'
  BY <1>0, <1>3 DEF LoadSync, Goto, memberVars, globalVars, romVars, histVars,
     LoadAsync, Register, LoadRefused, InitDone, LoadJustified, Results, HeldUsed,
     Control, Holding, Waiting, WaitPc, Pair
<1>4. ASSUME NEW m \in Manager, ReleaseManager(m) \/ DropListener(m) \/ Purge(m)
      PROVE  LoadJustified'
  BY <1>0, <1>4 DEF ReleaseManager, Goto, globalVars, romVars, histVars,
     DropListener, Purge, memberVars, LoadJustified, Results, HeldUsed, Control,
     Holding, Waiting, WaitPc, Pair
<1>5. ASSUME NEW m \in Manager, Call(m)
      PROVE  LoadJustified'
  BY <1>0, <1>5 DEF Call, InitBegin, NewLegacy, Goto, memberVars, globalVars,
     histVars, RunAsync, SubmitRun, Register, threadVars, RunAipp, BeginDeInit,
     romVars, LoadJustified, Results, HeldUsed, Control, Holding, Waiting, WaitPc,
     Pair
<1>6. ASSUME NEW r \in Reader, Query(r)
      PROVE  LoadJustified'
  BY <1>0, <1>6 DEF Query, NewLegacy, Goto, memberVars, globalVars, histVars,
     LoadJustified, Results, HeldUsed, Control, Holding, Waiting, WaitPc, Pair
<1>7. ASSUME NEW s \in Stamp, Answer(s)
      PROVE  LoadJustified'
  BY <1>0, <1>7 DEF Answer, OnLoadDone, NotifyAll, memberVars, romVars,
     OnUnloadDone, histVars, OnErrorHandshake, RunAnswerBegin, threadVars,
     LoadJustified, Results, HeldUsed, Control, Holding, Waiting, WaitPc, Pair
<1>8. ASSUME NEW l \in Legacy, ServiceDiedBegin(l)
      PROVE  LoadJustified'
  BY <1>0, <1>8 DEF ServiceDiedBegin, threadVars, memberVars, histVars,
     LoadJustified, Results, HeldUsed, Control, Holding, Waiting, WaitPc, Pair
<1>9. CASE InCallback
  BY <1>0, <1>9 DEF InCallback, RunAnswerEnd, Erase, threadVars, memberVars,
     romVars, ServiceDiedClear, histVars, ServiceDiedVisit, AtEntry,
     ServiceDiedReturn, ServiceDiedDangling, LoadJustified, Results, HeldUsed,
     Control, Holding, Waiting, WaitPc, Pair
<1>10. CASE UNCHANGED vars
  BY <1>10 DEF vars, threadVars, memberVars, globalVars,
     romVars, histVars, LoadJustified, Results, HeldUsed, Control, Holding, Waiting,
     WaitPc, Pair
<1> QED
  BY <1>1, <1>2, <1>3, <1>4, <1>5, <1>6, <1>7, <1>8, <1>9, <1>10 DEF Next, InCall, Terminated

-----------------------------------------------------------------------------
LEMMA InitSafe ==
  Init => /\ FreshEmpty /\ WaitedIssued /\ HandshakeAwaited
          /\ Quiet /\ NoAnswerAfterDestroy /\ ReportedGone
          /\ HeldUsed /\ Answers /\ Results /\ LoadJustified
  BY Disjointness
  DEF Init, FreshEmpty, WaitedIssued, HandshakeAwaited, Quiet, NoAnswerAfterDestroy,
      ReportedGone, HeldUsed, Answers, Results, LoadJustified, InMap, NoEntry, Waiting,
      WaitPc, Holding, Thread, Idle, NotIssued

\* No handshake of InitAsync or UnloadAsync is left behind in g_callBackMap, and no
\* two threads wait for the same one.
THEOREM HandshakesAwaited == Spec => []HandshakeAwaited
<1> DEFINE IInv == TypeOK /\ Control /\ FreshEmpty /\ WaitedIssued /\ HandshakeAwaited
<1>1. Init => IInv
  BY InitTyped, InitSafe
<1>2. IInv /\ [Next]_vars => IInv'
  BY StepTyped, FreshStep, WaitedStep, HandshakeStep
<1> QED
  BY <1>1, <1>2, PTL DEF Spec

\* Once Destroy has returned, no callback is in user code on behalf of the object
\* (OnRunDone and OnError hold g_callBackLock against the destructor).
THEOREM NoneAnsweredAfterDestroy == Spec => []NoAnswerAfterDestroy
<1> DEFINE IInv == TypeOK /\ Control /\ Quiet /\ NoAnswerAfterDestroy
<1>1. Init => IInv
  BY InitTyped, InitSafe
<1>2. IInv /\ [Next]_vars => IInv'
  BY StepTyped, QuietStep, NoAnswerStep
<1> QED
  BY <1>1, <1>2, PTL DEF Spec

\* No run is reported twice, however often the ROM answers it.
THEOREM RunsReportedOnce == Spec => []ReportedOnce
<1> DEFINE IInv == /\ TypeOK /\ Control /\ FreshEmpty
                   /\ Quiet /\ NoAnswerAfterDestroy /\ ReportedGone
<1>1. Init => IInv
  BY InitTyped, InitSafe
<1>2. IInv /\ [Next]_vars => IInv'
  BY StepTyped, FreshStep, QuietStep, NoAnswerStep, ReportedGoneStep
<1>3. IInv => ReportedOnce
  BY DEF ReportedOnce, ReportedGone, NoAnswerAfterDestroy
<1> QED
  BY <1>1, <1>2, <1>3, PTL DEF Spec

\* Init with a listener succeeds only on onLoadDone for its own load.
THEOREM LoadsJustified == Spec => []LoadJustified
<1> DEFINE IInv == /\ TypeOK /\ Control /\ FreshEmpty /\ WaitedIssued
                   /\ HeldUsed /\ Answers /\ Results /\ LoadJustified
<1>1. Init => IInv
  BY InitTyped, InitSafe
<1>2. IInv /\ [Next]_vars => IInv'
  BY StepTyped, FreshStep, WaitedStep, HeldUsedStep, AnswersStep, ResultsStep,
     LoadJustifiedStep
<1> QED
  BY <1>1, <1>2, PTL DEF Spec

\* InitAsync, UnloadAsync and OnLoadDone: every handshake is awaited by the one
\* thread that began it, and only its own answer makes a load succeed.
THEOREM LoadsAreSound == Spec => []LoadsSound
<1>1. HandshakeAwaited /\ LoadJustified => LoadsSound
  BY DEF LoadsSound
<1> QED
  BY <1>1, HandshakesAwaited, LoadsJustified, PTL

\* OnRunDone, OnError and Destroy: a listener hears of a run at most once, and of
\* none of a manager that is gone.
THEOREM AnswersAreSound == Spec => []AnswersSound
<1>1. NoAnswerAfterDestroy /\ ReportedOnce => AnswersSound
  BY DEF AnswersSound
<1> QED
  BY <1>1, NoneAnsweredAfterDestroy, RunsReportedOnce, PTL

-----------------------------------------------------------------------------
(* The ledger of runs *)

\* No thread of InitAsync or UnloadAsync waits for a run.
WaitsForHandshake == \A p \in Thread : Waiting(p) => issued[stamp[p]].kind # "run"

\* What is in the table for a run names the manager that accepted it, which is not
\* gone; a stamp that was not given out stands for nothing.
RunBooks ==
  \A s \in Stamp :
    /\ s >= nextStamp => issued[s].kind = "none"
    /\ InMap(s) /\ issued[s].kind = "run" =>
         /\ callBackMap[s].modelMgr = issued[s].owner
         /\ pc[issued[s].owner] # "gone"

\* The callback of a run is about a run.
RunHandled == handler.kind = "run" => issued[handler.at].kind = "run"

\* OnServiceDied has told the owners of all the runs it has passed.
Told ==
  handler.kind = "died" =>
    \A s \in Stamp : s < handler.at /\ InMap(s) /\ issued[s].kind = "run" => s \in notified

Books == WaitsForHandshake /\ RunBooks /\ RunHandled /\ Told

\* The types the steps of the ledger need.
BooksTyped ==
  /\ pc \in [Thread -> Pc] /\ stamp \in [Thread -> 0 .. MaxStamp]
  /\ userListener \in [Manager -> BOOLEAN] /\ callBackMap \in [Stamp -> Entry]
  /\ issued \in [Stamp -> [kind : Kind, owner : Manager \cup {None}]]
  /\ nextStamp \in Nat /\ Stamp \subseteq Nat
  /\ handler.kind = "run" => handler.at \in Stamp
  /\ handler.kind = "died" => handler.at \in Nat
  /\ handler = [kind |-> handler.kind, at |-> handler.at]
  /\ Manager \subseteq Thread /\ Reader \subseteq Thread
  /\ None \notin Manager /\ Manager \cap Reader = {}
  /\ \A s \in Stamp : callBackMap[s].modelMgr \in Manager \cup {None}
  /\ \A p \in Thread : Waiting(p) => stamp[p] \in Stamp

LEMMA BooksKnown == TypeOK /\ Control => BooksTyped
<1> SUFFICES ASSUME TypeOK, Control
             PROVE  BooksTyped
  OBVIOUS
<1>1. handler.kind = "died" => handler.at \in Nat
  BY Bounds DEF TypeOK, GlobalsTyped, Idle
<1>2. handler = [kind |-> handler.kind, at |-> handler.at]
  BY DEF TypeOK, GlobalsTyped, Idle
<1>3. \A s \in Stamp : callBackMap[s].modelMgr \in Manager \cup {None}
  BY DEF TypeOK, GlobalsTyped, Entry
<1> QED
  BY <1>1, <1>2, <1>3, NextStampNat, HandlerTyped, Sets, Disjointness
  DEF BooksTyped, TypeOK, ThreadsTyped, MembersTyped, GlobalsTyped, RomTyped, Control

LEMMA WaitsForHandshakeStep ==
  TypeOK /\ Control /\ FreshEmpty /\ WaitedIssued /\ WaitsForHandshake /\ [Next]_vars => WaitsForHandshake'
<1> SUFFICES ASSUME TypeOK, Control, FreshEmpty, WaitedIssued, WaitsForHandshake, [Next]_vars
             PROVE  WaitsForHandshake'
  OBVIOUS
<1>0. BooksTyped
  BY BooksKnown
<1>1. ASSUME NEW p \in Thread, Deleter(p)
      PROVE  WaitsForHandshake'
  BY <1>0, <1>1 DEF Deleter, DropLocal, Goto, memberVars, globalVars, romVars,
     histVars, UnloadSync, UnloadAsync, Register, UnloadRefused, DestroyLegacy,
     UnusedLegacy, BooksTyped, WaitedIssued, WaitsForHandshake, Waiting, WaitPc
<1>2. ASSUME NEW p \in Thread, WaitFor(p)
      PROVE  WaitsForHandshake'
  BY <1>0, <1>2 DEF WaitFor, LockMutex, Goto, memberVars, romVars, histVars,
     CheckPredicate, Responded, globalVars, Block, Timeout, EndWait, Erase,
     BooksTyped, WaitedIssued, WaitsForHandshake, Waiting, WaitPc
<1>3. ASSUME NEW m \in Manager, LoadSync(m) \/ LoadAsync(m) \/ LoadRefused(m) \/ InitDone(m)
      PROVE  WaitsForHandshake'
  BY <1>0, <1>3 DEF LoadSync, Goto, memberVars, globalVars, romVars, histVars,
     LoadAsync, Register, LoadRefused, InitDone, BooksTyped, WaitedIssued,
     WaitsForHandshake, Waiting, WaitPc
<1>4. ASSUME NEW m \in Manager, ReleaseManager(m) \/ DropListener(m) \/ Purge(m)
      PROVE  WaitsForHandshake'
  BY <1>0, <1>4 DEF ReleaseManager, Goto, globalVars, romVars, histVars,
     DropListener, Purge, memberVars, BooksTyped, WaitedIssued,
     WaitsForHandshake, Waiting, WaitPc
<1>5. ASSUME NEW m \in Manager, Call(m)
      PROVE  WaitsForHandshake'
  BY <1>0, <1>5 DEF Call, InitBegin, NewLegacy, Goto, memberVars, globalVars,
     histVars, RunAsync, SubmitRun, Register, threadVars, RunAipp, BeginDeInit,
     romVars, BooksTyped, WaitedIssued, WaitsForHandshake, Waiting, WaitPc
<1>6. ASSUME NEW r \in Reader, Query(r)
      PROVE  WaitsForHandshake'
  BY <1>0, <1>6 DEF Query, NewLegacy, Goto, memberVars, globalVars, histVars,
     BooksTyped, WaitedIssued, WaitsForHandshake, Waiting, WaitPc
<1>7. ASSUME NEW s \in Stamp, Answer(s)
      PROVE  WaitsForHandshake'
  BY <1>0, <1>7 DEF Answer, OnLoadDone, NotifyAll, memberVars, romVars,
     OnUnloadDone, histVars, OnErrorHandshake, RunAnswerBegin, threadVars,
     BooksTyped, WaitedIssued, WaitsForHandshake, Waiting, WaitPc
<1>8. ASSUME NEW l \in Legacy, ServiceDiedBegin(l)
      PROVE  WaitsForHandshake'
  BY <1>0, <1>8 DEF ServiceDiedBegin, threadVars, memberVars, histVars,
     BooksTyped, WaitedIssued, WaitsForHandshake, Waiting, WaitPc
<1>9. CASE InCallback
  BY <1>0, <1>9 DEF InCallback, RunAnswerEnd, Erase, threadVars, memberVars,
     romVars, ServiceDiedClear, histVars, ServiceDiedVisit, AtEntry,
     ServiceDiedReturn, ServiceDiedDangling, BooksTyped, WaitedIssued,
     WaitsForHandshake, Waiting, WaitPc
<1>10. CASE UNCHANGED vars
  BY <1>10 DEF vars, threadVars, memberVars, globalVars, romVars, histVars,
     BooksTyped, WaitedIssued, WaitsForHandshake, Waiting, WaitPc
<1> QED
  BY <1>1, <1>2, <1>3, <1>4, <1>5, <1>6, <1>7, <1>8, <1>9, <1>10 DEF Next,
     InCall, Terminated

LEMMA RunBooksStep ==
  TypeOK /\ Control /\ FreshEmpty /\ WaitsForHandshake /\ RunBooks /\ [Next]_vars => RunBooks'
<1> SUFFICES ASSUME TypeOK, Control, FreshEmpty, WaitsForHandshake, RunBooks, [Next]_vars
             PROVE  RunBooks'
  OBVIOUS
<1>0. BooksTyped
  BY BooksKnown
<1>1. ASSUME NEW p \in Thread, Deleter(p)
      PROVE  RunBooks'
  BY <1>0, <1>1 DEF Deleter, DropLocal, Goto, memberVars, globalVars, romVars,
     histVars, UnloadSync, UnloadAsync, Register, UnloadRefused, DestroyLegacy,
     UnusedLegacy, BooksTyped, WaitsForHandshake, RunBooks, InMap, NoEntry,
     NewEntry, Entry
<1>2. ASSUME NEW p \in Thread, WaitFor(p)
      PROVE  RunBooks'
  BY <1>0, <1>2 DEF WaitFor, LockMutex, Goto, memberVars, romVars, histVars,
     CheckPredicate, Responded, globalVars, Block, Timeout, EndWait, Erase,
     BooksTyped, WaitsForHandshake, RunBooks, InMap, NoEntry, NewEntry, Entry
<1>3. ASSUME NEW m \in Manager, LoadSync(m) \/ LoadAsync(m) \/ LoadRefused(m) \/ InitDone(m)
      PROVE  RunBooks'
  <2>1. CASE LoadAsync(m)
    BY <1>0, <2>1 DEF LoadAsync, Register, Goto, memberVars, histVars,
       BooksTyped, RunBooks, InMap, NoEntry, NewEntry
  <2>2. CASE LoadSync(m) \/ LoadRefused(m) \/ InitDone(m)
    BY <1>0, <2>2 DEF LoadSync, LoadRefused, InitDone, Goto, memberVars,
       globalVars, romVars, histVars, BooksTyped, RunBooks, InMap, NoEntry,
       NewEntry
  <2> QED
    BY <1>3, <2>1, <2>2
<1>4. ASSUME NEW m \in Manager, ReleaseManager(m) \/ DropListener(m) \/ Purge(m)
      PROVE  RunBooks'
  BY <1>0, <1>4 DEF ReleaseManager, Goto, globalVars, romVars, histVars,
     DropListener, Purge, memberVars, BooksTyped, WaitsForHandshake, RunBooks,
     InMap, NoEntry, NewEntry, Entry
<1>5. ASSUME NEW m \in Manager, Call(m)
      PROVE  RunBooks'
  <2>1. CASE InitBegin(m)
    BY <1>0, <2>1 DEF InitBegin, NewLegacy, Goto, memberVars, globalVars,
       histVars, BooksTyped, WaitsForHandshake, RunBooks, InMap, NoEntry, NewEntry, Entry
  <2>2. CASE SubmitRun(m) /\ pc[m] = "idle"
    BY <1>0, <2>2 DEF SubmitRun, Register, threadVars, memberVars, histVars,
       BooksTyped, WaitsForHandshake, RunBooks, InMap, NoEntry, NewEntry, Entry
  <2>3. ASSUME NEW c, BeginDeInit(m, c)
        PROVE  RunBooks'
    BY <1>0, <2>3 DEF BeginDeInit, Goto, globalVars, romVars, histVars, BooksTyped, WaitsForHandshake, RunBooks, InMap, NoEntry, NewEntry, Entry
  <2> QED
    BY <1>5, <2>1, <2>2, <2>3 DEF Call, RunAsync, RunAipp
<1>6. ASSUME NEW r \in Reader, Query(r)
      PROVE  RunBooks'
  BY <1>0, <1>6 DEF Query, NewLegacy, Goto, memberVars, globalVars, histVars,
     BooksTyped, WaitsForHandshake, RunBooks, InMap, NoEntry, NewEntry, Entry
<1>7. ASSUME NEW s \in Stamp, Answer(s)
      PROVE  RunBooks'
  BY <1>0, <1>7 DEF Answer, OnLoadDone, NotifyAll, memberVars, romVars,
     OnUnloadDone, histVars, OnErrorHandshake, RunAnswerBegin, threadVars,
     BooksTyped, WaitsForHandshake, RunBooks, InMap, NoEntry, NewEntry, Entry
<1>8. ASSUME NEW l \in Legacy, ServiceDiedBegin(l)
      PROVE  RunBooks'
  BY <1>0, <1>8 DEF ServiceDiedBegin, threadVars, memberVars, histVars,
     BooksTyped, WaitsForHandshake, RunBooks, InMap, NoEntry, NewEntry, Entry
<1>9. CASE InCallback
  <2>1. CASE RunAnswerEnd
    BY <1>0, <2>1 DEF RunAnswerEnd, Erase, threadVars, memberVars, romVars,
       BooksTyped, WaitsForHandshake, RunBooks, InMap, NoEntry, NewEntry, Entry
  <2>2. CASE ServiceDiedClear
    BY <1>0, <2>2 DEF ServiceDiedClear, threadVars, memberVars, romVars,
       histVars, BooksTyped, WaitsForHandshake, RunBooks, InMap, NoEntry,
       NewEntry, Entry
  <2>3. ASSUME NEW s \in Stamp, ServiceDiedVisit(s)
      PROVE  RunBooks'
    BY <1>0, <2>3 DEF ServiceDiedVisit, AtEntry, threadVars, memberVars,
       romVars, BooksTyped, WaitsForHandshake, RunBooks, InMap, NoEntry,
       NewEntry, Entry
  <2>4. ASSUME NEW s \in Stamp, ServiceDiedReturn(s)
      PROVE  RunBooks'
    BY <1>0, <2>4 DEF ServiceDiedReturn, threadVars, memberVars, romVars,
       histVars, BooksTyped, WaitsForHandshake, RunBooks, InMap, NoEntry,
       NewEntry, Entry
  <2>5. ASSUME NEW s \in Stamp, ServiceDiedDangling(s)
      PROVE  RunBooks'
    BY <1>0, <2>5 DEF ServiceDiedDangling, AtEntry, threadVars, memberVars,
       romVars, histVars, BooksTyped, WaitsForHandshake, RunBooks, InMap,
       NoEntry, NewEntry, Entry
  <2> QED
    BY <1>9, <2>1, <2>2, <2>3, <2>4, <2>5 DEF InCallback
<1>10. CASE UNCHANGED vars
  BY <1>10 DEF vars, threadVars, memberVars, globalVars, romVars, histVars,
     BooksTyped, WaitsForHandshake, RunBooks, InMap, NoEntry, NewEntry, Entry
<1> QED
  BY <1>1, <1>2, <1>3, <1>4, <1>5, <1>6, <1>7, <1>8, <1>9, <1>10 DEF Next,
     InCall, Terminated

LEMMA RunHandledStep ==
  TypeOK /\ Control /\ RunHandled /\ [Next]_vars => RunHandled'
<1> SUFFICES ASSUME TypeOK, Control, RunHandled, [Next]_vars
             PROVE  RunHandled'
  OBVIOUS
<1>0. BooksTyped
  BY BooksKnown
<1>1. ASSUME NEW p \in Thread, Deleter(p)
      PROVE  RunHandled'
  BY <1>0, <1>1 DEF Deleter, DropLocal, Goto, memberVars, globalVars, romVars,
     histVars, UnloadSync, UnloadAsync, Register, UnloadRefused, DestroyLegacy,
     UnusedLegacy, BooksTyped, RunHandled, Idle, CallBackLockFree
<1>2. ASSUME NEW p \in Thread, WaitFor(p)
      PROVE  RunHandled'
  BY <1>0, <1>2 DEF WaitFor, LockMutex, Goto, memberVars, romVars, histVars,
     CheckPredicate, Responded, globalVars, Block, Timeout, EndWait, Erase,
     BooksTyped, RunHandled, Idle, CallBackLockFree
<1>3. ASSUME NEW m \in Manager, LoadSync(m) \/ LoadAsync(m) \/ LoadRefused(m) \/ InitDone(m)
      PROVE  RunHandled'
  BY <1>0, <1>3 DEF LoadSync, Goto, memberVars, globalVars, romVars, histVars,
     LoadAsync, Register, LoadRefused, InitDone, BooksTyped, RunHandled, Idle,
     CallBackLockFree
<1>4. ASSUME NEW m \in Manager, ReleaseManager(m) \/ DropListener(m) \/ Purge(m)
      PROVE  RunHandled'
  BY <1>0, <1>4 DEF ReleaseManager, Goto, globalVars, romVars, histVars,
     DropListener, Purge, memberVars, BooksTyped, RunHandled, Idle,
     CallBackLockFree
<1>5. ASSUME NEW m \in Manager, Call(m)
      PROVE  RunHandled'
  BY <1>0, <1>5 DEF Call, InitBegin, NewLegacy, Goto, memberVars, globalVars,
     histVars, RunAsync, SubmitRun, Register, threadVars, RunAipp, BeginDeInit,
     romVars, BooksTyped, RunHandled, Idle, CallBackLockFree
<1>6. ASSUME NEW r \in Reader, Query(r)
      PROVE  RunHandled'
  BY <1>0, <1>6 DEF Query, NewLegacy, Goto, memberVars, globalVars, histVars,
     BooksTyped, RunHandled, Idle, CallBackLockFree
<1>7. ASSUME NEW s \in Stamp, Answer(s)
      PROVE  RunHandled'
  BY <1>0, <1>7 DEF Answer, OnLoadDone, NotifyAll, memberVars, romVars,
     OnUnloadDone, histVars, OnErrorHandshake, RunAnswerBegin, threadVars,
     BooksTyped, RunHandled, Idle, CallBackLockFree
<1>8. ASSUME NEW l \in Legacy, ServiceDiedBegin(l)
      PROVE  RunHandled'
  BY <1>0, <1>8 DEF ServiceDiedBegin, threadVars, memberVars, histVars,
     BooksTyped, RunHandled, Idle, CallBackLockFree
<1>9. CASE InCallback
  <2>1. CASE RunAnswerEnd \/ ServiceDiedClear
    BY <1>0, <2>1 DEF RunAnswerEnd, ServiceDiedClear, threadVars, memberVars,
       romVars, BooksTyped, RunHandled, Idle
  <2>2. ASSUME NEW s \in Stamp, ServiceDiedVisit(s) \/ ServiceDiedDangling(s)
        PROVE  RunHandled'
    BY <1>0, <2>2 DEF ServiceDiedVisit, ServiceDiedDangling, AtEntry,
       threadVars, memberVars, romVars, BooksTyped, RunHandled, Idle
  <2>3. ASSUME NEW s \in Stamp, ServiceDiedReturn(s)
        PROVE  RunHandled'
    BY <1>0, <2>3 DEF ServiceDiedReturn, threadVars, memberVars, romVars, BooksTyped, RunHandled, Idle
  <2> QED
    BY <1>9, <2>1, <2>2, <2>3 DEF InCallback
<1>10. CASE UNCHANGED vars
  BY <1>10 DEF vars, threadVars, memberVars, globalVars, romVars, histVars,
     BooksTyped, RunHandled, Idle, CallBackLockFree
<1> QED
  BY <1>1, <1>2, <1>3, <1>4, <1>5, <1>6, <1>7, <1>8, <1>9, <1>10 DEF Next,
     InCall, Terminated

LEMMA ToldStep ==
  TypeOK /\ Control /\ RunBooks /\ Quiet /\ Told /\ [Next]_vars => Told'
<1> SUFFICES ASSUME TypeOK, Control, RunBooks, Quiet, Told, [Next]_vars
             PROVE  Told'
  OBVIOUS
<1>0. BooksTyped
  BY BooksKnown
<1>1. ASSUME NEW p \in Thread, Deleter(p)
      PROVE  Told'
  BY <1>0, <1>1 DEF Deleter, DropLocal, Goto, memberVars, globalVars, romVars,
     histVars, UnloadSync, UnloadAsync, Register, UnloadRefused, DestroyLegacy,
     UnusedLegacy, BooksTyped, RunBooks, Told, Idle, CallBackLockFree, InMap,
     NoEntry
<1>2. ASSUME NEW p \in Thread, WaitFor(p)
      PROVE  Told'
  BY <1>0, <1>2 DEF WaitFor, LockMutex, Goto, memberVars, romVars, histVars,
     CheckPredicate, Responded, globalVars, Block, Timeout, EndWait, Erase,
     BooksTyped, RunBooks, Told, Idle, CallBackLockFree, InMap, NoEntry
<1>3. ASSUME NEW m \in Manager, LoadSync(m) \/ LoadAsync(m) \/ LoadRefused(m) \/ InitDone(m)
      PROVE  Told'
  BY <1>0, <1>3 DEF LoadSync, Goto, memberVars, globalVars, romVars, histVars,
     LoadAsync, Register, LoadRefused, InitDone, BooksTyped, RunBooks, Told,
     Idle, CallBackLockFree, InMap, NoEntry
<1>4. ASSUME NEW m \in Manager, ReleaseManager(m) \/ DropListener(m) \/ Purge(m)
      PROVE  Told'
  BY <1>0, <1>4 DEF ReleaseManager, Goto, globalVars, romVars, histVars,
     DropListener, Purge, memberVars, BooksTyped, RunBooks, Told, Idle,
     CallBackLockFree, InMap, NoEntry
<1>5. ASSUME NEW m \in Manager, Call(m)
      PROVE  Told'
  BY <1>0, <1>5 DEF Call, InitBegin, NewLegacy, Goto, memberVars, globalVars,
     histVars, RunAsync, SubmitRun, Register, threadVars, RunAipp, BeginDeInit,
     romVars, BooksTyped, RunBooks, Told, Idle, CallBackLockFree, InMap, NoEntry
<1>6. ASSUME NEW r \in Reader, Query(r)
      PROVE  Told'
  BY <1>0, <1>6 DEF Query, NewLegacy, Goto, memberVars, globalVars, histVars,
     BooksTyped, RunBooks, Told, Idle, CallBackLockFree, InMap, NoEntry
<1>7. ASSUME NEW s \in Stamp, Answer(s)
      PROVE  Told'
  BY <1>0, <1>7 DEF Answer, OnLoadDone, NotifyAll, memberVars, romVars,
     OnUnloadDone, histVars, OnErrorHandshake, RunAnswerBegin, threadVars,
     BooksTyped, RunBooks, Told, Idle, CallBackLockFree, InMap, NoEntry
<1>8. ASSUME NEW l \in Legacy, ServiceDiedBegin(l)
      PROVE  Told'
  <2>1. handler' = [kind |-> "died", at |-> 1] /\ \A s \in Stamp : ~(s < 1)
    BY <1>8, Bounds DEF ServiceDiedBegin, Stamp
  <2> QED
    BY <2>1 DEF Told
<1>9. CASE InCallback
  <2>1. CASE RunAnswerEnd \/ ServiceDiedClear
    BY <1>0, <2>1 DEF RunAnswerEnd, ServiceDiedClear, Told, Idle
  <2>2. ASSUME NEW s \in Stamp, ServiceDiedReturn(s)
        PROVE  Told'
    BY <2>2 DEF ServiceDiedReturn, Told, Idle
  <2>3. ASSUME NEW s \in Stamp, AtEntry(s), handler' = [handler EXCEPT !.at = s + 1],
               UNCHANGED <<callBackMap, issued>>, notified \subseteq notified',
               issued[s].kind = "run" => s \in notified'
        PROVE  Told'
    <3>1. handler'.at = s + 1
      BY <1>0, <2>3 DEF BooksTyped
    <3>2. ASSUME NEW k \in Stamp, k < s + 1, InMap(k), issued[k].kind = "run"
          PROVE  k \in notified'
      <4>1. CASE k = s
        BY <2>3, <3>2, <4>1
      <4>2. CASE k < handler.at
        BY <2>3, <3>2, <4>2 DEF Told, AtEntry
      <4>3. CASE k \in handler.at .. (s - 1)
        BY <2>3, <3>2, <4>3 DEF AtEntry
      <4>4. k \in Nat /\ s \in Nat /\ handler.at \in Nat
        BY <1>0, <2>3 DEF BooksTyped, AtEntry
      <4> QED
        BY <3>2, <4>1, <4>2, <4>3, <4>4
    <3> QED
      BY <2>3, <3>1, <3>2 DEF Told, InMap
  <2>4. ASSUME NEW s \in Stamp, ServiceDiedVisit(s)
        PROVE  Told'
    BY <2>3, <2>4 DEF ServiceDiedVisit, romVars
  <2>5. ASSUME NEW s \in Stamp, ServiceDiedDangling(s)
        PROVE  Told'
    <3>1. issued[s].kind # "run"
      BY <2>5 DEF ServiceDiedDangling, AtEntry, RunBooks
    <3> QED
      BY <2>3, <2>5, <3>1 DEF ServiceDiedDangling, romVars, histVars
  <2> QED
    BY <1>9, <2>1, <2>2, <2>4, <2>5 DEF InCallback
<1>10. CASE UNCHANGED vars
  BY <1>10 DEF vars, threadVars, memberVars, globalVars, romVars, histVars,
     BooksTyped, RunBooks, Told, Idle, CallBackLockFree, InMap, NoEntry
<1> QED
  BY <1>1, <1>2, <1>3, <1>4, <1>5, <1>6, <1>7, <1>8, <1>9, <1>10 DEF Next,
     InCall, Terminated

\* How a run stands changes only where the books say something else of it.
LEMMA LedgerStays ==
  ASSUME \A s \in Stamp :
           /\ issued'[s].kind = "run" <=> issued[s].kind = "run"
           /\ issued[s].kind = "run" =>
                /\ issued'[s].owner = issued[s].owner
                /\ InMap(s)' <=> InMap(s)
                /\ ~InMap(s) => (s \in completed' <=> s \in completed)
                /\ ~InMap(s) => (s \in notified' <=> s \in notified),
         \A m \in Manager : pc'[m] = "gone" <=> pc[m] = "gone"
  PROVE  UNCHANGED <<runStatus, runOwner, openManagers>>
<1>1. runStatus' = runStatus
  BY DEF runStatus
<1>2. runOwner' = runOwner
  BY DEF runOwner
<1>3. openManagers' = openManagers
  BY DEF openManagers
<1> QED
  BY <1>1, <1>2, <1>3

\* A request that is not a run leaves the ledger alone.
LEMMA HandshakeStays ==
  ASSUME BooksTyped, FreshEmpty, RunBooks, NEW owner, NEW kind, kind # "run",
         Register(owner, kind), UNCHANGED <<completed, notified>>,
         \A m \in Manager : pc'[m] = "gone" <=> pc[m] = "gone"
  PROVE  UNCHANGED <<runStatus, runOwner, openManagers>>
<1>1. nextStamp \in Stamp /\ issued[nextStamp].kind = "none"
  BY DEF Register, BooksTyped, RunBooks
<1>2. issued'[nextStamp].kind = kind
  BY <1>1 DEF Register, BooksTyped
<1>3. ASSUME NEW s \in Stamp, s # nextStamp
      PROVE  issued'[s] = issued[s] /\ callBackMap'[s] = callBackMap[s]
  BY <1>3 DEF Register, BooksTyped
<1> QED
  BY <1>1, <1>2, <1>3, LedgerStays DEF InMap

\* RunAsync and RunAipp.
LEMMA RunAccepted ==
  ASSUME BooksTyped, FreshEmpty, RunBooks, NEW m \in Manager, pc[m] = "idle", SubmitRun(m)
  PROVE  \E s \in Stamp : Ledger!Accept(m, s)
<1>1. PICK s \in Stamp : s = nextStamp
  BY DEF SubmitRun, Register
<1>2. issued[s].kind = "none" /\ None # m
  BY <1>1 DEF BooksTyped, RunBooks
<1>3. UNCHANGED <<pc, completed, notified>>
  BY DEF SubmitRun, threadVars, histVars
<1>4. NewEntry(m, FALSE).modelMgr = m
  BY DEF NewEntry, NoEntry
<1>5. issued'[s] = [kind |-> "run", owner |-> m] /\ callBackMap'[s] = NewEntry(m, FALSE)
  BY <1>1 DEF SubmitRun, Register, BooksTyped
<1>6. ASSUME NEW k \in Stamp, k # s
      PROVE  issued'[k] = issued[k] /\ callBackMap'[k] = callBackMap[k]
  BY <1>1, <1>6 DEF SubmitRun, Register, BooksTyped
<1>7. runStatus[s] = "free" /\ runStatus'[s] = "pending"
  <2>1. callBackMap'[s].modelMgr = m
    BY <1>4, <1>5
  <2>2. callBackMap'[s].modelMgr # None
    BY <1>2, <2>1
  <2>3. issued'[s].kind = "run"
    BY <1>5
  <2> QED
    BY <1>2, <2>2, <2>3 DEF runStatus, InMap
<1>8. \A k \in Stamp \ {s} : runStatus'[k] = runStatus[k]
  BY <1>3, <1>6 DEF runStatus, InMap
<1>9. runStatus' = [runStatus EXCEPT ![s] = "pending"]
  BY <1>7, <1>8 DEF runStatus
<1>10. \A k \in Stamp : runOwner'[k] = IF k = s THEN m ELSE runOwner[k]
  BY <1>5, <1>6 DEF runOwner
<1>11. runOwner' = [runOwner EXCEPT ![s] = m]
  BY <1>10 DEF runOwner
<1>12. m \in openManagers /\ openManagers' = openManagers
  BY <1>3 DEF openManagers
<1> QED
  BY <1>7, <1>9, <1>11, <1>12 DEF Ledger!Accept

\* The end of OnRunDone or OnError for a run.
LEMMA RunReported ==
  ASSUME BooksTyped, RunBooks, RunHandled, NoAnswerAfterDestroy, RunAnswerEnd
  PROVE  \E s \in Stamp : Ledger!Report(s)
<1>1. PICK s \in Stamp : s = handler.at
  BY DEF RunAnswerEnd, BooksTyped
<1>2. issued[s].kind = "run" /\ InMap(s)
  BY <1>1 DEF RunAnswerEnd, RunHandled, NoAnswerAfterDestroy
<1>3. UNCHANGED <<pc, issued, notified>> /\ completed' = completed \cup {s}
  BY <1>1 DEF RunAnswerEnd, threadVars, romVars
<1>4. callBackMap' = [callBackMap EXCEPT ![s] = NoEntry]
  BY <1>1 DEF RunAnswerEnd, Erase
<1>5. ~InMap(s)' /\ \A k \in Stamp \ {s} : InMap(k)' <=> InMap(k)
  BY <1>4 DEF BooksTyped, InMap, NoEntry
<1>6. issued[s].owner \in openManagers
  BY <1>2 DEF RunBooks, openManagers, InMap, BooksTyped
<1>7. runStatus[s] = "pending" /\ runOwner[s] = issued[s].owner
  BY <1>2 DEF runStatus, runOwner
<1>8. runStatus'[s] = "reported" /\ \A k \in Stamp \ {s} : runStatus'[k] = runStatus[k]
  BY <1>2, <1>3, <1>5 DEF runStatus
<1>9. runStatus' = [runStatus EXCEPT ![s] = "reported"]
  BY <1>8 DEF runStatus
<1>10. UNCHANGED <<runOwner, openManagers>>
  BY <1>3 DEF runOwner, openManagers
<1> QED
  BY <1>6, <1>7, <1>9, <1>10 DEF Ledger!Report

\* The end of OnServiceDied: what it clears it has announced.
LEMMA RunsDied ==
  ASSUME BooksTyped, ReportedGone, Told, ServiceDiedClear
  PROVE  Ledger!ServiceDied
<1>1. UNCHANGED <<pc, issued, completed, notified>>
  BY DEF ServiceDiedClear, threadVars, romVars, histVars
<1>2. \A s \in Stamp : ~InMap(s)'
  BY DEF ServiceDiedClear, InMap, NoEntry
<1>3. ASSUME NEW s \in Stamp, InMap(s), issued[s].kind = "run"
      PROVE  s \in notified /\ s \notin completed
  <2>1. handler.kind = "died" /\ s < handler.at
    BY <1>3 DEF ServiceDiedClear, BooksTyped
  <2> QED
    BY <1>3, <2>1 DEF Told, ReportedGone
<1>4. \A s \in Stamp : s \in Ledger!Pending <=> InMap(s) /\ issued[s].kind = "run"
  BY DEF Ledger!Pending, runStatus
<1>5. runStatus' = [s \in Stamp |-> IF s \in Ledger!Pending THEN "died" ELSE runStatus[s]]
  BY <1>1, <1>2, <1>3, <1>4 DEF runStatus
<1>6. UNCHANGED <<runOwner, openManagers>>
  BY <1>1 DEF runOwner, openManagers
<1> QED
  BY <1>5, <1>6 DEF Ledger!ServiceDied

\* The destructor: what it purges was announced dead, or is dropped.
LEMMA ClientClosed ==
  ASSUME BooksTyped, ReportedGone, RunBooks, NEW m \in Manager, Purge(m)
  PROVE  Ledger!Close(m)
<1>1. UNCHANGED <<issued, completed, notified>> /\ pc[m] = "purge"
  BY DEF Purge, romVars, histVars
<1>2. openManagers' = openManagers \ {m} /\ m \in openManagers
  BY <1>1 DEF Purge, Goto, openManagers, BooksTyped
<1>3. \A s \in Stamp : InMap(s)' <=> InMap(s) /\ callBackMap[s].modelMgr # m
  BY DEF Purge, InMap, NoEntry
<1>4. ASSUME NEW s \in Stamp
      PROVE  s \in Ledger!PendingOf(m) <=>
               InMap(s) /\ issued[s].kind = "run" /\ callBackMap[s].modelMgr = m
  BY DEF Ledger!PendingOf, Ledger!Pending, runStatus, runOwner, RunBooks
<1> DEFINE dead == Ledger!PendingOf(m) \cap notified
<1>5. runStatus' = [s \in Stamp |-> IF s \in dead THEN "died"
                                    ELSE IF s \in Ledger!PendingOf(m) THEN "dropped"
                                    ELSE runStatus[s]]
  BY <1>1, <1>3, <1>4 DEF runStatus, ReportedGone
<1>6. UNCHANGED runOwner
  BY <1>1 DEF runOwner
<1> QED
  BY <1>2, <1>5, <1>6 DEF Ledger!Close

\* Every step is a step of the ledger, or none.
LEMMA LedgerStep ==
  ASSUME TypeOK, Control, FreshEmpty, NoAnswerAfterDestroy, ReportedGone, Books, [Next]_vars
  PROVE  [Ledger!Next]_(Ledger!ledger)
<1> USE DEF Ledger!ledger
<1>0. BooksTyped /\ WaitsForHandshake /\ RunBooks /\ RunHandled /\ Told
  BY BooksKnown DEF Books
<1>1. ASSUME NEW p \in Thread, Deleter(p)
      PROVE  UNCHANGED Ledger!ledger
  <2>1. CASE UnloadAsync(p)
    <3>1. Register(legacy[local[p]].owner, "unload") /\ UNCHANGED histVars
      BY <2>1 DEF UnloadAsync
    <3>2. \A m \in Manager : pc'[m] = "gone" <=> pc[m] = "gone"
      BY <1>0, <2>1 DEF UnloadAsync, Goto, BooksTyped
    <3> QED
      BY <1>0, <3>1, <3>2, HandshakeStays DEF histVars
  <2>2. CASE DropLocal(p) \/ UnloadSync(p) \/ UnloadRefused(p) \/ DestroyLegacy(p)
    <3>1. UNCHANGED <<callBackMap, issued, completed, notified>>
      BY <2>2 DEF DropLocal, UnloadSync, UnloadRefused, DestroyLegacy, globalVars, romVars,
           histVars
    <3>2. \A m \in Manager : pc'[m] = "gone" <=> pc[m] = "gone"
      BY <1>0, <2>2 DEF DropLocal, UnloadSync, UnloadRefused, DestroyLegacy, Goto, BooksTyped
    <3> QED
      BY <3>1, <3>2, LedgerStays DEF InMap
  <2> QED
    BY <1>1, <2>1, <2>2 DEF Deleter
<1>2. ASSUME NEW p \in Thread, WaitFor(p)
      PROVE  UNCHANGED Ledger!ledger
  <2>1. UNCHANGED <<issued, completed, notified>>
    BY <1>2 DEF WaitFor, LockMutex, CheckPredicate, Block, Timeout, EndWait, romVars, histVars
  <2>2. \A m \in Manager : pc'[m] = "gone" <=> pc[m] = "gone"
    BY <1>0, <1>2 DEF WaitFor, LockMutex, CheckPredicate, Block, Timeout, EndWait, Goto,
         BooksTyped
  <2>3. ASSUME NEW s \in Stamp, issued[s].kind = "run"
        PROVE  callBackMap'[s] = callBackMap[s]
    <3>1. CASE EndWait(p)
      <4>1. stamp[p] # s /\ callBackMap' = [callBackMap EXCEPT ![stamp[p]] = NoEntry]
        BY <1>0, <2>3, <3>1 DEF EndWait, Erase, WaitsForHandshake, Waiting, WaitPc
      <4> QED
        BY <1>0, <4>1 DEF BooksTyped
    <3>2. CASE LockMutex(p) \/ CheckPredicate(p) \/ Block(p) \/ Timeout(p)
      BY <3>2 DEF LockMutex, CheckPredicate, Block, Timeout, globalVars
    <3> QED
      BY <1>2, <3>1, <3>2 DEF WaitFor
  <2> QED
    BY <2>1, <2>2, <2>3, LedgerStays DEF InMap
<1>3. ASSUME NEW m \in Manager, LoadSync(m) \/ LoadAsync(m) \/ LoadRefused(m) \/ InitDone(m)
      PROVE  UNCHANGED Ledger!ledger
  <2>1. \A k \in Manager : pc'[k] = "gone" <=> pc[k] = "gone"
    BY <1>0, <1>3 DEF LoadSync, LoadAsync, LoadRefused, InitDone, Goto, BooksTyped
  <2>2. CASE LoadAsync(m)
    BY <1>0, <2>1, <2>2, HandshakeStays DEF LoadAsync, histVars
  <2>3. CASE LoadSync(m) \/ LoadRefused(m) \/ InitDone(m)
    <3>1. UNCHANGED <<callBackMap, issued, completed, notified>>
      BY <2>3 DEF LoadSync, LoadRefused, InitDone, globalVars, romVars, histVars
    <3> QED
      BY <2>1, <3>1, LedgerStays DEF InMap
  <2> QED
    BY <1>3, <2>2, <2>3
<1>4. ASSUME NEW m \in Manager, ReleaseManager(m) \/ DropListener(m) \/ Purge(m)
      PROVE  Ledger!Close(m) \/ UNCHANGED Ledger!ledger
  <2>1. CASE Purge(m)
    BY <1>0, <2>1, ClientClosed
  <2>2. CASE ReleaseManager(m) \/ DropListener(m)
    <3>1. UNCHANGED <<callBackMap, issued, completed, notified>>
      BY <2>2 DEF ReleaseManager, DropListener, globalVars, romVars, histVars
    <3>2. \A k \in Manager : pc'[k] = "gone" <=> pc[k] = "gone"
      BY <1>0, <2>2 DEF ReleaseManager, DropListener, Goto, BooksTyped
    <3> QED
      BY <3>1, <3>2, LedgerStays DEF InMap
  <2> QED
    BY <1>4, <2>1, <2>2
<1>5. ASSUME NEW m \in Manager, Call(m)
      PROVE  (\E s \in Stamp : Ledger!Accept(m, s)) \/ UNCHANGED Ledger!ledger
  <2>1. CASE SubmitRun(m) /\ pc[m] = "idle"
    BY <1>0, <2>1, RunAccepted
  <2>2. CASE InitBegin(m) \/ BeginDeInit(m, "DeInit") \/ BeginDeInit(m, "Destroy")
    <3>1. UNCHANGED <<callBackMap, issued, completed, notified>>
      BY <2>2 DEF InitBegin, BeginDeInit, globalVars, romVars, histVars
    <3>2. \A k \in Manager : pc'[k] = "gone" <=> pc[k] = "gone"
      BY <1>0, <2>2 DEF InitBegin, BeginDeInit, Goto, BooksTyped
    <3> QED
      BY <3>1, <3>2, LedgerStays DEF InMap
  <2> QED
    BY <1>5, <2>1, <2>2 DEF Call, RunAsync, RunAipp
<1>6. ASSUME NEW r \in Reader, Query(r)
      PROVE  UNCHANGED Ledger!ledger
  <2>1. UNCHANGED <<callBackMap, issued, completed, notified>>
    BY <1>6 DEF Query, globalVars, histVars
  <2>2. \A k \in Manager : pc'[k] = "gone" <=> pc[k] = "gone"
    BY <1>0, <1>6 DEF Query, Goto, BooksTyped
  <2> QED
    BY <2>1, <2>2, LedgerStays DEF InMap
<1>7. ASSUME NEW s \in Stamp, Answer(s)
      PROVE  UNCHANGED Ledger!ledger
  <2>1. UNCHANGED <<issued, completed, notified>>
    BY <1>7 DEF Answer, OnLoadDone, OnUnloadDone, OnErrorHandshake, RunAnswerBegin, romVars,
         histVars
  <2>2. \A k \in Manager : pc'[k] = "gone" <=> pc[k] = "gone"
    BY <1>0, <1>7 DEF Answer, OnLoadDone, OnUnloadDone, OnErrorHandshake, RunAnswerBegin,
         NotifyAll, threadVars, BooksTyped
  <2>3. \A k \in Stamp : InMap(k)' <=> InMap(k)
    BY <1>0, <1>7 DEF Answer, OnLoadDone, OnUnloadDone, OnErrorHandshake, RunAnswerBegin,
         InMap, BooksTyped, Entry
  <2> QED
    BY <2>1, <2>2, <2>3, LedgerStays
<1>8. ASSUME NEW l \in Legacy, ServiceDiedBegin(l)
      PROVE  UNCHANGED Ledger!ledger
  BY <1>8, LedgerStays DEF ServiceDiedBegin, threadVars, histVars, InMap
<1>9. CASE InCallback
  <2>1. CASE RunAnswerEnd
    BY <1>0, <2>1, RunReported DEF Ledger!Next
  <2>2. CASE ServiceDiedClear
    BY <1>0, <2>2, RunsDied DEF Ledger!Next
  <2>3. ASSUME NEW s \in Stamp, ServiceDiedVisit(s) \/ ServiceDiedReturn(s) \/ ServiceDiedDangling(s)
        PROVE  UNCHANGED Ledger!ledger
    <3>1. UNCHANGED <<pc, callBackMap, issued, completed>>
      BY <2>3 DEF ServiceDiedVisit, ServiceDiedReturn, ServiceDiedDangling, threadVars, romVars,
           histVars
    <3>2. InMap(s) /\ (notified' = notified \/ notified' = notified \cup {s})
      BY <2>3 DEF ServiceDiedVisit, ServiceDiedReturn, ServiceDiedDangling, AtEntry, histVars
    <3> QED
      BY <3>1, <3>2, LedgerStays DEF InMap
  <2> QED
    BY <1>9, <2>1, <2>2, <2>3 DEF InCallback
<1>10. CASE UNCHANGED vars
  BY <1>10, LedgerStays DEF vars, threadVars, globalVars, romVars, histVars, InMap
<1> QED
  BY <1>1, <1>2, <1>3, <1>4, <1>5, <1>6, <1>7, <1>8, <1>9, <1>10
  DEF Next, InCall, Terminated, Ledger!Next

\* RunAsync, RunAipp, OnRunDone, OnError, OnServiceDied and the destructor implement
\* the ledger of runs: each run that was accepted ends once, for a reason the user was
\* told or by the user's own Destroy.
THEOREM RunsKeepLedger == Spec => RunsLedger
<1> DEFINE IInv == /\ TypeOK /\ Control /\ FreshEmpty /\ WaitedIssued
                   /\ Quiet /\ NoAnswerAfterDestroy /\ ReportedGone /\ Books
<1>1. Init => IInv
  <2>1. Init => Books
    BY Disjointness
    DEF Init, Books, WaitsForHandshake, RunBooks, RunHandled, Told, InMap, NoEntry, Waiting,
        WaitPc, Idle, NotIssued, Thread
  <2> QED
    BY <2>1, InitTyped, InitSafe
<1>2. IInv /\ [Next]_vars => IInv'
  <2>1. TypeOK /\ Control /\ FreshEmpty /\ WaitedIssued /\ Quiet /\ Books /\ [Next]_vars => Books'
    BY WaitsForHandshakeStep, RunBooksStep, RunHandledStep, ToldStep DEF Books
  <2> QED
    BY <2>1, StepTyped, FreshStep, WaitedStep, QuietStep, NoAnswerStep, ReportedGoneStep
<1>3. Init => Ledger!Init
  BY DEF Init, Ledger!Init, runStatus, runOwner, openManagers, NotIssued, Thread
<1>4. IInv /\ [Next]_vars => [Ledger!Next]_(Ledger!ledger)
  BY LedgerStep
<1> QED
  BY <1>1, <1>2, <1>3, <1>4, PTL DEF Spec, RunsLedger, Ledger!Spec

-----------------------------------------------------------------------------
(* Legacy managers: who owns them *)

\* A thread has a legacy manager exactly where its code uses one.
LocalHeld == \A p \in Thread : local[p] # None <=> pc[p] \in Holding

\* Who refers to a legacy manager finds it alive, and an object refers to its own,
\* in manager_ or in the call it executes.
Owned ==
  /\ \A p \in Thread : local[p] # None => legacy[local[p]].state = "live"
  /\ \A m \in Manager : local[m] # None => manager[m] = None /\ legacy[local[m]].owner = m
  /\ \A m \in Manager : manager[m] # None =>
       legacy[manager[m]].state = "live" /\ legacy[manager[m]].owner = m

\* The container lends what an object holds that is not being de-initialised.
Lent ==
  \A b \in BuiltModel : modelManagerMap[b] # None =>
    LET o == legacy[modelManagerMap[b]].owner
    IN  o # None /\ manager[o] = modelManagerMap[b] /\ pc[o] # "release"

\* Every live legacy manager is referred to.
Referred ==
  \A l \in Legacy : legacy[l].state = "live" =>
    (\E m \in Manager : manager[m] = l) \/ (\E p \in Thread : local[p] = l)

\* The thread in a deleter is alone with its legacy manager.
AloneInDeleter == \A p \in Thread : Deleting(p) => LastRef(p, local[p])

\* The types the steps below need.
Typed ==
  /\ pc \in [Thread -> Pc] /\ local \in [Thread -> Legacy \cup {None}]
  /\ stamp \in [Thread -> 0 .. MaxStamp] /\ nextStamp \in Nat
  /\ manager \in [Manager -> Legacy \cup {None}]
  /\ modelManagerMap \in [BuiltModel -> Legacy \cup {None}]
  /\ callBackMap \in [Stamp -> Entry]
  /\ issued \in [Stamp -> [kind : Kind, owner : Manager \cup {None}]]
  /\ legacy \in [Legacy -> [state : {"unused", "live", "destroyed"},
                            owner : Manager \cup {None}, listener : BOOLEAN]]
  /\ Manager \subseteq Thread /\ Reader \subseteq Thread
  /\ None \notin Manager /\ None \notin Legacy /\ Manager \cap Reader = {}

LEMMA TypesKnown == TypeOK => Typed
  BY NextStampNat, Sets, Disjointness
  DEF Typed, TypeOK, ThreadsTyped, MembersTyped, GlobalsTyped, RomTyped

\* What is lent is alive and its object's own.
LEMMA LentLive ==
  ASSUME Typed, Owned, Lent, NEW b \in BuiltModel, modelManagerMap[b] # None
  PROVE  modelManagerMap[b] \in Legacy /\ legacy[modelManagerMap[b]].state = "live"
  BY DEF Typed, Owned, Lent

\* A step that registers nothing, destroys no object and ends no query's wait leaves
\* the owners of the entries as alive as they were.
LEMMA EntryOwnerKept ==
  ASSUME Typed, EntryOwnerAlive,
         \A s \in Stamp : InMap(s)' => callBackMap'[s].modelMgr = callBackMap[s].modelMgr,
         \A m \in Manager : pc'[m] = "gone" => pc[m] = "gone",
         \A r \in Reader : Waiting(r) => Waiting(r)' /\ stamp'[r] = stamp[r]
  PROVE  EntryOwnerAlive'
<1> SUFFICES ASSUME NEW s \in Stamp, InMap(s)', pc'[callBackMap'[s].modelMgr] = "gone"
             PROVE  \E r \in Reader : Waiting(r)' /\ stamp'[r] = s
  BY DEF EntryOwnerAlive
<1>1. callBackMap[s].modelMgr = callBackMap'[s].modelMgr /\ InMap(s)
  BY DEF InMap
<1>2. callBackMap[s].modelMgr \in Manager
  BY <1>1 DEF Typed, Entry, InMap
<1>3. PICK r \in Reader : Waiting(r) /\ stamp[r] = s
  BY <1>1, <1>2 DEF EntryOwnerAlive
<1> QED
  BY <1>3

LEMMA LocalHeldStep ==
  TypeOK /\ Control /\ LocalHeld /\ [Next]_vars => LocalHeld'
<1> SUFFICES ASSUME TypeOK, Control, LocalHeld, [Next]_vars
             PROVE  LocalHeld'
  OBVIOUS
<1>0. Typed
  BY TypesKnown
<1>1. ASSUME NEW p \in Thread, Deleter(p)
      PROVE  LocalHeld'
  <2>1. CASE DropLocal(p)
    BY <1>0, <2>1 DEF DropLocal, Goto, memberVars, globalVars, romVars, histVars, Typed,
         LocalHeld, Control, Holding, Waiting, WaitPc
  <2>2. CASE UnloadSync(p)
    BY <1>0, <2>2 DEF UnloadSync, Goto, memberVars, globalVars, romVars, histVars, Typed,
         LocalHeld, Control, Holding, Waiting, WaitPc
  <2>3. CASE UnloadAsync(p)
    BY <1>0, <2>3 DEF UnloadAsync, Register, Goto, memberVars, histVars, Typed, LocalHeld,
         Control, Holding, Waiting, WaitPc
  <2>4. CASE UnloadRefused(p)
    BY <1>0, <2>4 DEF UnloadRefused, Goto, memberVars, globalVars, romVars, histVars, Typed,
         LocalHeld, Control, Holding, Waiting, WaitPc
  <2>5. CASE DestroyLegacy(p)
    BY <1>0, <2>5 DEF DestroyLegacy, UnusedLegacy, Goto, memberVars, globalVars, histVars,
         Typed, LocalHeld, Control, Holding, Waiting, WaitPc
  <2> QED
    BY <1>1, <2>1, <2>2, <2>3, <2>4, <2>5 DEF Deleter
<1>2. ASSUME NEW p \in Thread, WaitFor(p)
      PROVE  LocalHeld'
  <2>1. CASE LockMutex(p)
    BY <1>0, <2>1 DEF LockMutex, Goto, memberVars, romVars, histVars, Typed, LocalHeld,
         Control, Holding, Waiting, WaitPc
  <2>2. CASE CheckPredicate(p)
    BY <1>0, <2>2 DEF CheckPredicate, Responded, Goto, memberVars, globalVars, romVars,
         histVars, Typed, LocalHeld, Control, Holding, Waiting, WaitPc
  <2>3. CASE Block(p)
    BY <1>0, <2>3 DEF Block, Goto, memberVars, romVars, histVars, Typed, LocalHeld, Control,
         Holding, Waiting, WaitPc
  <2>4. CASE Timeout(p)
    BY <1>0, <2>4 DEF Timeout, Goto, memberVars, globalVars, romVars, histVars, Typed,
         LocalHeld, Control, Holding, Waiting, WaitPc
  <2>5. CASE EndWait(p)
    BY <1>0, <2>5 DEF EndWait, Erase, Goto, memberVars, romVars, histVars, Typed, LocalHeld,
         Control, Holding, Waiting, WaitPc
  <2> QED
    BY <1>2, <2>1, <2>2, <2>3, <2>4, <2>5 DEF WaitFor
<1>3. ASSUME NEW p \in Manager, LoadSync(p) \/ LoadAsync(p) \/ LoadRefused(p) \/ InitDone(p)
      PROVE  LocalHeld'
  <2>1. CASE LoadSync(p)
    BY <1>0, <2>1 DEF LoadSync, Goto, memberVars, globalVars, romVars, histVars, Typed,
         LocalHeld, Control, Holding, Waiting, WaitPc
  <2>2. CASE LoadAsync(p)
    BY <1>0, <2>2 DEF LoadAsync, Register, Goto, memberVars, histVars, Typed, LocalHeld,
         Control, Holding, Waiting, WaitPc
  <2>3. CASE LoadRefused(p)
    BY <1>0, <2>3 DEF LoadRefused, Goto, memberVars, globalVars, romVars, histVars, Typed,
         LocalHeld, Control, Holding, Waiting, WaitPc
  <2>4. CASE InitDone(p)
    BY <1>0, <2>4 DEF InitDone, Goto, globalVars, romVars, histVars, Typed, LocalHeld,
         Control, Holding, Waiting, WaitPc
  <2> QED
    BY <1>3, <2>1, <2>2, <2>3, <2>4
<1>4. ASSUME NEW p \in Manager, ReleaseManager(p) \/ DropListener(p) \/ Purge(p)
      PROVE  LocalHeld'
  <2>1. CASE ReleaseManager(p)
    BY <1>0, <2>1 DEF ReleaseManager, Goto, globalVars, romVars, histVars, Typed, LocalHeld,
         Control, Holding, Waiting, WaitPc
  <2>2. CASE DropListener(p)
    BY <1>0, <2>2 DEF DropListener, Goto, globalVars, romVars, histVars, Typed, LocalHeld,
         Control, Holding, Waiting, WaitPc
  <2>3. CASE Purge(p)
    BY <1>0, <2>3 DEF Purge, Goto, memberVars, romVars, histVars, Typed, LocalHeld, Control,
         Holding, Waiting, WaitPc
  <2> QED
    BY <1>4, <2>1, <2>2, <2>3
<1>5. ASSUME NEW p \in Manager, Call(p)
      PROVE  LocalHeld'
  <2>1. CASE InitBegin(p)
    BY <1>0, <2>1 DEF InitBegin, NewLegacy, Goto, memberVars, globalVars, histVars, Typed,
         LocalHeld, Control, Holding, Waiting, WaitPc
  <2>2. CASE RunAsync(p)
    BY <1>0, <2>2 DEF RunAsync, SubmitRun, Register, threadVars, memberVars, histVars,
         Typed, LocalHeld, Control, Holding, Waiting, WaitPc
  <2>3. CASE RunAipp(p)
    BY <1>0, <2>3 DEF RunAipp, SubmitRun, Register, threadVars, memberVars, histVars, Typed,
         LocalHeld, Control, Holding, Waiting, WaitPc
  <2>4. CASE BeginDeInit(p, "DeInit") \/ BeginDeInit(p, "Destroy")
    BY <1>0, <2>4 DEF BeginDeInit, Goto, globalVars, romVars, histVars, Typed, LocalHeld,
         Control, Holding, Waiting, WaitPc
  <2> QED
    BY <1>5, <2>1, <2>2, <2>3, <2>4 DEF Call
<1>6. ASSUME NEW r \in Reader, Query(r)
      PROVE  LocalHeld'
  BY <1>0, <1>6 DEF Query, NewLegacy, Goto, memberVars, globalVars, histVars, Typed,
       LocalHeld, Control, Holding, Waiting, WaitPc
<1>7. ASSUME NEW s \in Stamp, Answer(s)
      PROVE  LocalHeld'
  BY <1>0, <1>7 DEF Answer, OnLoadDone, NotifyAll, memberVars, romVars, OnUnloadDone,
       histVars, OnErrorHandshake, RunAnswerBegin, threadVars, Typed, LocalHeld, Control,
       Holding, Waiting, WaitPc
<1>8. ASSUME NEW l \in Legacy, ServiceDiedBegin(l)
      PROVE  LocalHeld'
  BY <1>0, <1>8 DEF ServiceDiedBegin, threadVars, memberVars, histVars, Typed, LocalHeld,
       Control, Holding, Waiting, WaitPc
<1>9. CASE InCallback
  BY <1>0, <1>9 DEF InCallback, RunAnswerEnd, Erase, threadVars, memberVars, romVars,
       ServiceDiedClear, histVars, ServiceDiedVisit, AtEntry, ServiceDiedReturn,
       ServiceDiedDangling, Typed, LocalHeld, Control, Holding, Waiting, WaitPc
<1>10. CASE UNCHANGED vars
  BY <1>10 DEF vars, threadVars, memberVars, globalVars, romVars, histVars, LocalHeld,
       Control, Holding, Waiting, WaitPc
<1> QED
  BY <1>1, <1>2, <1>3, <1>4, <1>5, <1>6, <1>7, <1>8, <1>9, <1>10 DEF Next, InCall,
       Terminated

LEMMA OwnedStep ==
  TypeOK /\ Control /\ LocalHeld /\ AloneInDeleter /\ Lent /\ Owned /\ [Next]_vars => Owned'
<1> SUFFICES ASSUME TypeOK, Control, LocalHeld, AloneInDeleter, Lent, Owned, [Next]_vars
             PROVE  Owned'
  OBVIOUS
<1>0. Typed
  BY TypesKnown
<1>1. ASSUME NEW p \in Thread, Deleter(p)
      PROVE  Owned'
  <2>1. CASE DropLocal(p)
    <3>1. legacy' = legacy /\ manager' = manager
      BY <2>1 DEF DropLocal, memberVars, romVars
    <3>2. \A q \in Thread : local'[q] # None => local'[q] = local[q]
      BY <1>0, <2>1 DEF DropLocal, Typed
    <3> QED
      BY <1>0, <3>1, <3>2 DEF Typed, Owned
  <2>2. CASE UnloadSync(p)
    BY <1>0, <2>2 DEF UnloadSync, Goto, memberVars, globalVars, romVars, histVars, Typed,
         Owned, LocalHeld, Holding, Waiting, WaitPc, AloneInDeleter, Deleting, LastRef
  <2>3. CASE UnloadAsync(p)
    BY <1>0, <2>3 DEF UnloadAsync, Register, Goto, memberVars, histVars, Typed, Owned,
         LocalHeld, Holding, Waiting, WaitPc, AloneInDeleter, Deleting, LastRef
  <2>4. CASE UnloadRefused(p)
    BY <1>0, <2>4 DEF UnloadRefused, Goto, memberVars, globalVars, romVars, histVars, Typed,
         Owned, LocalHeld, Holding, Waiting, WaitPc, AloneInDeleter, Deleting, LastRef
  <2>5. CASE DestroyLegacy(p)
    BY <1>0, <2>5 DEF DestroyLegacy, UnusedLegacy, Goto, memberVars, globalVars, histVars,
         Typed, Owned, LocalHeld, Holding, Waiting, WaitPc, AloneInDeleter, Deleting,
         LastRef
  <2> QED
    BY <1>1, <2>1, <2>2, <2>3, <2>4, <2>5 DEF Deleter
<1>2. ASSUME NEW p \in Thread, WaitFor(p)
      PROVE  Owned'
  <2>1. CASE LockMutex(p)
    BY <1>0, <2>1 DEF LockMutex, Goto, memberVars, romVars, histVars, Typed, Owned,
         LocalHeld, Holding, Waiting, WaitPc, AloneInDeleter, Deleting, LastRef
  <2>2. CASE CheckPredicate(p)
    BY <1>0, <2>2 DEF CheckPredicate, Responded, Goto, memberVars, globalVars, romVars,
         histVars, Typed, Owned, LocalHeld, Holding, Waiting, WaitPc, AloneInDeleter,
         Deleting, LastRef
  <2>3. CASE Block(p)
    BY <1>0, <2>3 DEF Block, Goto, memberVars, romVars, histVars, Typed, Owned, LocalHeld,
         Holding, Waiting, WaitPc, AloneInDeleter, Deleting, LastRef
  <2>4. CASE Timeout(p)
    BY <1>0, <2>4 DEF Timeout, Goto, memberVars, globalVars, romVars, histVars, Typed,
         Owned, LocalHeld, Holding, Waiting, WaitPc, AloneInDeleter, Deleting, LastRef
  <2>5. CASE EndWait(p)
    BY <1>0, <2>5 DEF EndWait, Erase, Goto, memberVars, romVars, histVars, Typed, Owned,
         LocalHeld, Holding, Waiting, WaitPc, AloneInDeleter, Deleting, LastRef
  <2> QED
    BY <1>2, <2>1, <2>2, <2>3, <2>4, <2>5 DEF WaitFor
<1>3. ASSUME NEW p \in Manager, LoadSync(p) \/ LoadAsync(p) \/ LoadRefused(p) \/ InitDone(p)
      PROVE  Owned'
  <2>1. CASE LoadSync(p)
    BY <1>0, <2>1 DEF LoadSync, Goto, memberVars, globalVars, romVars, histVars, Typed,
         Owned, LocalHeld, Holding, Waiting, WaitPc, AloneInDeleter, Deleting, LastRef
  <2>2. CASE LoadAsync(p)
    BY <1>0, <2>2 DEF LoadAsync, Register, Goto, memberVars, histVars, Typed, Owned,
         LocalHeld, Holding, Waiting, WaitPc, AloneInDeleter, Deleting, LastRef
  <2>3. CASE LoadRefused(p)
    BY <1>0, <2>3 DEF LoadRefused, Goto, memberVars, globalVars, romVars, histVars, Typed,
         Owned, LocalHeld, Holding, Waiting, WaitPc, AloneInDeleter, Deleting, LastRef
  <2>4. CASE InitDone(p)
    BY <1>0, <2>4 DEF InitDone, Goto, globalVars, romVars, histVars, Typed, Owned,
         LocalHeld, Holding, Waiting, WaitPc, AloneInDeleter, Deleting, LastRef
  <2> QED
    BY <1>3, <2>1, <2>2, <2>3, <2>4
<1>4. ASSUME NEW p \in Manager, ReleaseManager(p) \/ DropListener(p) \/ Purge(p)
      PROVE  Owned'
  <2>1. CASE ReleaseManager(p)
    BY <1>0, <2>1 DEF ReleaseManager, Goto, globalVars, romVars, histVars, Typed, Owned,
         LocalHeld, Holding, Waiting, WaitPc, AloneInDeleter, Deleting, LastRef
  <2>2. CASE DropListener(p)
    BY <1>0, <2>2 DEF DropListener, Goto, globalVars, romVars, histVars, Typed, Owned,
         LocalHeld, Holding, Waiting, WaitPc, AloneInDeleter, Deleting, LastRef
  <2>3. CASE Purge(p)
    BY <1>0, <2>3 DEF Purge, Goto, memberVars, romVars, histVars, Typed, Owned, LocalHeld,
         Holding, Waiting, WaitPc, AloneInDeleter, Deleting, LastRef
  <2> QED
    BY <1>4, <2>1, <2>2, <2>3
<1>5. ASSUME NEW p \in Manager, Call(p)
      PROVE  Owned'
  <2>1. CASE InitBegin(p)
    BY <1>0, <2>1 DEF InitBegin, NewLegacy, Goto, memberVars, globalVars, histVars, Typed,
         Owned, LocalHeld, Holding, Waiting, WaitPc, AloneInDeleter, Deleting, LastRef
  <2>2. CASE RunAsync(p)
    BY <1>0, <2>2 DEF RunAsync, SubmitRun, Register, threadVars, memberVars, histVars,
         Typed, Owned, LocalHeld, Holding, Waiting, WaitPc, AloneInDeleter, Deleting,
         LastRef
  <2>3. CASE RunAipp(p)
    BY <1>0, <2>3 DEF RunAipp, SubmitRun, Register, threadVars, memberVars, histVars, Typed,
         Owned, LocalHeld, Holding, Waiting, WaitPc, AloneInDeleter, Deleting, LastRef
  <2>4. CASE BeginDeInit(p, "DeInit") \/ BeginDeInit(p, "Destroy")
    BY <1>0, <2>4 DEF BeginDeInit, Goto, globalVars, romVars, histVars, Typed, Owned,
         LocalHeld, Holding, Waiting, WaitPc, AloneInDeleter, Deleting, LastRef
  <2> QED
    BY <1>5, <2>1, <2>2, <2>3, <2>4 DEF Call
<1>6. ASSUME NEW r \in Reader, Query(r)
      PROVE  Owned'
  <2>1. PICK b \in BuiltModel :
          \/ /\ modelManagerMap[b] # None
             /\ local' = [local EXCEPT ![r] = modelManagerMap[b]]
             /\ UNCHANGED legacy
          \/ /\ modelManagerMap[b] = None
             /\ \E l \in Legacy : NewLegacy(l, None, FALSE) /\ local' = [local EXCEPT ![r] = l]
    BY <1>6 DEF Query
  <2>2. manager' = manager /\ r \notin Manager /\ r \in Thread
    BY <1>0, <1>6 DEF Query, memberVars, Typed
  <2>3. CASE modelManagerMap[b] # None
    <3>1. modelManagerMap[b] \in Legacy /\ legacy[modelManagerMap[b]].state = "live"
      BY <1>0, <2>3, LentLive
    <3>2. legacy' = legacy /\ local' = [local EXCEPT ![r] = modelManagerMap[b]]
      BY <2>1, <2>3
    <3> QED
      BY <1>0, <2>2, <3>1, <3>2 DEF Typed, Owned
  <2>4. CASE modelManagerMap[b] = None
    <3>1. PICK l \in Legacy : NewLegacy(l, None, FALSE) /\ local' = [local EXCEPT ![r] = l]
      BY <2>1, <2>4
    <3>2. /\ legacy[l].state = "unused" /\ legacy'[l].state = "live"
          /\ \A k \in Legacy \ {l} : legacy'[k] = legacy[k]
      BY <1>0, <3>1 DEF NewLegacy, Typed
    <3>3. \A p \in Thread \ {r} : local'[p] = local[p]
      BY <1>0, <3>1 DEF Typed
    <3>4. local'[r] = l
      BY <1>0, <2>2, <3>1 DEF Typed
    <3> QED
      BY <1>0, <2>2, <3>2, <3>3, <3>4 DEF Typed, Owned
  <2> QED
    BY <2>3, <2>4
<1>7. ASSUME NEW s \in Stamp, Answer(s)
      PROVE  Owned'
  BY <1>0, <1>7 DEF Answer, OnLoadDone, NotifyAll, memberVars, romVars, OnUnloadDone,
       histVars, OnErrorHandshake, RunAnswerBegin, threadVars, Typed, Owned, LocalHeld,
       Holding, Waiting, WaitPc, AloneInDeleter, Deleting, LastRef
<1>8. ASSUME NEW l \in Legacy, ServiceDiedBegin(l)
      PROVE  Owned'
  BY <1>0, <1>8 DEF ServiceDiedBegin, threadVars, memberVars, histVars, Typed, Owned,
       LocalHeld, Holding, Waiting, WaitPc, AloneInDeleter, Deleting, LastRef
<1>9. CASE InCallback
  BY <1>0, <1>9 DEF InCallback, RunAnswerEnd, Erase, threadVars, memberVars, romVars,
       ServiceDiedClear, histVars, ServiceDiedVisit, AtEntry, ServiceDiedReturn,
       ServiceDiedDangling, Typed, Owned, LocalHeld, Holding, Waiting, WaitPc,
       AloneInDeleter, Deleting, LastRef
<1>10. CASE UNCHANGED vars
  BY <1>10 DEF vars, threadVars, memberVars, globalVars, romVars, histVars, Owned,
       LocalHeld, Holding, Waiting, WaitPc, AloneInDeleter, Deleting, LastRef
<1> QED
  BY <1>1, <1>2, <1>3, <1>4, <1>5, <1>6, <1>7, <1>8, <1>9, <1>10 DEF Next, InCall,
       Terminated

LEMMA LentStep ==
  TypeOK /\ Control /\ LocalHeld /\ Owned /\ AloneInDeleter /\ Lent /\ [Next]_vars => Lent'
<1> SUFFICES ASSUME TypeOK, Control, LocalHeld, Owned, AloneInDeleter, Lent, [Next]_vars
             PROVE  Lent'
  OBVIOUS
<1>0. Typed
  BY TypesKnown
<1>1. ASSUME NEW p \in Thread, Deleter(p)
      PROVE  Lent'
  <2>1. CASE DropLocal(p)
    BY <1>0, <2>1 DEF DropLocal, Goto, memberVars, globalVars, romVars, histVars, Typed,
         Lent, Owned, LocalHeld, Holding, Waiting, WaitPc, AloneInDeleter, Deleting, LastRef
  <2>2. CASE UnloadSync(p)
    BY <1>0, <2>2 DEF UnloadSync, Goto, memberVars, globalVars, romVars, histVars, Typed,
         Lent, Owned, LocalHeld, Holding, Waiting, WaitPc, AloneInDeleter, Deleting, LastRef
  <2>3. CASE UnloadAsync(p)
    BY <1>0, <2>3 DEF UnloadAsync, Register, Goto, memberVars, histVars, Typed, Lent, Owned,
         LocalHeld, Holding, Waiting, WaitPc, AloneInDeleter, Deleting, LastRef
  <2>4. CASE UnloadRefused(p)
    BY <1>0, <2>4 DEF UnloadRefused, Goto, memberVars, globalVars, romVars, histVars, Typed,
         Lent, Owned, LocalHeld, Holding, Waiting, WaitPc, AloneInDeleter, Deleting, LastRef
  <2>5. CASE DestroyLegacy(p)
    BY <1>0, <2>5 DEF DestroyLegacy, UnusedLegacy, Goto, memberVars, globalVars, histVars,
         Typed, Lent, Owned, LocalHeld, Holding, Waiting, WaitPc, AloneInDeleter, Deleting,
         LastRef
  <2> QED
    BY <1>1, <2>1, <2>2, <2>3, <2>4, <2>5 DEF Deleter
<1>2. ASSUME NEW p \in Thread, WaitFor(p)
      PROVE  Lent'
  <2>1. CASE LockMutex(p)
    BY <1>0, <2>1 DEF LockMutex, Goto, memberVars, romVars, histVars, Typed, Lent, Owned,
         LocalHeld, Holding, Waiting, WaitPc, AloneInDeleter, Deleting, LastRef
  <2>2. CASE CheckPredicate(p)
    BY <1>0, <2>2 DEF CheckPredicate, Responded, Goto, memberVars, globalVars, romVars,
         histVars, Typed, Lent, Owned, LocalHeld, Holding, Waiting, WaitPc, AloneInDeleter,
         Deleting, LastRef
  <2>3. CASE Block(p)
    BY <1>0, <2>3 DEF Block, Goto, memberVars, romVars, histVars, Typed, Lent, Owned,
         LocalHeld, Holding, Waiting, WaitPc, AloneInDeleter, Deleting, LastRef
  <2>4. CASE Timeout(p)
    BY <1>0, <2>4 DEF Timeout, Goto, memberVars, globalVars, romVars, histVars, Typed, Lent,
         Owned, LocalHeld, Holding, Waiting, WaitPc, AloneInDeleter, Deleting, LastRef
  <2>5. CASE EndWait(p)
    BY <1>0, <2>5 DEF EndWait, Erase, Goto, memberVars, romVars, histVars, Typed, Lent,
         Owned, LocalHeld, Holding, Waiting, WaitPc, AloneInDeleter, Deleting, LastRef
  <2> QED
    BY <1>2, <2>1, <2>2, <2>3, <2>4, <2>5 DEF WaitFor
<1>3. ASSUME NEW p \in Manager, LoadSync(p) \/ LoadAsync(p) \/ LoadRefused(p) \/ InitDone(p)
      PROVE  Lent'
  <2>1. CASE LoadSync(p)
    BY <1>0, <2>1 DEF LoadSync, Goto, memberVars, globalVars, romVars, histVars, Typed,
         Lent, Owned, LocalHeld, Holding, Waiting, WaitPc, AloneInDeleter, Deleting, LastRef
  <2>2. CASE LoadAsync(p)
    BY <1>0, <2>2 DEF LoadAsync, Register, Goto, memberVars, histVars, Typed, Lent, Owned,
         LocalHeld, Holding, Waiting, WaitPc, AloneInDeleter, Deleting, LastRef
  <2>3. CASE LoadRefused(p)
    BY <1>0, <2>3 DEF LoadRefused, Goto, memberVars, globalVars, romVars, histVars, Typed,
         Lent, Owned, LocalHeld, Holding, Waiting, WaitPc, AloneInDeleter, Deleting, LastRef
  <2>4. CASE InitDone(p)
    BY <1>0, <2>4 DEF InitDone, Goto, globalVars, romVars, histVars, Typed, Lent, Owned,
         LocalHeld, Holding, Waiting, WaitPc, AloneInDeleter, Deleting, LastRef
  <2> QED
    BY <1>3, <2>1, <2>2, <2>3, <2>4
<1>4. ASSUME NEW p \in Manager, ReleaseManager(p) \/ DropListener(p) \/ Purge(p)
      PROVE  Lent'
  <2>1. CASE ReleaseManager(p)
    BY <1>0, <2>1 DEF ReleaseManager, Goto, globalVars, romVars, histVars, Typed, Lent,
         Owned, LocalHeld, Holding, Waiting, WaitPc, AloneInDeleter, Deleting, LastRef
  <2>2. CASE DropListener(p)
    BY <1>0, <2>2 DEF DropListener, Goto, globalVars, romVars, histVars, Typed, Lent, Owned,
         LocalHeld, Holding, Waiting, WaitPc, AloneInDeleter, Deleting, LastRef
  <2>3. CASE Purge(p)
    BY <1>0, <2>3 DEF Purge, Goto, memberVars, romVars, histVars, Typed, Lent, Owned,
         LocalHeld, Holding, Waiting, WaitPc, AloneInDeleter, Deleting, LastRef
  <2> QED
    BY <1>4, <2>1, <2>2, <2>3
<1>5. ASSUME NEW p \in Manager, Call(p)
      PROVE  Lent'
  <2>1. CASE InitBegin(p)
    BY <1>0, <2>1 DEF InitBegin, NewLegacy, Goto, memberVars, globalVars, histVars, Typed,
         Lent, Owned, LocalHeld, Holding, Waiting, WaitPc, AloneInDeleter, Deleting, LastRef
  <2>2. CASE RunAsync(p)
    BY <1>0, <2>2 DEF RunAsync, SubmitRun, Register, threadVars, memberVars, histVars,
         Typed, Lent, Owned, LocalHeld, Holding, Waiting, WaitPc, AloneInDeleter, Deleting,
         LastRef
  <2>3. CASE RunAipp(p)
    BY <1>0, <2>3 DEF RunAipp, SubmitRun, Register, threadVars, memberVars, histVars, Typed,
         Lent, Owned, LocalHeld, Holding, Waiting, WaitPc, AloneInDeleter, Deleting, LastRef
  <2>4. CASE BeginDeInit(p, "DeInit") \/ BeginDeInit(p, "Destroy")
    BY <1>0, <2>4 DEF BeginDeInit, Goto, globalVars, romVars, histVars, Typed, Lent, Owned,
         LocalHeld, Holding, Waiting, WaitPc, AloneInDeleter, Deleting, LastRef
  <2> QED
    BY <1>5, <2>1, <2>2, <2>3, <2>4 DEF Call
<1>6. ASSUME NEW r \in Reader, Query(r)
      PROVE  Lent'
  BY <1>0, <1>6 DEF Query, NewLegacy, Goto, memberVars, globalVars, histVars, Typed, Lent,
       Owned, LocalHeld, Holding, Waiting, WaitPc, AloneInDeleter, Deleting, LastRef
<1>7. ASSUME NEW s \in Stamp, Answer(s)
      PROVE  Lent'
  BY <1>0, <1>7 DEF Answer, OnLoadDone, NotifyAll, memberVars, romVars, OnUnloadDone,
       histVars, OnErrorHandshake, RunAnswerBegin, threadVars, Typed, Lent, Owned,
       LocalHeld, Holding, Waiting, WaitPc, AloneInDeleter, Deleting, LastRef
<1>8. ASSUME NEW l \in Legacy, ServiceDiedBegin(l)
      PROVE  Lent'
  BY <1>0, <1>8 DEF ServiceDiedBegin, threadVars, memberVars, histVars, Typed, Lent, Owned,
       LocalHeld, Holding, Waiting, WaitPc, AloneInDeleter, Deleting, LastRef
<1>9. CASE InCallback
  BY <1>0, <1>9 DEF InCallback, RunAnswerEnd, Erase, threadVars, memberVars, romVars,
       ServiceDiedClear, histVars, ServiceDiedVisit, AtEntry, ServiceDiedReturn,
       ServiceDiedDangling, Typed, Lent, Owned, LocalHeld, Holding, Waiting, WaitPc,
       AloneInDeleter, Deleting, LastRef
<1>10. CASE UNCHANGED vars
  BY <1>10 DEF vars, threadVars, memberVars, globalVars, romVars, histVars, Lent, Owned,
       LocalHeld, Holding, Waiting, WaitPc, AloneInDeleter, Deleting, LastRef
<1> QED
  BY <1>1, <1>2, <1>3, <1>4, <1>5, <1>6, <1>7, <1>8, <1>9, <1>10 DEF Next, InCall,
       Terminated

LEMMA ReferredStep ==
  TypeOK /\ Control /\ LocalHeld /\ Owned /\ Lent /\ AloneInDeleter /\ Referred /\ [Next]_vars => Referred'
<1> SUFFICES ASSUME TypeOK, Control, LocalHeld, Owned, Lent, AloneInDeleter, Referred, [Next]_vars
             PROVE  Referred'
  OBVIOUS
<1>0. Typed
  BY TypesKnown
<1>1. ASSUME NEW p \in Thread, Deleter(p)
      PROVE  Referred'
  <2>1. CASE DropLocal(p)
    BY <1>0, <2>1 DEF DropLocal, Goto, memberVars, globalVars, romVars, histVars, Typed,
         Referred, Owned, Lent, LocalHeld, Holding, Waiting, WaitPc, AloneInDeleter,
         Deleting, LastRef
  <2>2. CASE UnloadSync(p)
    BY <1>0, <2>2 DEF UnloadSync, Goto, memberVars, globalVars, romVars, histVars, Typed,
         Referred, Owned, Lent, LocalHeld, Holding, Waiting, WaitPc, AloneInDeleter,
         Deleting, LastRef
  <2>3. CASE UnloadAsync(p)
    BY <1>0, <2>3 DEF UnloadAsync, Register, Goto, memberVars, histVars, Typed, Referred,
         Owned, Lent, LocalHeld, Holding, Waiting, WaitPc, AloneInDeleter, Deleting, LastRef
  <2>4. CASE UnloadRefused(p)
    BY <1>0, <2>4 DEF UnloadRefused, Goto, memberVars, globalVars, romVars, histVars, Typed,
         Referred, Owned, Lent, LocalHeld, Holding, Waiting, WaitPc, AloneInDeleter,
         Deleting, LastRef
  <2>5. CASE DestroyLegacy(p)
    BY <1>0, <2>5 DEF DestroyLegacy, UnusedLegacy, Goto, memberVars, globalVars, histVars,
         Typed, Referred, Owned, Lent, LocalHeld, Holding, Waiting, WaitPc, AloneInDeleter,
         Deleting, LastRef
  <2> QED
    BY <1>1, <2>1, <2>2, <2>3, <2>4, <2>5 DEF Deleter
<1>2. ASSUME NEW p \in Thread, WaitFor(p)
      PROVE  Referred'
  <2>1. CASE LockMutex(p)
    BY <1>0, <2>1 DEF LockMutex, Goto, memberVars, romVars, histVars, Typed, Referred,
         Owned, Lent, LocalHeld, Holding, Waiting, WaitPc, AloneInDeleter, Deleting, LastRef
  <2>2. CASE CheckPredicate(p)
    BY <1>0, <2>2 DEF CheckPredicate, Responded, Goto, memberVars, globalVars, romVars,
         histVars, Typed, Referred, Owned, Lent, LocalHeld, Holding, Waiting, WaitPc,
         AloneInDeleter, Deleting, LastRef
  <2>3. CASE Block(p)
    BY <1>0, <2>3 DEF Block, Goto, memberVars, romVars, histVars, Typed, Referred, Owned,
         Lent, LocalHeld, Holding, Waiting, WaitPc, AloneInDeleter, Deleting, LastRef
  <2>4. CASE Timeout(p)
    BY <1>0, <2>4 DEF Timeout, Goto, memberVars, globalVars, romVars, histVars, Typed,
         Referred, Owned, Lent, LocalHeld, Holding, Waiting, WaitPc, AloneInDeleter,
         Deleting, LastRef
  <2>5. CASE EndWait(p)
    BY <1>0, <2>5 DEF EndWait, Erase, Goto, memberVars, romVars, histVars, Typed, Referred,
         Owned, Lent, LocalHeld, Holding, Waiting, WaitPc, AloneInDeleter, Deleting, LastRef
  <2> QED
    BY <1>2, <2>1, <2>2, <2>3, <2>4, <2>5 DEF WaitFor
<1>3. ASSUME NEW p \in Manager, LoadSync(p) \/ LoadAsync(p) \/ LoadRefused(p) \/ InitDone(p)
      PROVE  Referred'
  <2>1. CASE LoadSync(p)
    BY <1>0, <2>1 DEF LoadSync, Goto, memberVars, globalVars, romVars, histVars, Typed,
         Referred, Owned, Lent, LocalHeld, Holding, Waiting, WaitPc, AloneInDeleter,
         Deleting, LastRef
  <2>2. CASE LoadAsync(p)
    BY <1>0, <2>2 DEF LoadAsync, Register, Goto, memberVars, histVars, Typed, Referred,
         Owned, Lent, LocalHeld, Holding, Waiting, WaitPc, AloneInDeleter, Deleting, LastRef
  <2>3. CASE LoadRefused(p)
    BY <1>0, <2>3 DEF LoadRefused, Goto, memberVars, globalVars, romVars, histVars, Typed,
         Referred, Owned, Lent, LocalHeld, Holding, Waiting, WaitPc, AloneInDeleter,
         Deleting, LastRef
  <2>4. CASE InitDone(p)
    BY <1>0, <2>4 DEF InitDone, Goto, globalVars, romVars, histVars, Typed, Referred, Owned,
         Lent, LocalHeld, Holding, Waiting, WaitPc, AloneInDeleter, Deleting, LastRef
  <2> QED
    BY <1>3, <2>1, <2>2, <2>3, <2>4
<1>4. ASSUME NEW p \in Manager, ReleaseManager(p) \/ DropListener(p) \/ Purge(p)
      PROVE  Referred'
  <2>1. CASE ReleaseManager(p)
    BY <1>0, <2>1 DEF ReleaseManager, Goto, globalVars, romVars, histVars, Typed, Referred,
         Owned, Lent, LocalHeld, Holding, Waiting, WaitPc, AloneInDeleter, Deleting, LastRef
  <2>2. CASE DropListener(p)
    BY <1>0, <2>2 DEF DropListener, Goto, globalVars, romVars, histVars, Typed, Referred,
         Owned, Lent, LocalHeld, Holding, Waiting, WaitPc, AloneInDeleter, Deleting, LastRef
  <2>3. CASE Purge(p)
    BY <1>0, <2>3 DEF Purge, Goto, memberVars, romVars, histVars, Typed, Referred, Owned,
         Lent, LocalHeld, Holding, Waiting, WaitPc, AloneInDeleter, Deleting, LastRef
  <2> QED
    BY <1>4, <2>1, <2>2, <2>3
<1>5. ASSUME NEW p \in Manager, Call(p)
      PROVE  Referred'
  <2>1. CASE InitBegin(p)
    BY <1>0, <2>1 DEF InitBegin, NewLegacy, Goto, memberVars, globalVars, histVars, Typed,
         Referred, Owned, Lent, LocalHeld, Holding, Waiting, WaitPc, AloneInDeleter,
         Deleting, LastRef
  <2>2. CASE RunAsync(p)
    BY <1>0, <2>2 DEF RunAsync, SubmitRun, Register, threadVars, memberVars, histVars,
         Typed, Referred, Owned, Lent, LocalHeld, Holding, Waiting, WaitPc, AloneInDeleter,
         Deleting, LastRef
  <2>3. CASE RunAipp(p)
    BY <1>0, <2>3 DEF RunAipp, SubmitRun, Register, threadVars, memberVars, histVars, Typed,
         Referred, Owned, Lent, LocalHeld, Holding, Waiting, WaitPc, AloneInDeleter,
         Deleting, LastRef
  <2>4. CASE BeginDeInit(p, "DeInit") \/ BeginDeInit(p, "Destroy")
    BY <1>0, <2>4 DEF BeginDeInit, Goto, globalVars, romVars, histVars, Typed, Referred,
         Owned, Lent, LocalHeld, Holding, Waiting, WaitPc, AloneInDeleter, Deleting, LastRef
  <2> QED
    BY <1>5, <2>1, <2>2, <2>3, <2>4 DEF Call
<1>6. ASSUME NEW r \in Reader, Query(r)
      PROVE  Referred'
  BY <1>0, <1>6 DEF Query, NewLegacy, Goto, memberVars, globalVars, histVars, Typed,
       Referred, Owned, Lent, LocalHeld, Holding, Waiting, WaitPc, AloneInDeleter, Deleting,
       LastRef
<1>7. ASSUME NEW s \in Stamp, Answer(s)
      PROVE  Referred'
  BY <1>0, <1>7 DEF Answer, OnLoadDone, NotifyAll, memberVars, romVars, OnUnloadDone,
       histVars, OnErrorHandshake, RunAnswerBegin, threadVars, Typed, Referred, Owned, Lent,
       LocalHeld, Holding, Waiting, WaitPc, AloneInDeleter, Deleting, LastRef
<1>8. ASSUME NEW l \in Legacy, ServiceDiedBegin(l)
      PROVE  Referred'
  BY <1>0, <1>8 DEF ServiceDiedBegin, threadVars, memberVars, histVars, Typed, Referred,
       Owned, Lent, LocalHeld, Holding, Waiting, WaitPc, AloneInDeleter, Deleting, LastRef
<1>9. CASE InCallback
  BY <1>0, <1>9 DEF InCallback, RunAnswerEnd, Erase, threadVars, memberVars, romVars,
       ServiceDiedClear, histVars, ServiceDiedVisit, AtEntry, ServiceDiedReturn,
       ServiceDiedDangling, Typed, Referred, Owned, Lent, LocalHeld, Holding, Waiting,
       WaitPc, AloneInDeleter, Deleting, LastRef
<1>10. CASE UNCHANGED vars
  BY <1>10 DEF vars, threadVars, memberVars, globalVars, romVars, histVars, Referred, Owned,
       Lent, LocalHeld, Holding, Waiting, WaitPc, AloneInDeleter, Deleting, LastRef
<1> QED
  BY <1>1, <1>2, <1>3, <1>4, <1>5, <1>6, <1>7, <1>8, <1>9, <1>10 DEF Next, InCall,
       Terminated

LEMMA AloneStep ==
  TypeOK /\ Control /\ WaitedIssued /\ LocalHeld /\ Owned /\ Lent /\ AloneInDeleter /\ [Next]_vars => AloneInDeleter'
<1> SUFFICES ASSUME TypeOK, Control, WaitedIssued, LocalHeld, Owned, Lent, AloneInDeleter, [Next]_vars
             PROVE  AloneInDeleter'
  OBVIOUS
<1>0. Typed
  BY TypesKnown
<1>1. ASSUME NEW p \in Thread, Deleter(p)
      PROVE  AloneInDeleter'
  <2>1. CASE DropLocal(p)
    BY <1>0, <2>1 DEF DropLocal, Goto, memberVars, globalVars, romVars, histVars, Typed,
         AloneInDeleter, Deleting, LastRef, WaitedIssued, Pair, Owned, Lent, LocalHeld,
         Holding, Waiting, WaitPc
  <2>2. CASE UnloadSync(p)
    BY <1>0, <2>2 DEF UnloadSync, Goto, memberVars, globalVars, romVars, histVars, Typed,
         AloneInDeleter, Deleting, LastRef, WaitedIssued, Pair, Owned, Lent, LocalHeld,
         Holding, Waiting, WaitPc
  <2>3. CASE UnloadAsync(p)
    BY <1>0, <2>3 DEF UnloadAsync, Register, Goto, memberVars, histVars, Typed,
         AloneInDeleter, Deleting, LastRef, WaitedIssued, Pair, Owned, Lent, LocalHeld,
         Holding, Waiting, WaitPc
  <2>4. CASE UnloadRefused(p)
    BY <1>0, <2>4 DEF UnloadRefused, Goto, memberVars, globalVars, romVars, histVars, Typed,
         AloneInDeleter, Deleting, LastRef, WaitedIssued, Pair, Owned, Lent, LocalHeld,
         Holding, Waiting, WaitPc
  <2>5. CASE DestroyLegacy(p)
    BY <1>0, <2>5 DEF DestroyLegacy, UnusedLegacy, Goto, memberVars, globalVars, histVars,
         Typed, AloneInDeleter, Deleting, LastRef, WaitedIssued, Pair, Owned, Lent,
         LocalHeld, Holding, Waiting, WaitPc
  <2> QED
    BY <1>1, <2>1, <2>2, <2>3, <2>4, <2>5 DEF Deleter
<1>2. ASSUME NEW p \in Thread, WaitFor(p)
      PROVE  AloneInDeleter'
  <2>1. CASE LockMutex(p)
    BY <1>0, <2>1 DEF LockMutex, Goto, memberVars, romVars, histVars, Typed, AloneInDeleter,
         Deleting, LastRef, WaitedIssued, Pair, Owned, Lent, LocalHeld, Holding, Waiting,
         WaitPc
  <2>2. CASE CheckPredicate(p)
    BY <1>0, <2>2 DEF CheckPredicate, Responded, Goto, memberVars, globalVars, romVars,
         histVars, Typed, AloneInDeleter, Deleting, LastRef, WaitedIssued, Pair, Owned,
         Lent, LocalHeld, Holding, Waiting, WaitPc
  <2>3. CASE Block(p)
    BY <1>0, <2>3 DEF Block, Goto, memberVars, romVars, histVars, Typed, AloneInDeleter,
         Deleting, LastRef, WaitedIssued, Pair, Owned, Lent, LocalHeld, Holding, Waiting,
         WaitPc
  <2>4. CASE Timeout(p)
    BY <1>0, <2>4 DEF Timeout, Goto, memberVars, globalVars, romVars, histVars, Typed,
         AloneInDeleter, Deleting, LastRef, WaitedIssued, Pair, Owned, Lent, LocalHeld,
         Holding, Waiting, WaitPc
  <2>5. CASE EndWait(p)
    BY <1>0, <2>5 DEF EndWait, Erase, Goto, memberVars, romVars, histVars, Typed,
         AloneInDeleter, Deleting, LastRef, WaitedIssued, Pair, Owned, Lent, LocalHeld,
         Holding, Waiting, WaitPc
  <2> QED
    BY <1>2, <2>1, <2>2, <2>3, <2>4, <2>5 DEF WaitFor
<1>3. ASSUME NEW p \in Manager, LoadSync(p) \/ LoadAsync(p) \/ LoadRefused(p) \/ InitDone(p)
      PROVE  AloneInDeleter'
  <2>1. CASE LoadSync(p)
    BY <1>0, <2>1 DEF LoadSync, Goto, memberVars, globalVars, romVars, histVars, Typed,
         AloneInDeleter, Deleting, LastRef, WaitedIssued, Pair, Owned, Lent, LocalHeld,
         Holding, Waiting, WaitPc
  <2>2. CASE LoadAsync(p)
    BY <1>0, <2>2 DEF LoadAsync, Register, Goto, memberVars, histVars, Typed,
         AloneInDeleter, Deleting, LastRef, WaitedIssued, Pair, Owned, Lent, LocalHeld,
         Holding, Waiting, WaitPc
  <2>3. CASE LoadRefused(p)
    BY <1>0, <2>3 DEF LoadRefused, Goto, memberVars, globalVars, romVars, histVars, Typed,
         AloneInDeleter, Deleting, LastRef, WaitedIssued, Pair, Owned, Lent, LocalHeld,
         Holding, Waiting, WaitPc
  <2>4. CASE InitDone(p)
    BY <1>0, <2>4 DEF InitDone, Goto, globalVars, romVars, histVars, Typed, AloneInDeleter,
         Deleting, LastRef, WaitedIssued, Pair, Owned, Lent, LocalHeld, Holding, Waiting,
         WaitPc
  <2> QED
    BY <1>3, <2>1, <2>2, <2>3, <2>4
<1>4. ASSUME NEW p \in Manager, ReleaseManager(p) \/ DropListener(p) \/ Purge(p)
      PROVE  AloneInDeleter'
  <2>1. CASE ReleaseManager(p)
    BY <1>0, <2>1 DEF ReleaseManager, Goto, globalVars, romVars, histVars, Typed,
         AloneInDeleter, Deleting, LastRef, WaitedIssued, Pair, Owned, Lent, LocalHeld,
         Holding, Waiting, WaitPc
  <2>2. CASE DropListener(p)
    BY <1>0, <2>2 DEF DropListener, Goto, globalVars, romVars, histVars, Typed,
         AloneInDeleter, Deleting, LastRef, WaitedIssued, Pair, Owned, Lent, LocalHeld,
         Holding, Waiting, WaitPc
  <2>3. CASE Purge(p)
    BY <1>0, <2>3 DEF Purge, Goto, memberVars, romVars, histVars, Typed, AloneInDeleter,
         Deleting, LastRef, WaitedIssued, Pair, Owned, Lent, LocalHeld, Holding, Waiting,
         WaitPc
  <2> QED
    BY <1>4, <2>1, <2>2, <2>3
<1>5. ASSUME NEW p \in Manager, Call(p)
      PROVE  AloneInDeleter'
  <2>1. CASE InitBegin(p)
    BY <1>0, <2>1 DEF InitBegin, NewLegacy, Goto, memberVars, globalVars, histVars, Typed,
         AloneInDeleter, Deleting, LastRef, WaitedIssued, Pair, Owned, Lent, LocalHeld,
         Holding, Waiting, WaitPc
  <2>2. CASE RunAsync(p)
    BY <1>0, <2>2 DEF RunAsync, SubmitRun, Register, threadVars, memberVars, histVars,
         Typed, AloneInDeleter, Deleting, LastRef, WaitedIssued, Pair, Owned, Lent,
         LocalHeld, Holding, Waiting, WaitPc
  <2>3. CASE RunAipp(p)
    BY <1>0, <2>3 DEF RunAipp, SubmitRun, Register, threadVars, memberVars, histVars, Typed,
         AloneInDeleter, Deleting, LastRef, WaitedIssued, Pair, Owned, Lent, LocalHeld,
         Holding, Waiting, WaitPc
  <2>4. CASE BeginDeInit(p, "DeInit") \/ BeginDeInit(p, "Destroy")
    BY <1>0, <2>4 DEF BeginDeInit, Goto, globalVars, romVars, histVars, Typed,
         AloneInDeleter, Deleting, LastRef, WaitedIssued, Pair, Owned, Lent, LocalHeld,
         Holding, Waiting, WaitPc
  <2> QED
    BY <1>5, <2>1, <2>2, <2>3, <2>4 DEF Call
<1>6. ASSUME NEW r \in Reader, Query(r)
      PROVE  AloneInDeleter'
  BY <1>0, <1>6 DEF Query, NewLegacy, Goto, memberVars, globalVars, histVars, Typed,
       AloneInDeleter, Deleting, LastRef, WaitedIssued, Pair, Owned, Lent, LocalHeld,
       Holding, Waiting, WaitPc
<1>7. ASSUME NEW s \in Stamp, Answer(s)
      PROVE  AloneInDeleter'
  BY <1>0, <1>7 DEF Answer, OnLoadDone, NotifyAll, memberVars, romVars, OnUnloadDone,
       histVars, OnErrorHandshake, RunAnswerBegin, threadVars, Typed, AloneInDeleter,
       Deleting, LastRef, WaitedIssued, Pair, Owned, Lent, LocalHeld, Holding, Waiting,
       WaitPc
<1>8. ASSUME NEW l \in Legacy, ServiceDiedBegin(l)
      PROVE  AloneInDeleter'
  BY <1>0, <1>8 DEF ServiceDiedBegin, threadVars, memberVars, histVars, Typed,
       AloneInDeleter, Deleting, LastRef, WaitedIssued, Pair, Owned, Lent, LocalHeld,
       Holding, Waiting, WaitPc
<1>9. CASE InCallback
  BY <1>0, <1>9 DEF InCallback, RunAnswerEnd, Erase, threadVars, memberVars, romVars,
       ServiceDiedClear, histVars, ServiceDiedVisit, AtEntry, ServiceDiedReturn,
       ServiceDiedDangling, Typed, AloneInDeleter, Deleting, LastRef, WaitedIssued, Pair,
       Owned, Lent, LocalHeld, Holding, Waiting, WaitPc
<1>10. CASE UNCHANGED vars
  BY <1>10 DEF vars, threadVars, memberVars, globalVars, romVars, histVars, AloneInDeleter,
       Deleting, LastRef, WaitedIssued, Pair, Owned, Lent, LocalHeld, Holding, Waiting,
       WaitPc
<1> QED
  BY <1>1, <1>2, <1>3, <1>4, <1>5, <1>6, <1>7, <1>8, <1>9, <1>10 DEF Next, InCall,
       Terminated

LEMMA EntryOwnerStep ==
  TypeOK /\ Control /\ WaitedIssued /\ HandshakeAwaited /\ LocalHeld /\ Owned /\ EntryOwnerAlive /\ [Next]_vars => EntryOwnerAlive'
<1> SUFFICES ASSUME TypeOK, Control, WaitedIssued, HandshakeAwaited, LocalHeld, Owned, EntryOwnerAlive, [Next]_vars
             PROVE  EntryOwnerAlive'
  OBVIOUS
<1>0. Typed
  BY TypesKnown
<1>1. ASSUME NEW p \in Thread, Deleter(p)
      PROVE  EntryOwnerAlive'
  <2>1. CASE DropLocal(p)
    <3>1. \A s \in Stamp : InMap(s)' => callBackMap'[s].modelMgr = callBackMap[s].modelMgr
      BY <1>0, <2>1 DEF DropLocal, Goto, memberVars, globalVars, romVars, histVars, InMap, Typed
    <3>2. \A m \in Manager : pc'[m] = "gone" => pc[m] = "gone"
      BY <1>0, <2>1 DEF DropLocal, Goto, memberVars, globalVars, romVars, histVars, Typed
    <3>3. \A r \in Reader : Waiting(r) => Waiting(r)' /\ stamp'[r] = stamp[r]
      BY <1>0, <2>1 DEF DropLocal, Goto, memberVars, globalVars, romVars, histVars, Typed, Waiting, WaitPc
    <3> QED
      BY <1>0, <3>1, <3>2, <3>3, EntryOwnerKept
  <2>2. CASE UnloadSync(p)
    BY <1>0, <2>2 DEF UnloadSync, Goto, memberVars, globalVars, romVars, histVars, Typed,
         EntryOwnerAlive, HandshakeAwaited, WaitedIssued, InMap, NoEntry, NewEntry, Owned,
         LocalHeld, Holding, Waiting, WaitPc
  <2>3. CASE UnloadAsync(p)
    <3>1. ASSUME NEW s \in Stamp, InMap(s)', pc'[callBackMap'[s].modelMgr] = "gone"
          PROVE  \E r \in Reader : Waiting(r)' /\ stamp'[r] = s
      <4>1. CASE s = nextStamp
        <5>1. callBackMap'[s].modelMgr = legacy[local[p]].owner /\ stamp'[p] = s /\ pc'[p] = "lock"
          BY <1>0, <2>3, <4>1 DEF UnloadAsync, Register, NewEntry, NoEntry, Goto, Typed
        <5>2. CASE p \in Manager
          <6>1. local[p] # None
            BY <1>0, <2>3 DEF UnloadAsync, LocalHeld, Holding, Typed
          <6> QED
            BY <3>1, <5>1, <5>2, <6>1 DEF Owned
        <5>3. CASE p \in Reader
          BY <5>1, <5>3 DEF Waiting, WaitPc
        <5> QED
          BY <5>2, <5>3 DEF Thread
      <4>2. CASE s # nextStamp
        <5>1. callBackMap'[s] = callBackMap[s] /\ callBackMap[s].modelMgr \in Manager
          BY <1>0, <2>3, <3>1, <4>2 DEF UnloadAsync, Register, InMap, Typed, Entry
        <5>2. pc[callBackMap[s].modelMgr] = "gone"
          BY <1>0, <2>3, <3>1, <5>1 DEF UnloadAsync, Goto, Typed
        <5>3. PICK r \in Reader : Waiting(r) /\ stamp[r] = s
          BY <3>1, <5>1, <5>2 DEF EntryOwnerAlive, InMap
        <5>4. r # p /\ r \in Thread
          BY <1>0, <2>3, <5>3 DEF UnloadAsync, Waiting, WaitPc, Typed
        <5> QED
          BY <1>0, <2>3, <5>3, <5>4 DEF UnloadAsync, Goto, Waiting, Typed
      <4> QED
        BY <4>1, <4>2
    <3> QED
      BY <3>1 DEF EntryOwnerAlive
  <2>4. CASE UnloadRefused(p)
    BY <1>0, <2>4 DEF UnloadRefused, Goto, memberVars, globalVars, romVars, histVars, Typed,
         EntryOwnerAlive, HandshakeAwaited, WaitedIssued, InMap, NoEntry, NewEntry, Owned,
         LocalHeld, Holding, Waiting, WaitPc
  <2>5. CASE DestroyLegacy(p)
    <3>1. \A s \in Stamp : InMap(s)' => callBackMap'[s].modelMgr = callBackMap[s].modelMgr
      BY <1>0, <2>5 DEF DestroyLegacy, UnusedLegacy, Goto, memberVars, globalVars, histVars, InMap, Typed
    <3>2. \A m \in Manager : pc'[m] = "gone" => pc[m] = "gone"
      BY <1>0, <2>5 DEF DestroyLegacy, UnusedLegacy, Goto, memberVars, globalVars, histVars, Typed
    <3>3. \A r \in Reader : Waiting(r) => Waiting(r)' /\ stamp'[r] = stamp[r]
      BY <1>0, <2>5 DEF DestroyLegacy, UnusedLegacy, Goto, memberVars, globalVars, histVars, Typed, Waiting, WaitPc
    <3> QED
      BY <1>0, <3>1, <3>2, <3>3, EntryOwnerKept
  <2> QED
    BY <1>1, <2>1, <2>2, <2>3, <2>4, <2>5 DEF Deleter
<1>2. ASSUME NEW p \in Thread, WaitFor(p)
      PROVE  EntryOwnerAlive'
  <2>1. CASE LockMutex(p)
    BY <1>0, <2>1 DEF LockMutex, Goto, memberVars, romVars, histVars, Typed,
         EntryOwnerAlive, HandshakeAwaited, WaitedIssued, InMap, NoEntry, NewEntry, Owned,
         LocalHeld, Holding, Waiting, WaitPc
  <2>2. CASE CheckPredicate(p)
    <3>1. \A s \in Stamp : InMap(s)' => callBackMap'[s].modelMgr = callBackMap[s].modelMgr
      BY <1>0, <2>2 DEF CheckPredicate, Responded, Goto, memberVars, globalVars, romVars, histVars, InMap, Typed
    <3>2. \A m \in Manager : pc'[m] = "gone" => pc[m] = "gone"
      BY <1>0, <2>2 DEF CheckPredicate, Responded, Goto, memberVars, globalVars, romVars, histVars, Typed
    <3>3. \A r \in Reader : Waiting(r) => Waiting(r)' /\ stamp'[r] = stamp[r]
      BY <1>0, <2>2 DEF CheckPredicate, Responded, Goto, memberVars, globalVars, romVars, histVars, Typed, Waiting, WaitPc
    <3> QED
      BY <1>0, <3>1, <3>2, <3>3, EntryOwnerKept
  <2>3. CASE Block(p)
    BY <1>0, <2>3 DEF Block, Goto, memberVars, romVars, histVars, Typed, EntryOwnerAlive,
         HandshakeAwaited, WaitedIssued, InMap, NoEntry, NewEntry, Owned, LocalHeld,
         Holding, Waiting, WaitPc
  <2>4. CASE Timeout(p)
    BY <1>0, <2>4 DEF Timeout, Goto, memberVars, globalVars, romVars, histVars, Typed,
         EntryOwnerAlive, HandshakeAwaited, WaitedIssued, InMap, NoEntry, NewEntry, Owned,
         LocalHeld, Holding, Waiting, WaitPc
  <2>5. CASE EndWait(p)
    BY <1>0, <2>5 DEF EndWait, Erase, Goto, memberVars, romVars, histVars, Typed,
         EntryOwnerAlive, HandshakeAwaited, WaitedIssued, InMap, NoEntry, NewEntry, Owned,
         LocalHeld, Holding, Waiting, WaitPc
  <2> QED
    BY <1>2, <2>1, <2>2, <2>3, <2>4, <2>5 DEF WaitFor
<1>3. ASSUME NEW p \in Manager, LoadSync(p) \/ LoadAsync(p) \/ LoadRefused(p) \/ InitDone(p)
      PROVE  EntryOwnerAlive'
  <2>1. CASE LoadSync(p)
    BY <1>0, <2>1 DEF LoadSync, Goto, memberVars, globalVars, romVars, histVars, Typed,
         EntryOwnerAlive, HandshakeAwaited, WaitedIssued, InMap, NoEntry, NewEntry, Owned,
         LocalHeld, Holding, Waiting, WaitPc
  <2>2. CASE LoadAsync(p)
    BY <1>0, <2>2 DEF LoadAsync, Register, Goto, memberVars, histVars, Typed,
         EntryOwnerAlive, HandshakeAwaited, WaitedIssued, InMap, NoEntry, NewEntry, Owned,
         LocalHeld, Holding, Waiting, WaitPc
  <2>3. CASE LoadRefused(p)
    BY <1>0, <2>3 DEF LoadRefused, Goto, memberVars, globalVars, romVars, histVars, Typed,
         EntryOwnerAlive, HandshakeAwaited, WaitedIssued, InMap, NoEntry, NewEntry, Owned,
         LocalHeld, Holding, Waiting, WaitPc
  <2>4. CASE InitDone(p)
    BY <1>0, <2>4 DEF InitDone, Goto, globalVars, romVars, histVars, Typed, EntryOwnerAlive,
         HandshakeAwaited, WaitedIssued, InMap, NoEntry, NewEntry, Owned, LocalHeld,
         Holding, Waiting, WaitPc
  <2> QED
    BY <1>3, <2>1, <2>2, <2>3, <2>4
<1>4. ASSUME NEW p \in Manager, ReleaseManager(p) \/ DropListener(p) \/ Purge(p)
      PROVE  EntryOwnerAlive'
  <2>1. CASE ReleaseManager(p)
    <3>1. \A s \in Stamp : InMap(s)' => callBackMap'[s].modelMgr = callBackMap[s].modelMgr
      BY <1>0, <2>1 DEF ReleaseManager, Goto, globalVars, romVars, histVars, InMap, Typed
    <3>2. \A m \in Manager : pc'[m] = "gone" => pc[m] = "gone"
      BY <1>0, <2>1 DEF ReleaseManager, Goto, globalVars, romVars, histVars, Typed
    <3>3. \A r \in Reader : Waiting(r) => Waiting(r)' /\ stamp'[r] = stamp[r]
      BY <1>0, <2>1 DEF ReleaseManager, Goto, globalVars, romVars, histVars, Typed, Waiting, WaitPc
    <3> QED
      BY <1>0, <3>1, <3>2, <3>3, EntryOwnerKept
  <2>2. CASE DropListener(p)
    <3>1. \A s \in Stamp : InMap(s)' => callBackMap'[s].modelMgr = callBackMap[s].modelMgr
      BY <1>0, <2>2 DEF DropListener, Goto, globalVars, romVars, histVars, InMap, Typed
    <3>2. \A m \in Manager : pc'[m] = "gone" => pc[m] = "gone"
      BY <1>0, <2>2 DEF DropListener, Goto, globalVars, romVars, histVars, Typed
    <3>3. \A r \in Reader : Waiting(r) => Waiting(r)' /\ stamp'[r] = stamp[r]
      BY <1>0, <2>2 DEF DropListener, Goto, globalVars, romVars, histVars, Typed, Waiting, WaitPc
    <3> QED
      BY <1>0, <3>1, <3>2, <3>3, EntryOwnerKept
  <2>3. CASE Purge(p)
    BY <1>0, <2>3 DEF Purge, Goto, memberVars, romVars, histVars, Typed, EntryOwnerAlive,
         HandshakeAwaited, WaitedIssued, InMap, NoEntry, NewEntry, Owned, LocalHeld,
         Holding, Waiting, WaitPc
  <2> QED
    BY <1>4, <2>1, <2>2, <2>3
<1>5. ASSUME NEW p \in Manager, Call(p)
      PROVE  EntryOwnerAlive'
  <2>1. CASE InitBegin(p)
    BY <1>0, <2>1 DEF InitBegin, NewLegacy, Goto, memberVars, globalVars, histVars, Typed,
         EntryOwnerAlive, HandshakeAwaited, WaitedIssued, InMap, NoEntry, NewEntry, Owned,
         LocalHeld, Holding, Waiting, WaitPc
  <2>2. CASE RunAsync(p)
    BY <1>0, <2>2 DEF RunAsync, SubmitRun, Register, threadVars, memberVars, histVars,
         Typed, EntryOwnerAlive, HandshakeAwaited, WaitedIssued, InMap, NoEntry, NewEntry,
         Owned, LocalHeld, Holding, Waiting, WaitPc
  <2>3. CASE RunAipp(p)
    BY <1>0, <2>3 DEF RunAipp, SubmitRun, Register, threadVars, memberVars, histVars, Typed,
         EntryOwnerAlive, HandshakeAwaited, WaitedIssued, InMap, NoEntry, NewEntry, Owned,
         LocalHeld, Holding, Waiting, WaitPc
  <2>4. CASE BeginDeInit(p, "DeInit") \/ BeginDeInit(p, "Destroy")
    <3>1. \A s \in Stamp : InMap(s)' => callBackMap'[s].modelMgr = callBackMap[s].modelMgr
      BY <1>0, <2>4 DEF BeginDeInit, Goto, globalVars, romVars, histVars, InMap, Typed
    <3>2. \A m \in Manager : pc'[m] = "gone" => pc[m] = "gone"
      BY <1>0, <2>4 DEF BeginDeInit, Goto, globalVars, romVars, histVars, Typed
    <3>3. \A r \in Reader : Waiting(r) => Waiting(r)' /\ stamp'[r] = stamp[r]
      BY <1>0, <2>4 DEF BeginDeInit, Goto, globalVars, romVars, histVars, Typed, Waiting, WaitPc
    <3> QED
      BY <1>0, <3>1, <3>2, <3>3, EntryOwnerKept
  <2> QED
    BY <1>5, <2>1, <2>2, <2>3, <2>4 DEF Call
<1>6. ASSUME NEW r \in Reader, Query(r)
      PROVE  EntryOwnerAlive'
  BY <1>0, <1>6 DEF Query, NewLegacy, Goto, memberVars, globalVars, histVars, Typed,
       EntryOwnerAlive, HandshakeAwaited, WaitedIssued, InMap, NoEntry, NewEntry, Owned,
       LocalHeld, Holding, Waiting, WaitPc
<1>7. ASSUME NEW s \in Stamp, Answer(s)
      PROVE  EntryOwnerAlive'
  <2>1. \A t \in Stamp : InMap(t)' => callBackMap'[t].modelMgr = callBackMap[t].modelMgr
    <3>1. CASE OnLoadDone(s)
      BY <1>0, <3>1 DEF OnLoadDone, InMap, Typed, Entry
    <3>2. CASE OnUnloadDone(s)
      BY <1>0, <3>2 DEF OnUnloadDone, InMap, Typed, Entry
    <3>3. CASE OnErrorHandshake(s)
      BY <1>0, <3>3 DEF OnErrorHandshake, InMap, Typed, Entry
    <3>4. CASE RunAnswerBegin(s)
      BY <3>4 DEF RunAnswerBegin, InMap
    <3> QED
      BY <1>7, <3>1, <3>2, <3>3, <3>4 DEF Answer
  <2>2. \A m \in Manager : pc'[m] = "gone" => pc[m] = "gone"
    BY <1>0, <1>7 DEF Answer, OnLoadDone, NotifyAll, memberVars, romVars, OnUnloadDone, histVars, OnErrorHandshake, RunAnswerBegin, threadVars, Typed
  <2>3. \A r \in Reader : Waiting(r) => Waiting(r)' /\ stamp'[r] = stamp[r]
    BY <1>0, <1>7 DEF Answer, OnLoadDone, NotifyAll, memberVars, romVars, OnUnloadDone, histVars, OnErrorHandshake, RunAnswerBegin, threadVars, Typed, Waiting, WaitPc
  <2> QED
    BY <1>0, <2>1, <2>2, <2>3, EntryOwnerKept
<1>8. ASSUME NEW l \in Legacy, ServiceDiedBegin(l)
      PROVE  EntryOwnerAlive'
  BY <1>0, <1>8 DEF ServiceDiedBegin, threadVars, memberVars, histVars, Typed,
       EntryOwnerAlive, HandshakeAwaited, WaitedIssued, InMap, NoEntry, NewEntry, Owned,
       LocalHeld, Holding, Waiting, WaitPc
<1>9. CASE InCallback
  BY <1>0, <1>9 DEF InCallback, RunAnswerEnd, Erase, threadVars, memberVars, romVars,
       ServiceDiedClear, histVars, ServiceDiedVisit, AtEntry, ServiceDiedReturn,
       ServiceDiedDangling, Typed, EntryOwnerAlive, HandshakeAwaited, WaitedIssued, InMap,
       NoEntry, NewEntry, Owned, LocalHeld, Holding, Waiting, WaitPc
<1>10. CASE UNCHANGED vars
  BY <1>10 DEF vars, threadVars, memberVars, globalVars, romVars, histVars, EntryOwnerAlive,
       HandshakeAwaited, WaitedIssued, InMap, NoEntry, NewEntry, Owned, LocalHeld, Holding,
       Waiting, WaitPc
<1> QED
  BY <1>1, <1>2, <1>3, <1>4, <1>5, <1>6, <1>7, <1>8, <1>9, <1>10 DEF Next, InCall,
       Terminated

-----------------------------------------------------------------------------
LEMMA InitOwned ==
  Init => LocalHeld /\ Owned /\ Lent /\ Referred /\ AloneInDeleter /\ EntryOwnerAlive
  BY Disjointness
  DEF Init, LocalHeld, Owned, Lent, Referred, AloneInDeleter, EntryOwnerAlive, Deleting,
      Waiting, WaitPc, Holding, InMap, NoEntry, UnusedLegacy, Thread

\* A legacy manager lives as long as somebody refers to it, the thread that unloads
\* and destroys it is alone with it, the container never holds the last reference,
\* and a pending unload whose object is gone belongs to a query.
THEOREM LegaciesAreSound == Spec => []LegacySound
<1> DEFINE IInv == /\ TypeOK /\ Control /\ FreshEmpty /\ WaitedIssued /\ HandshakeAwaited
                   /\ LocalHeld /\ Owned /\ Lent /\ Referred /\ AloneInDeleter
                   /\ EntryOwnerAlive
<1>1. Init => IInv
  BY InitTyped, InitSafe, InitOwned
<1>2. IInv /\ [Next]_vars => IInv'
  BY StepTyped, FreshStep, WaitedStep, HandshakeStep, LocalHeldStep, OwnedStep, LentStep,
     ReferredStep, AloneStep, EntryOwnerStep
<1>3. IInv => LegacySound
  <2> SUFFICES ASSUME IInv PROVE LegacySound
    OBVIOUS
  <2>0. Typed
    BY TypesKnown
  <2>1. LegacyLifetime
    <3>1. ASSUME NEW p \in Thread, Deleting(p)
          PROVE  LastRef(p, local[p]) /\ (p \in Manager => manager[p] # local[p])
      BY <2>0, <3>1 DEF Typed, AloneInDeleter, LocalHeld, Owned, Deleting, Waiting, Holding, WaitPc
    <3>2. ASSUME NEW l \in Legacy
          PROVE  legacy[l].state = "live" <=> \/ \E m \in Manager : manager[m] = l
                                             \/ \E p \in Thread : local[p] = l
      BY <2>0 DEF Typed, Referred, Owned
    <3> QED
      BY <3>1, <3>2 DEF LegacyLifetime
  <2>2. ContainerBorrows
    BY DEF Lent, ContainerBorrows
  <2> QED
    BY <2>1, <2>2 DEF LegacySound
<1> QED
  BY <1>1, <1>2, <1>3, PTL DEF Spec

=============================================================================
