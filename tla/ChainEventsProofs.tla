------------------------- MODULE ChainEventsProofs --------------------------
(***************************************************************************)
(* The update of a delegate is started at most once, for every number of   *)
(* channels, delegations, goroutines, restarts and failed calls, and the   *)
(* service implements DelegateLife.                                        *)
(*                                                                         *)
(* Rows are copied: the loop and the goroutines keep the row they read,    *)
(* others write the row meanwhile, and the copy is saved over it.  The     *)
(* invariant says of every copy what makes saving it harmless: a copy that *)
(* still has status "init" is of a delegate that was never started.        *)
(***************************************************************************)
EXTENDS ChainEventsTypes

\* The row is of a delegation that has been made.
Known(d) == d.gen <= gen[d.key]

\* A row with status "init" is of a delegate that was not started.
Launchable(d) == d.status = "init" => <<d.key, d.gen>> \notin launched

\* The stored rows.
RowsInv ==
    \A k \in Key : rows[k].key = k /\ Known(rows[k]) /\ Launchable(rows[k])

\* The copies of the loop; there is none of a channel event while a block is
\* handled.
CopiesInv ==
    /\ \A d \in dsTodo : Known(d) /\ Launchable(d)
    /\ Known(cur)
    /\ pc = "mark" => cur.status = "init" /\ Launchable(cur)
    /\ pc \notin {"rpc", "save", "addMonitor", "delete"} => dsTodo = {}

\* The copies of the goroutines: what they save is never "init", nor a row that is gone.
GoroutinesInv ==
    \A t \in TaskId :
        /\ Known(tasks[t].d)
        /\ tasks[t].pc \in {"ubpSave", "unlockSave", "punishSave"} => tasks[t].d.status \notin {"init", "absent"}

\* What was started was delegated before: a new delegation is a new number.
LaunchedInv == \A x \in launched : x[2] <= gen[x[1]]

StartInv == RowsInv /\ CopiesInv /\ GoroutinesInv /\ LaunchedInv

-----------------------------------------------------------------------------
(* What steps have in common.                                              *)

LEMMA Typed ==
    ASSUME TypeInv
    PROVE  /\ rows \in [Key -> Delegate] /\ tasks \in [TaskId -> Task]
           /\ cur \in Delegate /\ dsTodo \subseteq Delegate
           /\ gen \in [Key -> Nat] /\ launched \subseteq (Key \X Nat)
           /\ \A t \in TaskId : tasks[t].d \in Delegate
           /\ monitors \in Seq(Monitor) /\ monTodo \subseteq DOMAIN monitors
           /\ inflight \subseteq Request
  BY DEF TypeInv, DbTypeOK, LoopInv, LoopTypeOK, TaskTypeOK, HistoryTypeOK, Task

\* A row of a known delegate may be saved if it may be started or is not "init".
LEMMA SaveKeepsRows ==
    ASSUME TypeInv, RowsInv, NEW d \in Delegate, Known(d), Launchable(d),
           UpdateObject(d), UNCHANGED <<gen, launched>>
    PROVE  RowsInv'
  <1>1. d.key \in Key /\ rows \in [Key -> Delegate]
    BY DelegateTypes, Typed
  <1>2. rows' = [rows EXCEPT ![d.key] = d]
    BY DEF UpdateObject
  <1> QED
    BY <1>1, <1>2 DEF RowsInv, Known, Launchable

LEMMA SameRows ==
    ASSUME RowsInv, LaunchedInv, UNCHANGED <<rows, gen, launched>>
    PROVE  RowsInv' /\ LaunchedInv'
  BY DEF RowsInv, LaunchedInv, Known, Launchable

LEMMA SameLaunched ==
    ASSUME LaunchedInv, UNCHANGED <<gen, launched>>
    PROVE  LaunchedInv'
  BY DEF LaunchedInv

LEMMA SameCopies ==
    ASSUME CopiesInv, UNCHANGED <<loopVars, gen, launched>>
    PROVE  CopiesInv'
  BY DEF CopiesInv, loopVars, Known, Launchable

LEMMA SameGoroutines ==
    ASSUME GoroutinesInv, UNCHANGED <<tasks, gen>>
    PROVE  GoroutinesInv'
  BY DEF GoroutinesInv, Known

LEMMA NothingKnown ==
    ASSUME TypeInv
    PROVE  /\ Known(NoDelegate(SomeKey)) /\ NoDelegate(SomeKey) \in Delegate
           /\ IdleTask.d = NoDelegate(SomeKey) /\ IdleTask.pc = "free"
  <1>1. gen[SomeKey] \in Nat /\ SomeKey \in Key
    BY Typed, KeyTypes
  <1> QED
    BY <1>1, KeyTypes DEF Known, NoDelegate, IdleTask

-----------------------------------------------------------------------------
(* The goroutines.                                                         *)

LEMMA TaskKeeps ==
    ASSUME TypeInv, GoroutinesInv, NEW t \in TaskId, NEW at \in TaskPc, UNCHANGED gen
    PROVE  /\ Advance(t, at) /\ at \notin {"ubpSave", "unlockSave", "punishSave"}
              => GoroutinesInv'
           /\ Finish(t) => GoroutinesInv'
           /\ Fail(t, at) => GoroutinesInv'
  <1>0. /\ tasks \in [TaskId -> Task] /\ tasks[t].d \in Delegate
        /\ Known(tasks[t].d)
    BY Typed DEF GoroutinesInv
  <1>1. ASSUME Advance(t, at), at \notin {"ubpSave", "unlockSave", "punishSave"}
        PROVE  GoroutinesInv'
    BY <1>0, <1>1 DEF Advance, GoroutinesInv, Known, Task
  <1>2. ASSUME Finish(t) PROVE GoroutinesInv'
    BY <1>0, <1>2, NothingKnown DEF Finish, GoroutinesInv, Known
  <1>3. ASSUME Fail(t, at) PROVE GoroutinesInv'
    <2>1. /\ tasks'[t].d.status = "failed" /\ tasks'[t].d.gen = tasks[t].d.gen
          /\ tasks'[t].d.key = tasks[t].d.key
          /\ \A u \in TaskId : u # t => tasks'[u] = tasks[u]
      BY <1>0, <1>3 DEF Fail, Task, Delegate
    <2>2. ASSUME NEW u \in TaskId
          PROVE  /\ Known(tasks[u].d)'
                 /\ tasks'[u].pc \in {"ubpSave", "unlockSave", "punishSave"}
                    => tasks'[u].d.status \notin {"init", "absent"}
      BY <1>0, <2>1 DEF GoroutinesInv, Known
    <2> QED
      BY <2>2 DEF GoroutinesInv
  <1> QED
    BY <1>1, <1>2, <1>3

LEMMA TaskStepStart ==
    ASSUME TypeInv, StartInv, NEW t \in TaskId, TaskStep(t)
    PROVE  StartInv'
  <1> DEFINE d == tasks[t].d
             f == [d EXCEPT !.status = "failed"]
  <1>0. /\ RowsInv /\ CopiesInv /\ GoroutinesInv /\ LaunchedInv
        /\ tasks \in [TaskId -> Task] /\ d \in Delegate /\ Known(d)
    BY Typed DEF StartInv, GoroutinesInv
  <1>f. f \in Delegate /\ Known(f) /\ Launchable(f)
    <2>1. f \in Delegate
      BY <1>0, DelegateTypes DEF Status
    <2>2. f.key = d.key /\ f.gen = d.gen /\ f.status = "failed"
      BY <1>0 DEF Delegate
    <2> QED
      BY <1>0, <2>1, <2>2 DEF Known, Launchable
  <1>t. TaskFrame
    BY DEF TaskStep, UbpLock, UbpTx, UbpSave, UnlockLock, UnlockTx, UnlockSave, PunishLock,
           PunishTx, PunishSave
  <1>u. UNCHANGED <<gen, launched, loopVars>>
    BY <1>t DEF TaskFrame, historyVars
  <1>l. CopiesInv' /\ LaunchedInv'
    BY <1>0, <1>u, SameCopies, SameLaunched
  <1>r. /\ UNCHANGED rows => RowsInv'
        /\ UpdateObject(f) => RowsInv'
        /\ UpdateObject(d) /\ d.status # "init" => RowsInv'
    <2>1. UNCHANGED rows => RowsInv'
      BY <1>0, <1>u, SameRows
    <2>2. UpdateObject(f) => RowsInv'
      BY <1>0, <1>f, <1>u, SaveKeepsRows
    <2>3. ASSUME UpdateObject(d), d.status # "init" PROVE RowsInv'
      <3>1. Launchable(d)
        BY <2>3 DEF Launchable
      <3> QED
        BY <1>0, <1>u, <2>3, <3>1, SaveKeepsRows
    <2> QED
      BY <2>1, <2>2, <2>3
  <1>s. ASSUME tasks[t].pc \in {"ubpSave", "unlockSave", "punishSave"} PROVE d.status # "init"
    BY <1>0, <1>s DEF GoroutinesInv
  <1>1. CASE UbpLock(t)
    <2>1. GoroutinesInv'
      BY <1>0, <1>1, <1>u, TaskKeeps DEF UbpLock, TaskPc
    <2>2. RowsInv'
      BY <1>1, <1>r DEF UbpLock
    <2> QED
      BY <1>l, <2>1, <2>2 DEF StartInv
  <1>2. CASE UbpTx(t)
    <2>1. GoroutinesInv'
      BY <1>0, <1>2, <1>u, TaskKeeps DEF UbpTx, TaskPc
    <2>2. RowsInv'
      BY <1>2, <1>r DEF UbpTx
    <2> QED
      BY <1>l, <2>1, <2>2 DEF StartInv
  <1>3. CASE UbpSave(t)
    <2>1. GoroutinesInv'
      BY <1>0, <1>3, <1>u, TaskKeeps DEF UbpSave, TaskPc
    <2>2. RowsInv'
      BY <1>3, <1>r, <1>s DEF UbpSave
    <2> QED
      BY <1>l, <2>1, <2>2 DEF StartInv
  <1>4. CASE UnlockLock(t)
    <2>1. Finish(t) => GoroutinesInv'
      BY <1>0, <1>u, TaskKeeps DEF TaskPc
    <2>2. ASSUME tasks' = [tasks EXCEPT ![t].pc = "unlockTx",
                                        ![t].das = LocksOf(disposes, d.key)]
          PROVE  GoroutinesInv'
      BY <1>0, <1>u, <2>2 DEF GoroutinesInv, Known, Task
    <2>3. GoroutinesInv'
      BY <1>4, <2>1, <2>2 DEF UnlockLock
    <2>4. RowsInv'
      BY <1>4, <1>r DEF UnlockLock
    <2> QED
      BY <1>l, <2>3, <2>4 DEF StartInv
  <1>5. CASE UnlockTx(t)
    <2>1. PICK done \in SUBSET (d.unlocks \ tasks[t].das) :
             tasks' = [tasks EXCEPT
                    ![t].pc = "unlockSave",
                    ![t].d.status = UnlockStatus(d, tasks[t].das, done)]
      BY <1>5 DEF UnlockTx
    <2> DEFINE st == UnlockStatus(d, tasks[t].das, done)
    <2>2. st \notin {"init", "absent"}
      BY DEF UnlockStatus
    <2> HIDE DEF st
    <2>3. /\ tasks'[t].d.status = st /\ tasks'[t].d.gen = d.gen /\ tasks'[t].d.key = d.key
          /\ \A u \in TaskId : u # t => tasks'[u] = tasks[u]
      BY <1>0, <2>1 DEF st, Task, Delegate
    <2>4. ASSUME NEW u \in TaskId
          PROVE  /\ Known(tasks[u].d)'
                 /\ tasks'[u].pc \in {"ubpSave", "unlockSave", "punishSave"}
                    => tasks'[u].d.status \notin {"init", "absent"}
      BY <1>0, <1>u, <2>2, <2>3 DEF GoroutinesInv, Known
    <2>5. GoroutinesInv'
      BY <2>4 DEF GoroutinesInv
    <2>6. RowsInv'
      BY <1>5, <1>r DEF UnlockTx
    <2> QED
      BY <1>l, <2>5, <2>6 DEF StartInv
  <1>6. CASE UnlockSave(t)
    <2>1. GoroutinesInv'
      BY <1>0, <1>6, <1>u, TaskKeeps DEF UnlockSave, TaskPc
    <2>2. RowsInv'
      BY <1>6, <1>r, <1>s DEF UnlockSave
    <2> QED
      BY <1>l, <2>1, <2>2 DEF StartInv
  <1>7. CASE PunishLock(t)
    <2>1. GoroutinesInv'
      BY <1>0, <1>7, <1>u, TaskKeeps DEF PunishLock, TaskPc
    <2>2. RowsInv'
      BY <1>7, <1>r DEF PunishLock
    <2> QED
      BY <1>l, <2>1, <2>2 DEF StartInv
  <1>8. CASE PunishTx(t)
    <2>1. GoroutinesInv'
      BY <1>0, <1>8, <1>u, TaskKeeps DEF PunishTx, TaskPc
    <2>2. RowsInv'
      BY <1>8, <1>r DEF PunishTx
    <2> QED
      BY <1>l, <2>1, <2>2 DEF StartInv
  <1>9. CASE PunishSave(t)
    <2>1. GoroutinesInv'
      BY <1>0, <1>9, <1>u, TaskKeeps DEF PunishSave, TaskPc
    <2>2. RowsInv'
      BY <1>9, <1>r, <1>s DEF PunishSave
    <2> QED
      BY <1>l, <2>1, <2>2 DEF StartInv
  <1> QED
    BY <1>1, <1>2, <1>3, <1>4, <1>5, <1>6, <1>7, <1>8, <1>9 DEF TaskStep

-----------------------------------------------------------------------------
(* Delegations: a first one gets a number that was never started.          *)

LEMMA RequestStepStart ==
    ASSUME TypeInv, StartInv,
           \/ \E x \in Delegation : VerifyDelegate(x)
           \/ \E r \in inflight :
                 ReceiveFirst(r) \/ ReceiveAgain(r) \/ ReceiveFails(r) \/ ReceiveHalf(r)
    PROVE  StartInv'
  <1>0. /\ RowsInv /\ CopiesInv /\ GoroutinesInv /\ LaunchedInv
        /\ rows \in [Key -> Delegate] /\ gen \in [Key -> Nat]
        /\ cur \in Delegate /\ dsTodo \subseteq Delegate
        /\ launched \subseteq (Key \X Nat)
        /\ \A t \in TaskId : tasks[t].d \in Delegate
        /\ inflight \subseteq Request
    BY Typed DEF StartInv
  <1>1. ASSUME NEW x \in Delegation, VerifyDelegate(x) PROVE StartInv'
    <2>1. UNCHANGED <<rows, loopVars, tasks, gen, launched>>
      BY <1>1 DEF VerifyDelegate, dbVars, historyVars
    <2> QED
      BY <1>0, <2>1, SameRows, SameCopies, SameGoroutines DEF StartInv
  <1>2. ASSUME NEW r \in inflight, ReceiveFirst(r) PROVE StartInv'
    <2> DEFINE k == r.key
               d == FirstDelegate(r, gen[k] + 1)
    <2>1. k \in Key /\ gen[k] \in Nat
      BY <1>0, RequestTypes
    <2>2. /\ rows' = [rows EXCEPT ![k] = d] /\ gen' = [gen EXCEPT ![k] = gen[k] + 1]
          /\ UNCHANGED <<loopVars, tasks, launched>>
      BY <1>2 DEF ReceiveFirst
    <2>3. d.key = k /\ d.gen = gen[k] + 1
      BY DEF FirstDelegate
    <2> HIDE DEF k, d
    <2>4. \A j \in Key : gen[j] \in Nat /\ gen'[j] \in Nat /\ gen[j] <= gen'[j]
      BY <1>0, <2>1, <2>2
    <2>5. ASSUME NEW e \in Delegate, Known(e) PROVE Known(e)'
      <3>1. e.gen \in Nat /\ e.key \in Key
        BY DelegateTypes
      <3> QED
        BY <2>4, <2>5, <3>1 DEF Known
    <2>6. <<k, gen[k] + 1>> \notin launched
      BY <1>0, <2>1 DEF LaunchedInv
    <2>7. ASSUME NEW j \in Key
          PROVE  rows'[j].key = j /\ Known(rows[j])' /\ Launchable(rows[j])'
      <3>1. CASE j = k
        <4>1. rows'[j] = d /\ gen'[j] = gen[k] + 1
          BY <1>0, <2>1, <2>2, <3>1
        <4>2. Known(rows[j])'
          BY <2>1, <2>3, <3>1, <4>1 DEF Known
        <4> QED
          BY <2>2, <2>3, <2>6, <3>1, <4>1, <4>2 DEF Launchable
      <3>2. CASE j # k
        <4>1. rows'[j] = rows[j] /\ rows[j] \in Delegate
          BY <1>0, <2>1, <2>2, <3>2
        <4>2. rows[j].key = j /\ Known(rows[j]) /\ Launchable(rows[j])
          BY <1>0 DEF RowsInv
        <4>3. Known(rows[j])'
          BY <2>4, <4>1, <4>2, DelegateTypes DEF Known
        <4> QED
          BY <2>2, <4>1, <4>2, <4>3 DEF Launchable
      <3> QED
        BY <3>1, <3>2
    <2>8. RowsInv'
      BY <2>7 DEF RowsInv
    <2>9. CopiesInv'
      <3>1. /\ dsTodo' = dsTodo /\ cur' = cur /\ pc' = pc /\ launched' = launched
        BY <2>2 DEF loopVars
      <3>2. \A e \in dsTodo' : Known(e)' /\ Launchable(e)'
        BY <1>0, <2>5, <3>1 DEF CopiesInv, Launchable
      <3>3. Known(cur)'
        <4>1. cur.gen \in Nat /\ cur.key \in Key /\ cur.gen <= gen[cur.key]
          BY <1>0, DelegateTypes DEF CopiesInv, Known
        <4> QED
          BY <2>4, <3>1, <4>1 DEF Known
      <3>4. pc' = "mark" => cur'.status = "init" /\ Launchable(cur)'
        BY <1>0, <3>1 DEF CopiesInv, Launchable
      <3> QED
        BY <1>0, <3>1, <3>2, <3>3, <3>4 DEF CopiesInv
    <2>10. GoroutinesInv'
      <3>1. ASSUME NEW t \in TaskId PROVE Known(tasks[t].d)'
        <4> DEFINE e == tasks[t].d
        <4>1. e \in Delegate /\ e.gen <= gen[e.key]
          BY <1>0 DEF GoroutinesInv, Known
        <4>2. e.gen \in Nat /\ e.key \in Key
          BY <4>1, DelegateTypes
        <4> QED
          BY <2>2, <2>4, <4>1, <4>2 DEF Known
      <3> QED
        BY <1>0, <2>2, <3>1 DEF GoroutinesInv
    <2>11. LaunchedInv'
      <3>1. ASSUME NEW x \in launched PROVE x[2] <= gen'[x[1]]
        <4>1. x[1] \in Key /\ x[2] \in Nat /\ x[2] <= gen[x[1]]
          BY <1>0 DEF LaunchedInv
        <4> QED
          BY <2>4, <4>1
      <3> QED
        BY <2>2, <3>1 DEF LaunchedInv
    <2> QED
      BY <2>8, <2>9, <2>10, <2>11 DEF StartInv
  <1>3. ASSUME NEW r \in inflight, ReceiveAgain(r) PROVE StartInv'
    <2>1. r.key \in Key /\ rows[r.key] \in Delegate
      BY <1>0, RequestTypes
    <2>2. UNCHANGED <<loopVars, tasks, gen, launched>>
      BY <1>3 DEF ReceiveAgain, historyVars
    <2> DEFINE d == rows[r.key]
               e == Redelegate(d, r)
    <2>3. e.key = d.key /\ e.gen = d.gen /\ e.status = d.status
      BY <2>1 DEF Redelegate, Delegate
    <2> HIDE DEF e
    <2>4. rows' = rows \/ rows' = [rows EXCEPT ![r.key] = e]
      BY <1>3 DEF ReceiveAgain, e
    <2>5. RowsInv'
      <3>1. d.key = r.key /\ Known(d) /\ Launchable(d)
        BY <1>0, <2>1 DEF RowsInv
      <3> QED
        BY <1>0, <2>1, <2>2, <2>3, <2>4, <3>1 DEF RowsInv, Known, Launchable
    <2> QED
      BY <1>0, <2>2, <2>5, SameCopies, SameGoroutines, SameLaunched DEF StartInv
  <1>4. ASSUME NEW r \in inflight, ReceiveFails(r) \/ ReceiveHalf(r) PROVE StartInv'
    <2>1. UNCHANGED <<rows, loopVars, tasks, gen, launched>>
      BY <1>4 DEF ReceiveFails, ReceiveHalf, dbVars
    <2> QED
      BY <1>0, <2>1, SameRows, SameCopies, SameGoroutines DEF StartInv
  <1> QED
    BY <1>1, <1>2, <1>3, <1>4

-----------------------------------------------------------------------------
(* The loop.                                                               *)

LEMMA SpawnKeeps ==
    ASSUME TypeInv, GoroutinesInv, UNCHANGED gen, NEW d \in Delegate, Known(d),
           NEW at \in {"ubp", "unlock", "punish"}, Spawn(at, d)
    PROVE  GoroutinesInv'
  <1> DEFINE free == {t \in TaskId : tasks[t].pc = "free"}
             s == CHOOSE t \in free : TRUE
             task == [pc |-> at, d |-> d, das |-> {}]
  <1>1. s \in TaskId /\ tasks' = [tasks EXCEPT ![s] = task]
    BY DEF Spawn
  <1>2. task.d = d /\ task.pc = at
    OBVIOUS
  <1> HIDE DEF s, task
  <1> QED
    BY <1>1, <1>2, Typed DEF GoroutinesInv, Known

\* The steps of handleBlockNumber that start nothing.
LEMMA BlockStepStart ==
    ASSUME TypeInv, StartInv,
           \/ ReceiveBlock \/ HandleSkipped \/ BlockDone \/ MarkFails \/ HandleBlockFails
           \/ \E i \in monTodo : SkipMonitor(i) \/ SpawnMonitor(i) \/ ReadMonitored(i)
    PROVE  StartInv'
  <1>0. /\ RowsInv /\ CopiesInv /\ GoroutinesInv /\ LaunchedInv
        /\ rows \in [Key -> Delegate]
        /\ monitors \in Seq(Monitor) /\ monTodo \subseteq DOMAIN monitors
    BY Typed DEF StartInv
  \* The loop keeps its copies and does not reach "mark".
  <1>k. ASSUME UNCHANGED <<rows, dsTodo, cur, gen, launched>>, GoroutinesInv',
               pc \in {"idle", "skipped", "monitors"},
               pc' \in {"idle", "skipped", "monitors", "event"}
        PROVE  StartInv'
    <2>1. CopiesInv'
      BY <1>0, <1>k DEF CopiesInv, Known, Launchable
    <2> QED
      BY <1>0, <1>k, <2>1, SameRows DEF StartInv
  <1>1. CASE ReceiveBlock \/ HandleSkipped
    <2>1. /\ UNCHANGED <<rows, dsTodo, cur, tasks, gen, launched>>
          /\ pc \in {"idle", "skipped"} /\ pc' = "monitors"
      BY <1>1 DEF ReceiveBlock, HandleSkipped, HandleBlock, dbVars, historyVars
    <2> QED
      BY <1>0, <1>k, <2>1, SameGoroutines
  <1>2. CASE BlockDone \/ HandleBlockFails
    <2>1. /\ UNCHANGED <<rows, dsTodo, cur, tasks, gen, launched>>
          /\ pc = "monitors" /\ pc' \in {"skipped", "idle", "event"}
      BY <1>2 DEF BlockDone, HandleBlockFails, LeaveBlock, dbVars, historyVars
    <2> QED
      BY <1>0, <1>k, <2>1, SameGoroutines
  <1>7. CASE MarkFails
    <2>1. /\ UNCHANGED <<rows, dsTodo, tasks, gen, launched>>
          /\ pc = "mark" /\ pc' = "monitors" /\ cur' = NoDelegate(SomeKey)
      BY <1>7 DEF MarkFails, dbVars
    <2>2. CopiesInv'
      BY <1>0, <2>1, NothingKnown DEF CopiesInv, Known, Launchable
    <2> QED
      BY <1>0, <2>1, <2>2, SameRows, SameGoroutines DEF StartInv
  <1>3. ASSUME NEW i \in monTodo, SkipMonitor(i) PROVE StartInv'
    <2>1. /\ UNCHANGED <<rows, dsTodo, cur, tasks, gen, launched>>
          /\ pc = "monitors" /\ pc' = pc
      BY <1>3 DEF SkipMonitor, dbVars, historyVars
    <2> QED
      BY <1>0, <1>k, <2>1, SameGoroutines
  <1>4. ASSUME NEW i \in monTodo PROVE monitors[i].key \in Key
    <2>1. monitors[i] \in Monitor
      BY <1>0, ElementOfSeq, LenProperties
    <2> QED
      BY <2>1 DEF Monitor
  <1>5. ASSUME NEW i \in monTodo, SpawnMonitor(i) PROVE StartInv'
    <2> DEFINE d == rows[monitors[i].key]
    <2>1. d \in Delegate /\ Known(d)
      BY <1>0, <1>4 DEF RowsInv
    <2>2. /\ UNCHANGED <<rows, dsTodo, cur, gen, launched>>
          /\ pc = "monitors" /\ pc' = pc
          /\ Spawn("punish", d) \/ Spawn("unlock", d)
      BY <1>5 DEF SpawnMonitor, dbVars, historyVars
    <2>3. GoroutinesInv'
      BY <1>0, <2>1, <2>2, SpawnKeeps
    <2> QED
      BY <1>k, <2>2, <2>3
  <1>6. ASSUME NEW i \in monTodo, ReadMonitored(i) PROVE StartInv'
    <2> DEFINE d == rows[monitors[i].key]
    <2>1. Known(d) /\ Launchable(d)
      BY <1>0, <1>4 DEF RowsInv
    <2>2. /\ UNCHANGED <<rows, dsTodo, tasks, gen, launched>>
          /\ pc = "monitors" /\ pc' = "mark" /\ cur' = d /\ d.status = "init"
      BY <1>6 DEF ReadMonitored, dbVars, historyVars
    <2>3. CopiesInv'
      BY <1>0, <2>1, <2>2 DEF CopiesInv, Known, Launchable
    <2> QED
      BY <1>0, <2>2, <2>3, SameRows, SameGoroutines DEF StartInv
  <1> QED
    BY <1>1, <1>2, <1>3, <1>5, <1>6, <1>7

\* The step that starts an update: no copy of the row as it was is left.
LEMMA MarkRunningStart == ASSUME TypeInv, StartInv, MarkRunning PROVE StartInv'
  <1> DEFINE k == cur.key
             x == <<k, cur.gen>>
             d == [cur EXCEPT !.status = "running"]
  <1>0. /\ RowsInv /\ CopiesInv /\ GoroutinesInv /\ LaunchedInv
        /\ rows \in [Key -> Delegate] /\ gen \in [Key -> Nat] /\ cur \in Delegate
        /\ k \in Key /\ cur.gen \in Nat /\ Known(cur) /\ pc = "mark" /\ dsTodo = {}
    BY Typed, DelegateTypes DEF StartInv, CopiesInv, MarkRunning
  <1>1. /\ rows' = UpdateDelegateStatus(rows, k, "running")
        /\ launched' = launched \cup {x} /\ UNCHANGED gen
        /\ Spawn("ubp", d)
        /\ cur' = NoDelegate(SomeKey) /\ pc' = "monitors" /\ dsTodo' = {}
    BY <1>0 DEF MarkRunning
  <1>2. d \in Delegate /\ Known(d)
    <2>1. d \in Delegate
      BY <1>0, DelegateTypes DEF Status
    <2>2. d.gen = cur.gen /\ d.key = k
      BY <1>0 DEF Delegate
    <2> QED
      BY <1>0, <2>1, <2>2 DEF Known
  <1>3. GoroutinesInv'
    BY <1>0, <1>1, <1>2, SpawnKeeps
  <1>4. LaunchedInv'
    BY <1>0, <1>1 DEF LaunchedInv, Known
  <1>5. CopiesInv'
    BY <1>1, NothingKnown DEF CopiesInv, Known
  <1>6. RowsInv'
    <2>1. ASSUME NEW j \in Key
          PROVE  /\ rows'[j].key = rows[j].key /\ rows'[j].gen = rows[j].gen
                 /\ rows'[j].status = rows[j].status \/ (j = k /\ rows'[j].status = "running")
                 /\ j = k => rows'[j].status # "init"
      <3>1. rows[j] \in Delegate /\ rows[k] \in Delegate
        BY <1>0
      <3> QED
        BY <1>0, <1>1, <3>1 DEF UpdateDelegateStatus, Exists, Delegate
    <2>2. ASSUME NEW j \in Key
          PROVE  rows'[j].key = j /\ Known(rows[j])' /\ Launchable(rows[j])'
      <3>1. rows[j].key = j /\ Known(rows[j]) /\ Launchable(rows[j])
        BY <1>0 DEF RowsInv
      <3>2. rows'[j].key = j /\ Known(rows[j])'
        BY <1>1, <2>1, <3>1 DEF Known
      <3>3. Launchable(rows[j])'
        BY <1>1, <2>1, <3>1 DEF Launchable
      <3> QED
        BY <3>2, <3>3
    <2> QED
      BY <2>2 DEF RowsInv
  <1> QED
    BY <1>3, <1>4, <1>5, <1>6 DEF StartInv

\* The steps of handleStateChange.
LEMMA EventStepStart ==
    ASSUME TypeInv, StartInv,
           \/ HandleClosed \/ ReadSettleBlock \/ HandlerFails \/ AddClosedMonitor
           \/ \E d \in dsTodo : SaveClosed(d) \/ DeleteDelegate(d) \/ DeleteFails(d)
           \/ HandleBalanceProofUpdated \/ SaveByOther
           \/ HandleSettledOrWithdraw \/ IgnoreEvent
    PROVE  StartInv'
  <1>0. /\ RowsInv /\ CopiesInv /\ GoroutinesInv /\ LaunchedInv
        /\ rows \in [Key -> Delegate] /\ gen \in [Key -> Nat]
        /\ cur \in Delegate /\ Known(cur) /\ dsTodo \subseteq Delegate
        /\ \A d \in dsTodo : Known(d) /\ Launchable(d)
    BY Typed DEF StartInv, CopiesInv
  <1>u. UNCHANGED <<gen, launched, tasks>>
    BY DEF HandleClosed, ReadSettleBlock, HandlerFails, AddClosedMonitor, SaveClosed,
           DeleteDelegate, DeleteFails, HandleBalanceProofUpdated, SaveByOther,
           HandleSettledOrWithdraw, IgnoreEvent, historyVars
  \* It is left to show that the rows and the loop's copies stay harmless.
  <1>k. ASSUME RowsInv', \A d \in dsTodo' : Known(d) /\ Launchable(d), Known(cur'),
               pc' # "mark",
               pc' \notin {"rpc", "save", "addMonitor", "delete"} => dsTodo' = {}
        PROVE  StartInv'
    <2>1. CopiesInv'
      BY <1>k, <1>u DEF CopiesInv, Known, Launchable
    <2> QED
      BY <1>0, <1>k, <1>u, <2>1, SameLaunched, SameGoroutines DEF StartInv
  <1>r. UNCHANGED rows => RowsInv'
    BY <1>0, <1>u, SameRows
  <1>d. \A d \in EventDelegates : Known(d) /\ Launchable(d)
    BY <1>0 DEF EventDelegates, GetDelegateListByChannelIdentifier, RowsInv
  <1>1. CASE HandleClosed \/ HandleSettledOrWithdraw
    <2>1. /\ UNCHANGED <<rows, cur>> /\ dsTodo' = EventDelegates
          /\ pc' \in {"idle", "rpc", "delete"}
          /\ pc' = "idle" => EventDelegates = {}
      BY <1>1 DEF HandleClosed, HandleSettledOrWithdraw, dbVars
    <2> QED
      BY <1>0, <1>d, <1>k, <1>r, <2>1
  <1>2. CASE ReadSettleBlock
    <2> DEFINE n == channel[blocks[goal].channel].settle
    <2>1. /\ UNCHANGED <<rows, cur>> /\ pc' = "save"
          /\ dsTodo' = {WithSettleBlock(d, n) : d \in dsTodo}
      BY <1>2 DEF ReadSettleBlock, dbVars
    <2> HIDE DEF n
    <2>2. ASSUME NEW d \in dsTodo
          PROVE  Known(WithSettleBlock(d, n)) /\ Launchable(WithSettleBlock(d, n))
      <3>1. LET e == WithSettleBlock(d, n)
            IN  e.key = d.key /\ e.gen = d.gen /\ e.status = d.status
        BY <1>0 DEF WithSettleBlock, Delegate
      <3> QED
        BY <1>0, <3>1 DEF Known, Launchable
    <2> QED
      BY <1>0, <1>k, <1>r, <2>1, <2>2
  <1>3. CASE HandlerFails
    BY <1>0, <1>3, <1>k, <1>r DEF HandlerFails, dbVars
  <1>4. CASE AddClosedMonitor
    BY <1>0, <1>4, <1>k, <1>r, NothingKnown DEF AddClosedMonitor
  <1>5. ASSUME NEW d \in dsTodo, SaveClosed(d) PROVE StartInv'
    <2>1. RowsInv'
      BY <1>0, <1>5, <1>u, SaveKeepsRows DEF SaveClosed
    <2> QED
      BY <1>0, <1>5, <1>k, <2>1 DEF SaveClosed
  <1>6. ASSUME NEW d \in dsTodo, DeleteDelegate(d) \/ DeleteFails(d) PROVE StartInv'
    <2>1. d.key \in Key /\ gen[d.key] \in Nat
      BY <1>0, DelegateTypes
    <2>2. rows' = rows \/ rows' = [rows EXCEPT ![d.key] = NoDelegate(d.key)]
      BY <1>6 DEF DeleteDelegate, DeleteFails
    <2>3. LET e == NoDelegate(d.key) IN e.key = d.key /\ e.gen = 0 /\ e.status # "init"
      BY DEF NoDelegate
    <2>4. RowsInv'
      <3>1. ASSUME NEW j \in Key
            PROVE  rows'[j].key = j /\ Known(rows[j])' /\ Launchable(rows[j])'
        <4>1. rows[j].key = j /\ Known(rows[j]) /\ Launchable(rows[j])
          BY <1>0 DEF RowsInv
        <4>2. j # d.key => rows'[j] = rows[j]
          BY <1>0, <2>2
        <4>3. j = d.key => rows'[j] \in {rows[j], NoDelegate(d.key)}
          BY <1>0, <2>2
        <4> QED
          BY <1>u, <2>1, <2>3, <4>1, <4>2, <4>3 DEF Known, Launchable
      <3> QED
        BY <3>1 DEF RowsInv
    <2>5. /\ UNCHANGED cur /\ dsTodo' \subseteq dsTodo /\ pc' \in {"idle", "delete"}
          /\ pc' = "idle" => dsTodo' = {}
      BY <1>6 DEF DeleteDelegate, DeleteFails
    <2> QED
      BY <1>0, <1>k, <2>4, <2>5
  <1>7. CASE HandleBalanceProofUpdated
    <2> DEFINE k == [channel |-> blocks[goal].channel, delegator |-> blocks[goal].participant]
    <2>1. EventAt(goal) /\ goal \in 0 .. Height /\ ChainTypeOK
      BY <1>7 DEF HandleBalanceProofUpdated, TypeInv, LoopInv, LoopTypeOK
    <2>2. blocks[goal] \in Event
      <3>1. Len(blocks) \in Nat
        BY <2>1, LenProperties DEF ChainTypeOK
      <3>2. goal \in 1 .. Len(blocks)
        BY <2>1, <3>1 DEF EventAt, Height
      <3>3. blocks[goal] \in Event \cup {EmptyBlock}
        BY <2>1, <3>2, ElementOfSeq DEF ChainTypeOK
      <3> QED
        BY <2>1, <3>3 DEF EventAt, EmptyBlock
    <2>3. k \in Key
      BY <2>2 DEF Event, Key
    <2>4. Known(rows[k])
      BY <1>0, <2>3 DEF RowsInv
    <2>5. /\ UNCHANGED <<rows, dsTodo>> /\ pc = "event" /\ pc' \in {"byOther", "idle"}
          /\ cur' = rows[k] \/ cur' = cur
      BY <1>7 DEF HandleBalanceProofUpdated, dbVars
    <2>6. dsTodo = {}
      BY <1>0, <2>5 DEF CopiesInv
    <2> QED
      BY <1>0, <1>k, <1>r, <2>4, <2>5, <2>6
  <1>8. CASE SaveByOther
    <2> DEFINE e == [cur EXCEPT !.status = "byOther"]
    <2>1. e \in Delegate
      BY <1>0, DelegateTypes DEF Status
    <2>2. e.key = cur.key /\ e.gen = cur.gen /\ e.status # "init"
      BY <1>0 DEF Delegate
    <2>3. Known(e) /\ Launchable(e)
      BY <1>0, <2>2 DEF Known, Launchable
    <2>4. UpdateObject(e)
      BY <1>8 DEF SaveByOther
    <2>5. RowsInv'
      BY <1>0, <1>u, <2>1, <2>3, <2>4, SaveKeepsRows
    <2>6. dsTodo = {} /\ UNCHANGED dsTodo /\ cur' = NoDelegate(SomeKey) /\ pc' = "idle"
      BY <1>0, <1>8 DEF SaveByOther, CopiesInv
    <2> QED
      BY <1>k, <2>5, <2>6, NothingKnown
  <1>9. CASE IgnoreEvent
    BY <1>0, <1>9, <1>k, <1>r DEF IgnoreEvent, dbVars, CopiesInv
  <1> QED
    BY <1>1, <1>2, <1>3, <1>4, <1>5, <1>6, <1>7, <1>8, <1>9

-----------------------------------------------------------------------------
LEMMA InitStart == Init => StartInv
  <1> SUFFICES ASSUME Init PROVE StartInv
    OBVIOUS
  <1>0. TypeInv
    BY InitTypeInv
  <1>1. RowsInv
    BY DEF Init, RowsInv, Known, Launchable, NoDelegate
  <1>2. CopiesInv
    BY <1>0, NothingKnown DEF Init, CopiesInv
  <1>3. GoroutinesInv
    <2>1. tasks = [t \in TaskId |-> IdleTask]
      BY DEF Init
    <2> QED
      BY <1>0, <2>1, NothingKnown DEF GoroutinesInv
  <1>4. LaunchedInv
    BY DEF Init, LaunchedInv
  <1> QED
    BY <1>1, <1>2, <1>3, <1>4 DEF StartInv

LEMMA NextStart == TypeInv /\ StartInv /\ [Next]_vars => StartInv'
  <1> SUFFICES ASSUME TypeInv, StartInv, [Next]_vars PROVE StartInv'
    OBVIOUS
  <1>0. RowsInv /\ CopiesInv /\ GoroutinesInv /\ LaunchedInv
    BY DEF StartInv
  <1>s. ASSUME UNCHANGED <<rows, loopVars, tasks, gen, launched>> PROVE StartInv'
    BY <1>0, <1>s, SameRows, SameCopies, SameGoroutines DEF StartInv
  <1>1. CASE ChainStep
    BY <1>1, <1>s DEF ChainStep, ServiceUnchanged, dbVars, historyVars
  <1>2. CASE LoopStep \/ LoopFails
    BY <1>2, BlockStepStart, MarkRunningStart, EventStepStart DEF LoopStep, LoopFails
  <1>3. ASSUME NEW t \in TaskId, TaskStep(t) PROVE StartInv'
    BY <1>3, TaskStepStart
  <1>4. CASE \/ \E x \in Delegation : VerifyDelegate(x)
             \/ \E r \in inflight :
                 ReceiveFirst(r) \/ ReceiveAgain(r) \/ ReceiveFails(r) \/ ReceiveHalf(r)
    BY <1>4, RequestStepStart
  <1>5. CASE Crash
    <2>1. /\ UNCHANGED <<rows, gen, launched>> /\ dsTodo' = {} /\ pc' = "idle"
          /\ cur' = NoDelegate(SomeKey) /\ tasks' = [t \in TaskId |-> IdleTask]
      BY <1>5 DEF Crash, Started, dbVars
    <2>2. CopiesInv'
      BY <2>1, NothingKnown DEF CopiesInv, Known
    <2>3. GoroutinesInv'
      BY <2>1, NothingKnown DEF GoroutinesInv, Known
    <2> QED
      BY <1>0, <2>1, <2>2, <2>3, SameRows DEF StartInv
  <1>6. CASE AlarmFails
    BY <1>6, <1>s DEF AlarmFails, dbVars
  <1>7. CASE UNCHANGED vars
    BY <1>7, <1>s DEF vars, dbVars, historyVars
  <1> QED
    BY <1>1, <1>2, <1>3, <1>4, <1>5, <1>6, <1>7 DEF Next

\* handleBlockNumber starts the update of a delegate at most once, although monitors
\* are duplicated, every block is notified again after a restart, and the loop and the
\* goroutines save rows they read long before: for every number of channels,
\* delegations, goroutines, restarts and failed calls.
THEOREM NeverStartedTwice == Spec => []StartedAtMostOnce
  <1>1. StartInv => StartedAtMostOnce
    BY DEF StartInv, CopiesInv, Launchable, StartedAtMostOnce
  <1> QED
    BY <1>1, SpecTypeInv, InitStart, NextStart, PTL DEF Spec

\* A delegate whose update was started never goes back to "init": saving a row that
\* was read before the start (handleClosedStateChange, the goroutines) cannot undo
\* it, and a later delegation does not.
THEOREM StartedStaysStarted == Spec => []NeverRearmed
  <1>1. StartInv => NeverRearmed
    BY DEF StartInv, RowsInv, Launchable, NeverRearmed
  <1> QED
    BY <1>1, SpecTypeInv, InitStart, NextStart, PTL DEF Spec

-----------------------------------------------------------------------------
(* The service implements DelegateLife: of the delegations of a key only   *)
(* the newest is ever started, and once.  The invariant adds to StartInv   *)
(* that an armed row, and every armed copy that may still be saved, is of  *)
(* the newest delegation.  It holds because a new first delegation needs   *)
(* the row to be gone, only the loop deletes rows, and the loop does not   *)
(* delete while it holds copies it will save.                              *)

\* An armed row is of the newest delegation of its key.
Newest(d) == d.status = "init" => d.gen = gen[d.key] /\ d.gen > 0

\* The copies of the close handler, and the rows they are saved over.
ClosedCopiesInv ==
    pc \in {"rpc", "save", "addMonitor"} =>
        \A d \in dsTodo : Newest(d) /\ Exists(d) /\ Exists(rows[d.key])

\* The copy handleBlockNumber is about to start, and the row it was read from.
MarkedInv == pc = "mark" => Newest(cur) /\ Exists(rows[cur.key])

NewestInv ==
    /\ \A k \in Key : Newest(rows[k])
    /\ ClosedCopiesInv
    /\ MarkedInv

-----------------------------------------------------------------------------
(* What a step does to the rows.                                           *)

\* A row is saved that neither waits to be started nor is gone.
SavesFinished ==
    \E d \in Delegate : UpdateObject(d) /\ d.status \notin {"init", "absent"}

LEMMA FailedIsFinished ==
    ASSUME NEW d \in Delegate, UpdateObject([d EXCEPT !.status = "failed"])
    PROVE  SavesFinished
  <1> DEFINE f == [d EXCEPT !.status = "failed"]
  <1>1. f \in Delegate
    BY DelegateTypes DEF Status
  <1>2. f.status = "failed"
    BY DEF Delegate
  <1> QED
    BY <1>1, <1>2 DEF SavesFinished

LEMMA TaskRows ==
    ASSUME TypeInv, StartInv, NEW t \in TaskId, TaskStep(t)
    PROVE  TaskFrame /\ (UNCHANGED rows \/ SavesFinished)
  <1> DEFINE d == tasks[t].d
  <1>0. d \in Delegate /\ GoroutinesInv
    BY Typed DEF StartInv
  <1>1. TaskFrame
    BY DEF TaskStep, UbpLock, UbpTx, UbpSave, UnlockLock, UnlockTx, UnlockSave, PunishLock,
           PunishTx, PunishSave
  <1>2. \/ UNCHANGED rows
        \/ UpdateObject([d EXCEPT !.status = "failed"])
        \/ UpdateObject(d) /\ tasks[t].pc \in {"ubpSave", "unlockSave", "punishSave"}
    BY DEF TaskStep, UbpLock, UbpTx, UbpSave, UnlockLock, UnlockTx, UnlockSave, PunishLock,
           PunishTx, PunishSave
  <1>3. ASSUME UpdateObject(d), tasks[t].pc \in {"ubpSave", "unlockSave", "punishSave"}
        PROVE  SavesFinished
    <2>1. d.status \notin {"init", "absent"}
      BY <1>0, <1>3 DEF GoroutinesInv
    <2> QED
      BY <1>0, <1>3, <2>1 DEF SavesFinished
  <1> QED
    BY <1>0, <1>1, <1>2, <1>3, FailedIsFinished

LEMMA ByOtherIsFinished ==
    ASSUME TypeInv, SaveByOther
    PROVE  SavesFinished
  <1> DEFINE e == [cur EXCEPT !.status = "byOther"]
  <1>0. cur \in Delegate
    BY Typed
  <1>1. e \in Delegate
    BY <1>0, DelegateTypes DEF Status
  <1>2. e.status = "byOther"
    BY <1>0 DEF Delegate
  <1> QED
    BY <1>1, <1>2 DEF SaveByOther, SavesFinished

\* Saving such a row disarms its key, and removes no row.
LEMMA SavedFinished ==
    ASSUME TypeInv, SavesFinished
    PROVE  \E k \in Key : /\ rows'[k].status \notin {"init", "absent"}
                          /\ \A j \in Key : j # k => rows'[j] = rows[j]
  <1>1. PICK d \in Delegate : UpdateObject(d) /\ d.status \notin {"init", "absent"}
    BY DEF SavesFinished
  <1>2. d.key \in Key /\ rows' = [rows EXCEPT ![d.key] = d] /\ rows \in [Key -> Delegate]
    BY <1>1, DelegateTypes, Typed DEF UpdateObject
  <1>3. rows'[d.key] = d /\ \A j \in Key : j # d.key => rows'[j] = rows[j]
    BY <1>2
  <1> QED
    BY <1>1, <1>2, <1>3

-----------------------------------------------------------------------------
(* The armed rows are of the newest delegations.                           *)

\* Steps that leave the loop and the numbers alone and remove no row.
LEMMA SavedKeepsNewest ==
    ASSUME TypeInv, NewestInv, UNCHANGED <<loopVars, gen>>,
           UNCHANGED rows \/ SavesFinished
    PROVE  NewestInv'
  <1>1. ASSUME NEW k \in Key
        PROVE  /\ rows'[k].status = "init" => rows'[k] = rows[k]
               /\ Exists(rows[k]) => Exists(rows'[k])
    BY SavedFinished DEF Exists
  <1>2. ASSUME NEW k \in Key PROVE Newest(rows[k])'
    BY <1>1 DEF NewestInv, Newest
  <1>3. cur.key \in Key /\ \A d \in dsTodo : d.key \in Key
    BY Typed, DelegateTypes
  <1>4. ClosedCopiesInv' /\ MarkedInv'
    BY <1>1, <1>3 DEF NewestInv, ClosedCopiesInv, MarkedInv, Newest, loopVars
  <1> QED
    BY <1>2, <1>4 DEF NewestInv

LEMMA RequestKeepsNewest ==
    ASSUME TypeInv, StartInv, NewestInv,
           \/ \E x \in Delegation : VerifyDelegate(x)
           \/ \E r \in inflight :
                 ReceiveFirst(r) \/ ReceiveAgain(r) \/ ReceiveFails(r) \/ ReceiveHalf(r)
    PROVE  NewestInv'
  <1>0. /\ rows \in [Key -> Delegate] /\ gen \in [Key -> Nat] /\ inflight \subseteq Request
        /\ cur.key \in Key /\ \A d \in dsTodo : d.key \in Key
        /\ \A k \in Key : Newest(rows[k]) /\ rows[k].key = k
    BY Typed, DelegateTypes DEF NewestInv, StartInv, RowsInv
  <1>1. ASSUME NEW x \in Delegation, VerifyDelegate(x) PROVE NewestInv'
    BY <1>1, SavedKeepsNewest DEF VerifyDelegate, dbVars, historyVars
  <1>2. ASSUME NEW r \in inflight, ReceiveFirst(r) PROVE NewestInv'
    <2> DEFINE k == r.key
               d == FirstDelegate(r, gen[k] + 1)
    <2>1. k \in Key /\ gen[k] \in Nat /\ ~Exists(rows[k])
      BY <1>0, <1>2, RequestTypes DEF ReceiveFirst
    <2>2. /\ rows' = [rows EXCEPT ![k] = d] /\ gen' = [gen EXCEPT ![k] = gen[k] + 1]
          /\ UNCHANGED loopVars
      BY <1>2 DEF ReceiveFirst
    <2>3. d.key = k /\ d.gen = gen[k] + 1
      BY DEF FirstDelegate
    <2> HIDE DEF k, d
    <2>4. /\ rows'[k] = d /\ gen'[k] = gen[k] + 1
          /\ \A j \in Key : j # k => rows'[j] = rows[j] /\ gen'[j] = gen[j]
      BY <1>0, <2>1, <2>2
    <2>5. ASSUME NEW j \in Key PROVE Newest(rows[j])'
      BY <1>0, <2>1, <2>3, <2>4 DEF Newest
    <2>6. ClosedCopiesInv'
      <3>1. \A e \in dsTodo : Exists(rows[e.key]) => e.key # k
        BY <2>1
      <3> QED
        BY <1>0, <2>2, <2>4, <3>1 DEF NewestInv, ClosedCopiesInv, Newest, loopVars
    <2>7. MarkedInv'
      <3>1. Exists(rows[cur.key]) => cur.key # k
        BY <2>1
      <3> QED
        BY <1>0, <2>2, <2>4, <3>1 DEF NewestInv, MarkedInv, Newest, loopVars
    <2> QED
      BY <2>5, <2>6, <2>7 DEF NewestInv
  <1>3. ASSUME NEW r \in inflight, ReceiveAgain(r) PROVE NewestInv'
    <2>1. r.key \in Key /\ rows[r.key] \in Delegate
      BY <1>0, RequestTypes
    <2> DEFINE e == Redelegate(rows[r.key], r)
    <2>2. e.key = rows[r.key].key /\ e.gen = rows[r.key].gen /\ e.status = rows[r.key].status
      BY <2>1 DEF Redelegate, Delegate
    <2> HIDE DEF e
    <2>3. /\ rows' = rows \/ rows' = [rows EXCEPT ![r.key] = e]
          /\ UNCHANGED <<loopVars, gen>>
      BY <1>3 DEF ReceiveAgain, e, historyVars
    <2>4. \A j \in Key : /\ rows'[j].key = rows[j].key /\ rows'[j].gen = rows[j].gen
                         /\ rows'[j].status = rows[j].status
      BY <1>0, <2>1, <2>2, <2>3
    <2>5. ASSUME NEW j \in Key PROVE Newest(rows[j])'
      BY <1>0, <2>3, <2>4 DEF Newest
    <2>6. ClosedCopiesInv' /\ MarkedInv'
      BY <1>0, <2>3, <2>4 DEF NewestInv, ClosedCopiesInv, MarkedInv, Newest, Exists, loopVars
    <2> QED
      BY <2>5, <2>6 DEF NewestInv
  <1>4. ASSUME NEW r \in inflight, ReceiveFails(r) \/ ReceiveHalf(r) PROVE NewestInv'
    BY <1>4, SavedKeepsNewest DEF ReceiveFails, ReceiveHalf, dbVars
  <1> QED
    BY <1>1, <1>2, <1>3, <1>4

\* Steps of the loop that write no row.
LEMMA ReadingKeepsNewest ==
    ASSUME TypeInv, StartInv, NewestInv,
           \/ ReceiveBlock \/ HandleSkipped \/ BlockDone
           \/ \E i \in monTodo : SkipMonitor(i) \/ SpawnMonitor(i) \/ ReadMonitored(i)
           \/ MarkFails \/ HandleBlockFails \/ HandlerFails
           \/ HandleClosed \/ ReadSettleBlock \/ AddClosedMonitor
           \/ HandleBalanceProofUpdated \/ HandleSettledOrWithdraw \/ IgnoreEvent
    PROVE  NewestInv' /\ UNCHANGED <<rows, gen, launched>>
  <1>0. /\ rows \in [Key -> Delegate] /\ dsTodo \subseteq Delegate
        /\ monitors \in Seq(Monitor) /\ monTodo \subseteq DOMAIN monitors
        /\ \A k \in Key : Newest(rows[k]) /\ rows[k].key = k
    BY Typed DEF NewestInv, StartInv, RowsInv
  <1>u. UNCHANGED <<rows, gen, launched>>
    BY DEF ReceiveBlock, HandleSkipped, HandleBlock, BlockDone, SkipMonitor, SpawnMonitor,
           ReadMonitored, MarkFails, HandleBlockFails, HandlerFails, HandleClosed,
           ReadSettleBlock, AddClosedMonitor, HandleBalanceProofUpdated, HandleSettledOrWithdraw, IgnoreEvent,
           dbVars, historyVars
  \* It is left to look at the copies.
  <1>k. ASSUME ClosedCopiesInv', MarkedInv' PROVE NewestInv'
    BY <1>0, <1>k, <1>u DEF NewestInv, Newest
  <1>p. ASSUME pc' \notin {"rpc", "save", "addMonitor", "mark"} PROVE NewestInv'
    BY <1>k, <1>p DEF ClosedCopiesInv, MarkedInv
  <1>1. CASE ReceiveBlock \/ HandleSkipped \/ BlockDone \/ MarkFails \/ HandleBlockFails
    <2>1. pc' \in {"monitors", "skipped", "event", "idle"}
      BY <1>1 DEF ReceiveBlock, HandleSkipped, HandleBlock, BlockDone, MarkFails,
                  HandleBlockFails, LeaveBlock
    <2> QED
      BY <1>p, <1>u, <2>1
  <1>2. ASSUME NEW i \in monTodo, SkipMonitor(i) \/ SpawnMonitor(i) PROVE NewestInv'
    BY <1>2, <1>p DEF SkipMonitor, SpawnMonitor
  <1>3. ASSUME NEW i \in monTodo, ReadMonitored(i) PROVE NewestInv'
    <2>1. monitors[i] \in Monitor
      BY <1>0, ElementOfSeq, LenProperties
    <2>2. monitors[i].key \in Key
      BY <2>1 DEF Monitor
    <2>3. /\ cur' = rows[monitors[i].key] /\ pc' = "mark"
          /\ rows[monitors[i].key].status = "init"
      BY <1>3 DEF ReadMonitored
    <2> QED
      BY <1>0, <1>k, <1>u, <2>2, <2>3 DEF ClosedCopiesInv, MarkedInv, Newest, Exists
  <1>4. CASE HandleClosed
    <2>1. dsTodo' = EventDelegates /\ pc' \in {"idle", "rpc"}
      BY <1>4 DEF HandleClosed
    <2>2. ASSUME NEW d \in EventDelegates
          PROVE  Newest(d) /\ Exists(d) /\ Exists(rows[d.key])
      <3>1. PICK k \in Key : d = rows[k] /\ Exists(rows[k])
        BY DEF EventDelegates, GetDelegateListByChannelIdentifier
      <3> QED
        BY <1>0, <3>1
    <2> QED
      BY <1>k, <1>u, <2>1, <2>2 DEF ClosedCopiesInv, MarkedInv, Newest
  <1>5. CASE ReadSettleBlock
    <2> DEFINE n == channel[blocks[goal].channel].settle
    <2>1. /\ pc = "rpc" /\ pc' = "save" /\ dsTodo' = {WithSettleBlock(d, n) : d \in dsTodo}
      BY <1>5 DEF ReadSettleBlock
    <2> HIDE DEF n
    <2>2. ASSUME NEW d \in dsTodo
          PROVE  LET e == WithSettleBlock(d, n)
                 IN  e.key = d.key /\ e.gen = d.gen /\ e.status = d.status
      BY <1>0 DEF WithSettleBlock, Delegate
    <2>3. \A d \in dsTodo : Newest(d) /\ Exists(d) /\ Exists(rows[d.key])
      BY <2>1 DEF NewestInv, ClosedCopiesInv
    <2>4. ASSUME NEW e \in dsTodo'
          PROVE  /\ e.status = "init" => e.gen = gen[e.key] /\ e.gen > 0
                 /\ Exists(e) /\ Exists(rows[e.key])
      <3>1. PICK d \in dsTodo : e = WithSettleBlock(d, n)
        BY <2>1
      <3>2. e.key = d.key /\ e.gen = d.gen /\ e.status = d.status
        BY <2>2, <3>1
      <3> QED
        BY <2>3, <3>2 DEF Newest, Exists
    <2> QED
      BY <1>k, <1>u, <2>1, <2>4 DEF ClosedCopiesInv, MarkedInv, Newest
  <1>6. CASE AddClosedMonitor
    <2>1. pc = "addMonitor" /\ dsTodo' = dsTodo /\ pc' # "mark"
      BY <1>6 DEF AddClosedMonitor
    <2> QED
      BY <1>k, <1>u, <2>1 DEF NewestInv, ClosedCopiesInv, MarkedInv, Newest
  <1>7. CASE HandlerFails \/ HandleBalanceProofUpdated \/ HandleSettledOrWithdraw
             \/ IgnoreEvent
    <2>1. pc' \in {"idle", "byOther", "delete"}
      BY <1>7 DEF HandlerFails, HandleBalanceProofUpdated, HandleSettledOrWithdraw,
                  IgnoreEvent
    <2> QED
      BY <1>p, <1>u, <2>1
  <1> QED
    BY <1>1, <1>2, <1>3, <1>4, <1>5, <1>6, <1>7, <1>u

\* Steps of the loop that write a row.
LEMMA WritingKeepsNewest ==
    ASSUME TypeInv, StartInv, NewestInv,
           \/ MarkRunning \/ SaveByOther
           \/ \E d \in dsTodo : SaveClosed(d) \/ DeleteDelegate(d) \/ DeleteFails(d)
    PROVE  NewestInv'
  <1>0. /\ rows \in [Key -> Delegate] /\ dsTodo \subseteq Delegate /\ cur.key \in Key
        /\ \A k \in Key : Newest(rows[k]) /\ rows[k] \in Delegate
        /\ \A d \in dsTodo : d.key \in Key
    BY Typed, DelegateTypes DEF NewestInv
  <1>u. UNCHANGED gen
    BY DEF MarkRunning, SaveByOther, SaveClosed, DeleteDelegate, DeleteFails, historyVars
  <1>1. CASE MarkRunning
    <2>1. rows' = UpdateDelegateStatus(rows, cur.key, "running") /\ pc' = "monitors"
      BY <1>1 DEF MarkRunning
    <2>2. ASSUME NEW k \in Key PROVE rows'[k].status = "init" => rows'[k] = rows[k]
      <3>1. rows[k] \in Delegate /\ rows[cur.key] \in Delegate
        BY <1>0
      <3> QED
        BY <1>0, <2>1, <3>1 DEF UpdateDelegateStatus, Delegate
    <2>3. ASSUME NEW k \in Key PROVE Newest(rows[k])'
      BY <1>0, <1>u, <2>2 DEF Newest
    <2> QED
      BY <2>1, <2>3 DEF NewestInv, ClosedCopiesInv, MarkedInv
  <1>2. CASE SaveByOther
    <2>1. pc' = "idle"
      BY <1>2 DEF SaveByOther
    <2>2. ASSUME NEW k \in Key PROVE Newest(rows[k])'
      <3>1. rows'[k].status = "init" => rows'[k] = rows[k]
        BY <1>2, ByOtherIsFinished, SavedFinished
      <3> QED
        BY <1>0, <1>u, <3>1 DEF Newest
    <2> QED
      BY <2>1, <2>2 DEF NewestInv, ClosedCopiesInv, MarkedInv
  <1>3. ASSUME NEW d \in dsTodo, SaveClosed(d) PROVE NewestInv'
    <2>1. /\ pc = "save" /\ pc' = "addMonitor" /\ dsTodo' = dsTodo \ {d}
          /\ rows' = [rows EXCEPT ![d.key] = d]
      BY <1>3 DEF SaveClosed, UpdateObject
    <2>2. \A e \in dsTodo : Newest(e) /\ Exists(e) /\ Exists(rows[e.key])
      BY <2>1 DEF NewestInv, ClosedCopiesInv
    <2>3. rows'[d.key] = d /\ \A j \in Key : j # d.key => rows'[j] = rows[j]
      BY <1>0, <2>1
    <2>4. ASSUME NEW k \in Key PROVE Newest(rows[k])'
      BY <1>0, <1>u, <2>2, <2>3 DEF Newest
    <2>5. ClosedCopiesInv'
      BY <1>0, <1>u, <2>1, <2>2, <2>3 DEF ClosedCopiesInv, Newest
    <2> QED
      BY <2>1, <2>4, <2>5 DEF NewestInv, MarkedInv
  <1>4. ASSUME NEW d \in dsTodo, DeleteDelegate(d) \/ DeleteFails(d) PROVE NewestInv'
    <2>1. /\ pc' \in {"idle", "delete"}
          /\ rows' = rows \/ rows' = [rows EXCEPT ![d.key] = NoDelegate(d.key)]
      BY <1>4 DEF DeleteDelegate, DeleteFails
    <2>2. ASSUME NEW k \in Key PROVE Newest(rows[k])'
      <3>1. rows'[k] = NoDelegate(d.key) \/ rows'[k] = rows[k]
        BY <1>0, <2>1
      <3> QED
        BY <1>0, <1>u, <3>1 DEF Newest, NoDelegate
    <2> QED
      BY <2>1, <2>2 DEF NewestInv, ClosedCopiesInv, MarkedInv
  <1> QED
    BY <1>1, <1>2, <1>3, <1>4

LEMMA InitNewest == Init => NewestInv
  BY DEF Init, NewestInv, Newest, ClosedCopiesInv, MarkedInv, NoDelegate

LEMMA NextNewest == TypeInv /\ StartInv /\ NewestInv /\ [Next]_vars => NewestInv'
  <1> SUFFICES ASSUME TypeInv, StartInv, NewestInv, [Next]_vars PROVE NewestInv'
    OBVIOUS
  <1>1. CASE ChainStep \/ AlarmFails \/ UNCHANGED vars
    BY <1>1, SavedKeepsNewest DEF ChainStep, ServiceUnchanged, AlarmFails, vars, dbVars,
                                  historyVars
  <1>2. CASE LoopStep \/ LoopFails
    BY <1>2, ReadingKeepsNewest, WritingKeepsNewest DEF LoopStep, LoopFails
  <1>3. ASSUME NEW t \in TaskId, TaskStep(t) PROVE NewestInv'
    BY <1>3, TaskRows, SavedKeepsNewest DEF TaskFrame, historyVars
  <1>4. CASE \/ \E x \in Delegation : VerifyDelegate(x)
             \/ \E r \in inflight :
                 ReceiveFirst(r) \/ ReceiveAgain(r) \/ ReceiveFails(r) \/ ReceiveHalf(r)
    BY <1>4, RequestKeepsNewest
  <1>5. CASE Crash
    <2>1. UNCHANGED <<rows, gen>> /\ pc' = "idle"
      BY <1>5 DEF Crash, Started, dbVars
    <2> QED
      BY <2>1 DEF NewestInv, Newest, ClosedCopiesInv, MarkedInv
  <1> QED
    BY <1>1, <1>2, <1>3, <1>4, <1>5 DEF Next

-----------------------------------------------------------------------------
(* The refinement.                                                         *)

\* A step that changes one row, and no number: armed again only if the newest
\* delegation was not started.
LEMMA OneRowIsLife ==
    ASSUME NEW k \in Key, UNCHANGED <<gen, launched>>,
           \A j \in Key : j # k => rows'[j] = rows[j],
           rows'[k].status = "init" => Life!Startable(k)
    PROVE  Life!Next
  <1> DEFINE was == {j \in Key : rows[j].status = "init"}
             is == {j \in Key : rows'[j].status = "init"}
  <1>1. CASE rows'[k].status = "init"
    <2>1. is = was \cup {k}
      BY <1>1
    <2> QED
      BY <1>1, <2>1 DEF Life!Next, Life!Rearm
  <1>2. CASE rows'[k].status # "init"
    <2>1. is = was \ {k}
      BY <1>2
    <2> QED
      BY <2>1 DEF Life!Next, Life!Disarm
  <1> QED
    BY <1>1, <1>2

LEMMA SavedIsLife ==
    ASSUME TypeInv, UNCHANGED <<gen, launched>>, SavesFinished
    PROVE  Life!Next
  BY SavedFinished, OneRowIsLife

LEMMA StutterIsLife ==
    ASSUME UNCHANGED <<rows, gen, launched>>
    PROVE  UNCHANGED Life!vars
  BY DEF Life!vars

LEMMA StepIsLife ==
    TypeInv /\ StartInv /\ NewestInv /\ [Next]_vars => [Life!Next]_Life!vars
  <1> SUFFICES ASSUME TypeInv, StartInv, NewestInv, [Next]_vars
               PROVE  Life!Next \/ UNCHANGED Life!vars
    OBVIOUS
  <1>0. /\ rows \in [Key -> Delegate] /\ gen \in [Key -> Nat] /\ inflight \subseteq Request
        /\ dsTodo \subseteq Delegate /\ cur \in Delegate
    BY Typed
  <1>1. CASE \/ ChainStep \/ AlarmFails \/ Crash \/ UNCHANGED vars
             \/ \E x \in Delegation : VerifyDelegate(x)
             \/ \E r \in inflight : ReceiveFails(r) \/ ReceiveHalf(r)
    BY <1>1, StutterIsLife DEF ChainStep, ServiceUnchanged, AlarmFails, Crash, VerifyDelegate,
                               ReceiveFails, ReceiveHalf, vars, dbVars, historyVars
  <1>2. CASE \/ ReceiveBlock \/ HandleSkipped \/ BlockDone
             \/ \E i \in monTodo : SkipMonitor(i) \/ SpawnMonitor(i) \/ ReadMonitored(i)
             \/ MarkFails \/ HandleBlockFails \/ HandlerFails
             \/ HandleClosed \/ ReadSettleBlock \/ AddClosedMonitor
             \/ HandleBalanceProofUpdated \/ HandleSettledOrWithdraw \/ IgnoreEvent
    BY <1>2, ReadingKeepsNewest, StutterIsLife
  <1>3. ASSUME NEW t \in TaskId, TaskStep(t) PROVE Life!Next \/ UNCHANGED Life!vars
    BY <1>3, TaskRows, SavedIsLife, StutterIsLife DEF TaskFrame, historyVars
  <1>4. CASE SaveByOther
    BY <1>4, ByOtherIsFinished, SavedIsLife DEF SaveByOther, historyVars
  <1>5. CASE MarkRunning
    <2> DEFINE k == cur.key
               was == {j \in Key : rows[j].status = "init"}
               is == {j \in Key : rows'[j].status = "init"}
    <2>1. /\ k \in Key /\ pc = "mark" /\ cur.gen = gen[k] /\ gen[k] > 0
          /\ <<k, gen[k]>> \notin launched
      BY <1>0, <1>5, DelegateTypes DEF MarkRunning, StartInv, CopiesInv, NewestInv, MarkedInv,
                                       Newest, Launchable
    <2>2. /\ rows' = UpdateDelegateStatus(rows, k, "running") /\ UNCHANGED gen
          /\ launched' = launched \cup {<<k, gen[k]>>}
      BY <1>5, <2>1 DEF MarkRunning
    <2>3. ASSUME NEW j \in Key
          PROVE  rows'[j].status = "init" <=> j # k /\ rows[j].status = "init"
      <3>1. rows[j] \in Delegate /\ rows[k] \in Delegate
        BY <1>0, <2>1
      <3> QED
        BY <1>0, <2>1, <2>2, <3>1 DEF UpdateDelegateStatus, Exists, Delegate
    <2>4. is = was \ {k}
      BY <2>3
    <2> QED
      BY <2>1, <2>2, <2>4 DEF Life!Next, Life!Start, Life!Startable
  <1>6. ASSUME NEW d \in dsTodo, SaveClosed(d) PROVE Life!Next
    <2>1. /\ d.key \in Key /\ rows' = [rows EXCEPT ![d.key] = d] /\ pc = "save"
          /\ UNCHANGED <<gen, launched>>
      BY <1>0, <1>6, DelegateTypes DEF SaveClosed, UpdateObject, historyVars
    <2>2. rows'[d.key] = d /\ \A j \in Key : j # d.key => rows'[j] = rows[j]
      BY <1>0, <2>1
    <2>3. d.status = "init" => Life!Startable(d.key)
      BY <2>1 DEF NewestInv, ClosedCopiesInv, Newest, StartInv, CopiesInv, Launchable,
                  Life!Startable
    <2> QED
      BY <2>1, <2>2, <2>3, OneRowIsLife
  <1>7. ASSUME NEW d \in dsTodo, DeleteDelegate(d) \/ DeleteFails(d)
        PROVE  Life!Next \/ UNCHANGED Life!vars
    <2>1. /\ d.key \in Key /\ UNCHANGED <<gen, launched>>
          /\ rows' = rows \/ rows' = [rows EXCEPT ![d.key] = NoDelegate(d.key)]
      BY <1>0, <1>7, DelegateTypes DEF DeleteDelegate, DeleteFails, historyVars
    <2>2. CASE rows' = rows
      BY <2>1, <2>2, StutterIsLife
    <2>3. CASE rows' = [rows EXCEPT ![d.key] = NoDelegate(d.key)]
      <3>1. rows'[d.key].status # "init" /\ \A j \in Key : j # d.key => rows'[j] = rows[j]
        BY <1>0, <2>1, <2>3 DEF NoDelegate
      <3> QED
        BY <2>1, <3>1, OneRowIsLife
    <2> QED
      BY <2>1, <2>2, <2>3
  <1>8. ASSUME NEW r \in inflight, ReceiveFirst(r) PROVE Life!Next
    <2> DEFINE k == r.key
               was == {j \in Key : rows[j].status = "init"}
               is == {j \in Key : rows'[j].status = "init"}
    <2>1. k \in Key /\ gen[k] \in Nat /\ rows[k].status = "absent"
      BY <1>0, <1>8, RequestTypes DEF ReceiveFirst, Exists
    <2>2. /\ rows' = [rows EXCEPT ![k] = FirstDelegate(r, gen[k] + 1)]
          /\ gen' = [gen EXCEPT ![k] = gen[k] + 1] /\ UNCHANGED launched
      BY <1>8 DEF ReceiveFirst
    <2>3. rows'[k].status = "init" /\ \A j \in Key : j # k => rows'[j] = rows[j]
      BY <1>0, <2>1, <2>2 DEF FirstDelegate
    <2>4. is = was \cup {k} /\ k \notin was
      BY <2>1, <2>3
    <2> QED
      BY <2>1, <2>2, <2>4 DEF Life!Next, Life!Accept
  <1>9. ASSUME NEW r \in inflight, ReceiveAgain(r) PROVE Life!Next \/ UNCHANGED Life!vars
    <2>1. r.key \in Key /\ rows[r.key] \in Delegate
      BY <1>0, RequestTypes
    <2> DEFINE e == Redelegate(rows[r.key], r)
               was == {j \in Key : rows[j].status = "init"}
               is == {j \in Key : rows'[j].status = "init"}
    <2>2. e.status = rows[r.key].status
      BY <2>1 DEF Redelegate, Delegate
    <2> HIDE DEF e
    <2>3. /\ rows' = rows \/ rows' = [rows EXCEPT ![r.key] = e]
          /\ UNCHANGED <<gen, launched>>
      BY <1>9 DEF ReceiveAgain, e, historyVars
    <2>4. \A j \in Key : rows'[j].status = rows[j].status
      BY <1>0, <2>1, <2>2, <2>3
    <2>5. is = was
      BY <2>4
    <2> QED
      BY <2>3, <2>5 DEF Life!vars
  <1> QED
    BY <1>1, <1>2, <1>3, <1>4, <1>5, <1>6, <1>7, <1>8, <1>9 DEF Next, LoopStep, LoopFails

LEMMA InitIsLife == Init => Life!Init
  BY DEF Init, Life!Init, NoDelegate

LEMMA SpecNewest == Spec => [](TypeInv /\ StartInv /\ NewestInv)
  <1> QED
    BY SpecTypeInv, InitStart, NextStart, InitNewest, NextNewest, PTL DEF Spec

\* The service implements DelegateLife: however the loop, the goroutines and the HTTP
\* handlers overwrite each other's rows, and whatever is replayed after a restart, the
\* update that is started is the newest delegation's, started for the first time.
THEOREM ServiceImplementsLife == Spec => ImplementsLife
  <1> QED
    BY SpecNewest, StepIsLife, InitIsLife, PTL DEF Spec, ImplementsLife, Life!Spec
=============================================================================
