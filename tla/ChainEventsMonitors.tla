------------------------ MODULE ChainEventsMonitors -------------------------
(***************************************************************************)
(* A stored settle block has its monitors.                                 *)
(*                                                                         *)
(* Rows are saved before their monitors, by one thread, and copied by      *)
(* others.  Until a crash every copy that may be saved over a row is of a  *)
(* settle block that has its monitors (UnrestartedInv).  After a crash in  *)
(* between that is so only once the close event has been delivered again,  *)
(* and only of delegates that were not started (ArmedInv): goroutines are  *)
(* started for all delegates at block 0 and save rows that were never      *)
(* completed.                                                              *)
(***************************************************************************)
EXTENDS ChainEventsTriggers

\* The table has both monitors of settle block s of k.
Watched(table, k, s) ==
    /\ \E i \in DOMAIN table : /\ table[i].key = k /\ table[i].type = "update"
                               /\ table[i].block = s - RevealTimeout
    /\ \E i \in DOMAIN table : /\ table[i].key = k /\ table[i].type = "punish"
                               /\ table[i].block = s

\* A settle block that is set is watched.
Covered(table, k, s) == s > 0 => Watched(table, k, s)

\* The close handler has saved this row and adds its monitors next.
Adding(k) == pc = "addMonitor" /\ cur.key = k /\ cur.settle = rows[k].settle

\* Block n has the close event of k's channel.
CloseAt(n, k) ==
    EventAt(n) /\ blocks[n].type = "close" /\ blocks[n].channel = k.channel

\* The close event of k's channel comes after what the feed has delivered.
CloseAhead(k) == \E n \in fed + 1 .. Height : CloseAt(n, k)

\* The event the loop is handling, and the blocks it may pass over.
EventInv ==
    /\ pc \in {"event", "rpc", "save", "addMonitor", "byOther", "delete"} =>
           goal = fed /\ EventAt(goal)
    /\ pc \in {"rpc", "save", "addMonitor"} =>
           /\ blocks[goal].type = "close"
           /\ \A d \in dsTodo : d.key.channel = blocks[goal].channel
    /\ pc = "addMonitor" => cur.key.channel = blocks[goal].channel
    /\ pc \in {"skipped", "monitors", "mark"} =>
           \A n \in fed + 1 .. goal - 1 : ~EventAt(n)

UnrestartedInv ==
    crashes = 0 =>
        /\ \A k \in Key : Covered(monitors, k, rows[k].settle) \/ Adding(k)
        /\ \A t \in TaskId : Covered(monitors, tasks[t].d.key, tasks[t].d.settle)
        /\ pc \in {"mark", "byOther"} => Covered(monitors, cur.key, cur.settle)

ArmedInv ==
    faults = 0 =>
        \A k \in Key : rows[k].status = "init" =>
            Covered(monitors, k, rows[k].settle) \/ Adding(k) \/ ClosePending(k)

MonitoredInv == EventInv /\ UnrestartedInv /\ ArmedInv

-----------------------------------------------------------------------------
(* Monitors and pending events.                                            *)

LEMMA WatchedAdded ==
    ASSUME NEW table \in Seq(Monitor), NEW d \in Delegate, NEW h \in Nat
    PROVE  /\ Watched(AddDelegateMonitor(table, d, h), d.key, d.settle)
           /\ Covered(FirstMonitor(table, d, h), d.key, d.settle)
           /\ \A k, s : Watched(table, k, s) =>
                 /\ Watched(AddDelegateMonitor(table, d, h), k, s)
                 /\ Watched(FirstMonitor(table, d, h), k, s)
                 /\ Watched(AddUpdateMonitor(table, d, h), k, s)
  <1> DEFINE at(type, n) == [key |-> d.key, type |-> type, block |-> n,
                             gen |-> d.gen, due |-> n > h]
             m1 == at("update", d.settle - RevealTimeout)
             m2 == at("punish", d.settle)
             both == << m1, m2 >>
             new == AddDelegateMonitor(table, d, h)
  <1>1. d.settle \in Int /\ d.settle - RevealTimeout \in Int
    BY RevealAssumption DEF Delegate
  <1>2. \A type \in MonitorType, n \in Int : at(type, n) \in Monitor
    BY DEF Monitor, Delegate
  <1>3. m1 \in Monitor /\ m2 \in Monitor
    BY <1>1, <1>2 DEF MonitorType
  <1>4. /\ m1.key = d.key /\ m1.type = "update" /\ m1.block = d.settle - RevealTimeout
        /\ m2.key = d.key /\ m2.type = "punish" /\ m2.block = d.settle
    OBVIOUS
  <1>5. new = table \o both
    BY DEF AddDelegateMonitor
  <1> HIDE DEF m1, m2, new
  <1>6. both \in Seq(Monitor) /\ Len(both) = 2 /\ both[1] = m1 /\ both[2] = m2
    BY <1>3
  <1> HIDE DEF both
  <1>7. Len(table) \in Nat /\ DOMAIN table = 1 .. Len(table)
    BY LenProperties
  <1>8. /\ new \in Seq(Monitor) /\ Len(new) = Len(table) + 2
        /\ \A i \in 1 .. Len(table) + 2 :
              new[i] = IF i <= Len(table) THEN table[i] ELSE both[i - Len(table)]
    <2>1. /\ table \o both \in Seq(Monitor)
          /\ Len(table \o both) = Len(table) + Len(both)
          /\ \A i \in 1 .. Len(table) + Len(both) :
                (table \o both)[i] = IF i <= Len(table) THEN table[i] ELSE both[i - Len(table)]
      BY <1>6, ConcatProperties
    <2> QED
      BY <1>5, <1>6, <2>1
  <1>9. DOMAIN new = 1 .. Len(table) + 2
    BY <1>8, LenProperties
  <1>10. \A i \in DOMAIN table : i \in DOMAIN new /\ new[i] = table[i]
    BY <1>7, <1>8, <1>9
  <1>11. /\ Len(table) + 1 \in DOMAIN new /\ new[Len(table) + 1] = m1
         /\ Len(table) + 2 \in DOMAIN new /\ new[Len(table) + 2] = m2
    <2>1. /\ Len(table) + 1 \in DOMAIN new /\ Len(table) + 2 \in DOMAIN new
          /\ ~(Len(table) + 1 <= Len(table)) /\ ~(Len(table) + 2 <= Len(table))
          /\ (Len(table) + 1) - Len(table) = 1 /\ (Len(table) + 2) - Len(table) = 2
      BY <1>7, <1>9
    <2> QED
      BY <1>6, <1>8, <1>9, <2>1
  <1>12. Watched(new, d.key, d.settle)
    BY <1>4, <1>11 DEF Watched
  <1>13. ASSUME NEW k, NEW s, Watched(table, k, s) PROVE Watched(new, k, s)
    BY <1>10, <1>13 DEF Watched
  <1>14. FirstMonitor(table, d, h) = IF d.settle > 0 THEN new ELSE table
    BY DEF FirstMonitor, new
  <1>15. ASSUME NEW k, NEW s, Watched(table, k, s)
         PROVE  Watched(AddUpdateMonitor(table, d, h), k, s)
    <2>1. AddUpdateMonitor(table, d, h) = Append(table, m1)
      BY <1>11 DEF AddUpdateMonitor, new
    <2>2. /\ Append(table, m1) \in Seq(Monitor)
          /\ Len(Append(table, m1)) = Len(table) + 1
          /\ \A j \in 1 .. Len(table) : Append(table, m1)[j] = table[j]
      BY <1>3, AppendProperties
    <2>3. \A i \in DOMAIN table :
             i \in DOMAIN Append(table, m1) /\ Append(table, m1)[i] = table[i]
      BY <1>7, <2>2, LenProperties
    <2> QED
      BY <1>15, <2>1, <2>3 DEF Watched
  <1> QED
    BY <1>12, <1>13, <1>14, <1>15 DEF Covered, new

LEMMA WatchedIsMonitored ==
    ASSUME NEW d, Watched(monitors, d.key, d.settle)
    PROVE  HasMonitors(d)
  BY DEF Watched, HasMonitors

\* What the chain has stays where it is.
LEMMA BlockStays ==
    ASSUME TypeInv, ChainGrows, NEW n \in Int, n <= Height
    PROVE  /\ EventAt(n)' <=> EventAt(n)
           /\ EventAt(n) => blocks'[n] = blocks[n]
  <1>1. n >= 1 => blocks'[n] = blocks[n]
    BY DEF ChainGrows, Height
  <1> QED
    BY <1>1 DEF EventAt

LEMMA PendingStays ==
    ASSUME TypeInv, ChainGrows, NEW k, UNCHANGED <<fed, pc, dsTodo>>, ClosePending(k)
    PROVE  ClosePending(k)'
  <1>1. PICK n \in fed .. Height :
           /\ EventAt(n) /\ blocks[n].type = "close" /\ blocks[n].channel = k.channel
           /\ n > fed \/ pc = "event" \/ \E d \in dsTodo : d.key = k
    BY DEF ClosePending
  <1>2. n \in Int /\ n <= Height /\ fed \in Int /\ Height \in Nat
    BY LoopTyped
  <1>3. EventAt(n)' /\ blocks'[n] = blocks[n]
    BY <1>1, <1>2, BlockStays
  <1>4. n \in fed' .. Height'
    BY <1>2 DEF ChainGrows, Height
  <1> QED
    BY <1>1, <1>3, <1>4 DEF ClosePending

LEMMA AheadIsPending ==
    ASSUME TypeInv, NEW k
    PROVE  /\ CloseAhead(k) => ClosePending(k)
           /\ ClosePending(k) /\ pc # "event" /\ dsTodo = {} => CloseAhead(k)
           /\ ClosePending(k) => CloseAhead(k) \/ CloseAt(fed, k)
  <1>1. fed \in Int /\ Height \in Nat
    BY LoopTyped
  <1> QED
    BY <1>1 DEF CloseAhead, ClosePending, CloseAt

LEMMA TypedCounts ==
    ASSUME TypeInv
    PROVE  /\ crashes \in Nat /\ faults \in Nat /\ goal \in Nat /\ goal <= Height
           /\ \A k \in Key : rows[k].settle \in Nat
           /\ \A t \in TaskId : tasks[t].d.settle \in Nat /\ tasks[t].d.key \in Key
           /\ \A d \in dsTodo : d.settle \in Nat /\ d.key \in Key
           /\ cur.settle \in Nat /\ cur.key \in Key
  <1>1. crashes \in Nat /\ faults \in Nat
    BY BoundAssumption DEF TypeInv, HistoryTypeOK
  <1>2. goal \in Nat /\ goal <= Height
    BY LoopTyped DEF TypeInv, LoopInv, LoopTypeOK
  <1>3. \A d \in Delegate : d.settle \in Nat /\ d.key \in Key
    BY DEF Delegate
  <1> QED
    BY <1>1, <1>2, <1>3, Typed

-----------------------------------------------------------------------------
(* Steps of others than the loop.                                          *)

StaysWatched ==
    \A k \in Key, s \in Nat : Watched(monitors, k, s) => Watched(monitors', k, s)

\* The row keeps its settle block and is not armed; or it is finished, and covered
\* unless there was a crash; or it is covered.
KeptRow(k) ==
    \/ /\ rows'[k].settle = rows[k].settle
       /\ rows'[k].status = "init" => rows[k].status = "init"
    \/ rows'[k].status # "init" /\ (crashes = 0 => Covered(monitors', k, rows'[k].settle))
    \/ Covered(monitors', k, rows'[k].settle)

LEMMA OthersKeepMonitored ==
    ASSUME TypeInv, MonitoredInv, ChainGrows, StaysWatched,
           UNCHANGED <<fed, loopVars, crashes>>, faults' = 0 => faults = 0,
           \A k \in Key : KeptRow(k),
           crashes = 0 => \A t \in TaskId :
                              Covered(monitors', tasks'[t].d.key, tasks'[t].d.settle)
    PROVE  MonitoredInv'
  <1>0. /\ pc' = pc /\ goal' = goal /\ cur' = cur /\ dsTodo' = dsTodo /\ fed' = fed
        /\ goal \in Int /\ goal <= Height /\ fed \in Int
        /\ cur.settle \in Nat /\ cur.key \in Key
        /\ \A k \in Key : rows[k].settle \in Nat
    BY TypedCounts, LoopTyped DEF loopVars
  <1>1. EventInv'
    <2>1. /\ EventAt(goal)' <=> EventAt(goal)
          /\ EventAt(goal) => blocks'[goal] = blocks[goal]
      BY <1>0, BlockStays
    <2>2. \A n \in fed + 1 .. goal - 1 : EventAt(n)' <=> EventAt(n)
      BY <1>0, LoopTyped, BlockStays
    <2> QED
      BY <1>0, <2>1, <2>2 DEF MonitoredInv, EventInv, EventAt
  <1>2. ASSUME NEW k \in Key, NEW x \in Nat, Covered(monitors, k, x)
        PROVE  Covered(monitors', k, x)
    BY <1>2 DEF StaysWatched, Covered
  <1>3. UnrestartedInv'
    <2> SUFFICES ASSUME crashes = 0 PROVE UnrestartedInv!2'
      BY DEF UnrestartedInv
    <2>0. UnrestartedInv!2
      BY DEF MonitoredInv, UnrestartedInv
    <2>1. ASSUME NEW k \in Key PROVE Covered(monitors', k, rows'[k].settle) \/ Adding(k)'
      BY <1>0, <1>2, <2>0 DEF KeptRow, Adding
    <2>2. pc \in {"mark", "byOther"} => Covered(monitors', cur.key, cur.settle)
      BY <1>0, <1>2, <2>0
    <2> QED
      BY <1>0, <2>1, <2>2
  <1>4. ArmedInv'
    <2> SUFFICES ASSUME faults' = 0, NEW k \in Key, rows'[k].status = "init"
                 PROVE  Covered(monitors', k, rows'[k].settle) \/ Adding(k)' \/ ClosePending(k)'
      BY DEF ArmedInv
    <2>1. CASE Covered(monitors', k, rows'[k].settle)
      BY <2>1
    <2>2. CASE rows'[k].settle = rows[k].settle /\ rows[k].status = "init"
      <3>1. Covered(monitors, k, rows[k].settle) \/ Adding(k) \/ ClosePending(k)
        BY <2>2 DEF MonitoredInv, ArmedInv
      <3>2. ClosePending(k) => ClosePending(k)'
        BY <1>0, PendingStays
      <3> QED
        BY <1>0, <1>2, <2>2, <3>1, <3>2 DEF Adding
    <2> QED
      BY <2>1, <2>2 DEF KeptRow
  <1> QED
    BY <1>1, <1>3, <1>4 DEF MonitoredInv

\* A goroutine keeps the key and the settle block of its copy.
LEMMA TaskCopies ==
    ASSUME TypeInv, StartInv, NEW t \in TaskId, TaskStep(t)
    PROVE  /\ \A u \in TaskId : \/ tasks'[u].d.settle = 0
                                \/ /\ tasks'[u].d.key = tasks[u].d.key
                                   /\ tasks'[u].d.settle = tasks[u].d.settle
           /\ \/ UNCHANGED rows
              \/ \E e \in Delegate : /\ UpdateObject(e) /\ e.status # "init"
                                     /\ e.key = tasks[t].d.key
                                     /\ e.settle = tasks[t].d.settle
  <1> DEFINE d == tasks[t].d
             f == [d EXCEPT !.status = "failed"]
  <1>0. /\ tasks \in [TaskId -> Task] /\ tasks[t] \in Task /\ d \in Delegate
        /\ tasks[t].pc \in {"ubpSave", "unlockSave", "punishSave"} => d.status # "init"
    BY Typed, TaskTypes DEF StartInv, GoroutinesInv
  <1>1. \/ \E at \in TaskPc : Advance(t, at) \/ Fail(t, at)
        \/ Finish(t)
        \/ tasks' = [tasks EXCEPT ![t].pc = "unlockTx", ![t].das = LocksOf(disposes, d.key)]
        \/ \E st \in Status :
              tasks' = [tasks EXCEPT ![t].pc = "unlockSave", ![t].d.status = st]
    <2>1. CASE UbpLock(t) \/ UbpTx(t) \/ UbpSave(t)
      BY <2>1 DEF UbpLock, UbpTx, UbpSave, TaskPc
    <2>2. CASE UnlockLock(t) \/ UnlockSave(t)
      BY <2>2 DEF UnlockLock, UnlockSave, TaskPc
    <2>3. CASE UnlockTx(t)
      <3>1. PICK done : tasks' = [tasks EXCEPT ![t].pc = "unlockSave",
                                     ![t].d.status = UnlockStatus(d, tasks[t].das, done)]
        BY <2>3 DEF UnlockTx
      <3>2. UnlockStatus(d, tasks[t].das, done) \in Status
        BY DEF UnlockStatus, Status
      <3> QED
        BY <3>1, <3>2
    <2>4. CASE PunishLock(t) \/ PunishTx(t) \/ PunishSave(t)
      BY <2>4 DEF PunishLock, PunishTx, PunishSave, TaskPc
    <2> QED
      BY <2>1, <2>2, <2>3, <2>4 DEF TaskStep
  <1>2. ASSUME NEW u \in TaskId
        PROVE  \/ tasks'[u].d.settle = 0
               \/ tasks'[u].d.key = tasks[u].d.key /\ tasks'[u].d.settle = tasks[u].d.settle
    <2>1. ASSUME NEW at \in TaskPc, Advance(t, at) PROVE tasks'[u].d = tasks[u].d
      BY <1>0, <2>1 DEF Advance, Task
    <2>2. ASSUME NEW at \in TaskPc, Fail(t, at)
          PROVE  tasks'[u].d.key = tasks[u].d.key /\ tasks'[u].d.settle = tasks[u].d.settle
      BY <1>0, <2>2 DEF Fail, Task, Delegate
    <2>3. ASSUME Finish(t) PROVE tasks'[u].d.settle = 0 \/ tasks'[u].d = tasks[u].d
      BY <1>0, <2>3 DEF Finish, IdleTask, NoDelegate
    <2>4. ASSUME tasks' = [tasks EXCEPT ![t].pc = "unlockTx",
                                        ![t].das = LocksOf(disposes, d.key)]
          PROVE  tasks'[u].d = tasks[u].d
      BY <1>0, <2>4 DEF Task
    <2>5. ASSUME NEW st \in Status,
                 tasks' = [tasks EXCEPT ![t].pc = "unlockSave", ![t].d.status = st]
          PROVE  tasks'[u].d.key = tasks[u].d.key /\ tasks'[u].d.settle = tasks[u].d.settle
      BY <1>0, <2>5 DEF Task, Delegate
    <2> QED
      BY <1>1, <2>1, <2>2, <2>3, <2>4, <2>5
  <1>3. \/ UNCHANGED rows
        \/ UpdateObject(f)
        \/ UpdateObject(d) /\ tasks[t].pc \in {"ubpSave", "unlockSave", "punishSave"}
    BY DEF TaskStep, UbpLock, UbpTx, UbpSave, UnlockLock, UnlockTx, UnlockSave, PunishLock,
           PunishTx, PunishSave
  <1>4. f \in Delegate /\ f.status # "init" /\ f.key = d.key /\ f.settle = d.settle
    <2>1. f \in Delegate
      BY <1>0, DelegateTypes DEF Status
    <2>2. f.status # "init" /\ f.key = d.key /\ f.settle = d.settle
      BY <1>0 DEF Delegate
    <2> QED
      BY <2>1, <2>2
  <1>5. UNCHANGED rows \/ \E e \in Delegate : /\ UpdateObject(e) /\ e.status # "init"
                                              /\ e.key = d.key /\ e.settle = d.settle
    <2> HIDE DEF f, d
    <2> QED
      BY <1>0, <1>3, <1>4
  <1> QED
    BY <1>2, <1>5

LEMMA TaskKeepsMonitored ==
    ASSUME TypeInv, StartInv, MonitoredInv, NEW t \in TaskId, TaskStep(t)
    PROVE  MonitoredInv'
  <1>0. /\ UNCHANGED <<monitors, fed, loopVars, crashes, faults>> /\ ChainGrows
        /\ rows \in [Key -> Delegate]
    BY TaskRows, TaskGrows, Typed DEF TaskFrame, feedVars, historyVars
  <1>1. crashes = 0 => \A u \in TaskId : Covered(monitors, tasks[u].d.key, tasks[u].d.settle)
    BY DEF MonitoredInv, UnrestartedInv
  <1>2. crashes = 0 => \A u \in TaskId :
                           Covered(monitors', tasks'[u].d.key, tasks'[u].d.settle)
    BY <1>0, <1>1, TaskCopies DEF Covered
  <1>3. ASSUME NEW k \in Key PROVE KeptRow(k)
    <2>1. CASE UNCHANGED rows
      BY <2>1 DEF KeptRow
    <2>2. ASSUME NEW e \in Delegate, UpdateObject(e), e.status # "init",
                 e.key = tasks[t].d.key, e.settle = tasks[t].d.settle
          PROVE  KeptRow(k)
      <3>1. e.key \in Key /\ rows' = [rows EXCEPT ![e.key] = e]
        BY <2>2, DelegateTypes DEF UpdateObject
      <3>2. CASE k = e.key
        <4>1. rows'[k] = e
          BY <1>0, <3>1, <3>2
        <4> QED
          BY <1>0, <1>1, <2>2, <3>2, <4>1 DEF KeptRow
      <3>3. CASE k # e.key
        <4>1. rows'[k] = rows[k]
          BY <1>0, <3>1, <3>3
        <4> QED
          BY <4>1 DEF KeptRow
      <3> QED
        BY <3>2, <3>3
    <2> QED
      BY <2>1, <2>2, TaskCopies
  <1> QED
    BY <1>0, <1>2, <1>3, OthersKeepMonitored DEF StaysWatched

LEMMA RequestKeepsMonitored ==
    ASSUME TypeInv, StartInv, MonitoredInv,
           \/ \E x \in Delegation : VerifyDelegate(x)
           \/ \E r \in inflight :
                 ReceiveFirst(r) \/ ReceiveAgain(r) \/ ReceiveFails(r) \/ ReceiveHalf(r)
    PROVE  MonitoredInv'
  <1>0. /\ rows \in [Key -> Delegate] /\ inflight \subseteq Request /\ ChainTypeOK
        /\ monitors \in Seq(Monitor) /\ gen \in [Key -> Nat] /\ Height \in Nat
        /\ faults \in Nat
        /\ \A t \in TaskId : tasks[t].d.settle \in Nat /\ tasks[t].d.key \in Key
    BY Typed, LoopTyped, TypedCounts DEF TypeInv
  <1>1. /\ UNCHANGED <<fed, loopVars, crashes, tasks>> /\ ChainGrows
        /\ faults' = 0 => faults = 0
    <2>1. UNCHANGED <<chainVars, fed, loopVars, crashes, tasks>>
      BY DEF VerifyDelegate, ReceiveFirst, ReceiveAgain, ReceiveFails, ReceiveHalf, feedVars,
             historyVars
    <2>2. faults' = faults \/ faults' = faults + 1
      BY DEF VerifyDelegate, ReceiveFirst, ReceiveAgain, ReceiveFails, ReceiveHalf, Fault,
             historyVars
    <2> QED
      BY <1>0, <2>1, <2>2, UnchangedGrows
  <1>k. ASSUME StaysWatched, \A k \in Key : KeptRow(k) PROVE MonitoredInv'
    <2>1. crashes = 0 => \A t \in TaskId :
                             Covered(monitors', tasks'[t].d.key, tasks'[t].d.settle)
      BY <1>0, <1>1, <1>k DEF MonitoredInv, UnrestartedInv, StaysWatched, Covered
    <2> QED
      BY <1>1, <1>k, <2>1, OthersKeepMonitored
  <1>2. ASSUME NEW x \in Delegation, VerifyDelegate(x) PROVE MonitoredInv'
    BY <1>2, <1>k DEF VerifyDelegate, dbVars, KeptRow, StaysWatched
  <1>3. ASSUME NEW r \in inflight, ReceiveAgain(r) PROVE MonitoredInv'
    <2>1. r.key \in Key /\ rows[r.key] \in Delegate
      BY <1>0, RequestTypes
    <2> DEFINE e == Redelegate(rows[r.key], r)
    <2>2. e.settle = rows[r.key].settle /\ e.status = rows[r.key].status
      BY <2>1 DEF Redelegate, Delegate
    <2> HIDE DEF e
    <2>3. /\ rows' = rows \/ rows' = [rows EXCEPT ![r.key] = e]
          /\ UNCHANGED monitors
      BY <1>3 DEF ReceiveAgain, e
    <2>4. \A k \in Key : KeptRow(k)
      BY <1>0, <2>1, <2>2, <2>3 DEF KeptRow
    <2> QED
      BY <1>k, <2>3, <2>4 DEF StaysWatched
  <1>4. ASSUME NEW r \in inflight, ReceiveFirst(r) PROVE MonitoredInv'
    <2> DEFINE d == FirstDelegate(r, gen[r.key] + 1)
    <2>1. r.key \in Key /\ gen[r.key] \in Nat /\ d \in Delegate
      BY <1>0, RequestTypes
    <2>2. /\ rows' = [rows EXCEPT ![r.key] = d]
          /\ monitors' = FirstMonitor(monitors, d, Height)
      BY <1>4 DEF ReceiveFirst
    <2>3. d.key = r.key
      BY DEF FirstDelegate
    <2> HIDE DEF d
    <2>4. /\ Covered(monitors', d.key, d.settle)
          /\ \A k, s : Watched(monitors, k, s) => Watched(monitors', k, s)
      BY <1>0, <2>1, <2>2, WatchedAdded
    <2>5. ASSUME NEW k \in Key PROVE KeptRow(k)
      <3>1. rows'[k] = IF k = r.key THEN d ELSE rows[k]
        BY <1>0, <2>1, <2>2
      <3> QED
        BY <2>3, <2>4, <3>1 DEF KeptRow
    <2> QED
      BY <1>k, <2>4, <2>5 DEF StaysWatched
  <1>5. ASSUME NEW r \in inflight, ReceiveFails(r) PROVE MonitoredInv'
    BY <1>5, <1>k DEF ReceiveFails, dbVars, KeptRow, StaysWatched
  <1>6. ASSUME NEW r \in inflight, ReceiveHalf(r) PROVE MonitoredInv'
    <2> DEFINE d == FirstDelegate(r, 0)
    <2>1. d \in Delegate
      BY <1>0, RequestTypes
    <2>2. /\ monitors' = monitors \/ monitors' = AddUpdateMonitor(monitors, d, Height)
          /\ UNCHANGED rows
      BY <1>6 DEF ReceiveHalf
    <2> HIDE DEF d
    <2>3. \A k, s : Watched(monitors, k, s) => Watched(AddUpdateMonitor(monitors, d, Height), k, s)
      BY <1>0, <2>1, WatchedAdded
    <2>4. StaysWatched /\ \A k \in Key : KeptRow(k)
      BY <2>2, <2>3 DEF StaysWatched, KeptRow
    <2> QED
      BY <1>k, <2>4
  <1> QED
    BY <1>2, <1>3, <1>4, <1>5, <1>6

-----------------------------------------------------------------------------
(* Steps of the loop.                                                      *)

\* What a step of the loop has to do: a row it saves is covered or gets its monitors
\* next, and it drops neither a monitor to be added nor a close event.
LEMMA LoopKeepsMonitored ==
    ASSUME TypeInv, MonitoredInv, EventInv', StaysWatched, crashes' = crashes,
           faults' = 0 => faults = 0,
           \A k \in Key : KeptRow(k) \/ Adding(k)',
           \A k \in Key : Adding(k) => Covered(monitors', k, rows'[k].settle) \/ Adding(k)',
           \A k \in Key : ClosePending(k) /\ faults' = 0 /\ rows'[k].status = "init" =>
               Covered(monitors', k, rows'[k].settle) \/ Adding(k)' \/ ClosePending(k)',
           crashes = 0 => \A t \in TaskId :
                              Covered(monitors', tasks'[t].d.key, tasks'[t].d.settle),
           crashes = 0 /\ pc' \in {"mark", "byOther"} =>
               Covered(monitors', cur'.key, cur'.settle)
    PROVE  MonitoredInv'
  <1>0. \A k \in Key : rows[k].settle \in Nat
    BY TypedCounts
  <1>1. ASSUME NEW k \in Key, Covered(monitors, k, rows[k].settle)
        PROVE  Covered(monitors', k, rows[k].settle)
    BY <1>0, <1>1 DEF StaysWatched, Covered
  <1>2. UnrestartedInv'
    <2> SUFFICES ASSUME crashes = 0 PROVE UnrestartedInv!2'
      BY DEF UnrestartedInv
    <2>0. \A k \in Key : Covered(monitors, k, rows[k].settle) \/ Adding(k)
      BY DEF MonitoredInv, UnrestartedInv
    <2>1. ASSUME NEW k \in Key PROVE Covered(monitors', k, rows'[k].settle) \/ Adding(k)'
      BY <1>1, <2>0 DEF KeptRow
    <2> QED
      BY <2>1
  <1>3. ArmedInv'
    <2> SUFFICES ASSUME faults' = 0, NEW k \in Key, rows'[k].status = "init"
                 PROVE  Covered(monitors', k, rows'[k].settle) \/ Adding(k)' \/ ClosePending(k)'
      BY DEF ArmedInv
    <2>1. CASE rows'[k].settle = rows[k].settle /\ rows[k].status = "init"
      <3>1. Covered(monitors, k, rows[k].settle) \/ Adding(k) \/ ClosePending(k)
        BY <2>1 DEF MonitoredInv, ArmedInv
      <3> QED
        BY <1>1, <2>1, <3>1
    <2> QED
      BY <2>1 DEF KeptRow
  <1> QED
    BY <1>2, <1>3 DEF MonitoredInv

\* Steps that save nothing.
LEMMA ReadingKeepsMonitored ==
    ASSUME TypeInv, MonitoredInv, EventInv', UNCHANGED <<rows, monitors, crashes>>,
           faults' = 0 => faults = 0, pc # "addMonitor",
           \A k \in Key : ClosePending(k) /\ faults' = 0 /\ rows[k].status = "init" =>
               ClosePending(k)',
           crashes = 0 => \A t \in TaskId :
                              Covered(monitors, tasks'[t].d.key, tasks'[t].d.settle),
           crashes = 0 /\ pc' \in {"mark", "byOther"} =>
               Covered(monitors, cur'.key, cur'.settle)
    PROVE  MonitoredInv'
  <1>1. StaysWatched /\ \A k \in Key : KeptRow(k) /\ ~Adding(k)
    BY DEF StaysWatched, KeptRow, Adding
  <1> QED
    BY <1>1, LoopKeepsMonitored

\* While the loop does not deliver an event, the close events ahead stay ahead.
LEMMA AheadStays ==
    ASSUME TypeInv, NEW k, UNCHANGED <<blocks, fed>>, ClosePending(k),
           CloseAhead(k) \/ (pc # "event" /\ dsTodo \subseteq dsTodo')
    PROVE  ClosePending(k)'
  <1>1. Height' = Height /\ \A n : EventAt(n)' <=> EventAt(n)
    BY DEF Height, EventAt
  <1>2. fed \in Int /\ Height \in Nat
    BY LoopTyped
  <1>3. CASE CloseAhead(k)
    <2>1. PICK n \in fed + 1 .. Height : CloseAt(n, k)
      BY <1>3 DEF CloseAhead
    <2>2. n \in fed' .. Height' /\ n > fed'
      BY <1>1, <1>2
    <2> QED
      BY <1>1, <2>1, <2>2 DEF CloseAt, ClosePending
  <1>4. CASE pc # "event" /\ dsTodo \subseteq dsTodo'
    BY <1>1, <1>4 DEF ClosePending
  <1> QED
    BY <1>3, <1>4

LEMMA SpawnedCovered ==
    ASSUME TypeInv, UnrestartedInv, crashes = 0, NEW at, NEW d,
           Covered(monitors, d.key, d.settle), Spawn(at, d)
    PROVE  \A t \in TaskId : Covered(monitors, tasks'[t].d.key, tasks'[t].d.settle)
  <1> DEFINE free == {t \in TaskId : tasks[t].pc = "free"}
             s == CHOOSE t \in free : TRUE
             task == [pc |-> at, d |-> d, das |-> {}]
  <1>1. s \in TaskId /\ tasks' = [tasks EXCEPT ![s] = task]
    BY DEF Spawn
  <1>2. task.d = d /\ tasks \in [TaskId -> Task]
    BY Typed
  <1> HIDE DEF s, task
  <1>3. \A t \in TaskId : tasks'[t] = IF t = s THEN task ELSE tasks[t]
    BY <1>1, <1>2
  <1> QED
    BY <1>2, <1>3 DEF UnrestartedInv

LEMMA BlockKeepsMonitored ==
    ASSUME TypeInv, StartInv, MonitoredInv,
           \/ ReceiveBlock \/ HandleSkipped \/ MarkRunning \/ MarkFails
           \/ BlockDone \/ HandleBlockFails
           \/ \E i \in monTodo : SkipMonitor(i) \/ SpawnMonitor(i) \/ ReadMonitored(i)
    PROVE  MonitoredInv'
  <1>0. /\ rows \in [Key -> Delegate] /\ fed \in Int /\ goal \in Nat /\ Height \in Nat
        /\ blockNumber \in Nat /\ faults \in Nat
        /\ \A i \in monTodo : monitors[i].key \in Key
        /\ \A k \in Key : rows[k].key = k /\ rows[k] \in Delegate
        /\ cur \in Delegate /\ cur.key \in Key
        /\ EventInv /\ UnrestartedInv /\ CopiesInv
    BY Typed, LoopTyped, TypedCounts, DelegateTypes DEF StartInv, RowsInv, MonitoredInv
  <1>u. /\ pc \in {"idle", "skipped", "monitors", "mark"} /\ dsTodo = {}
        /\ UNCHANGED <<blocks, monitors, dsTodo, crashes>> /\ (faults' = 0 => faults = 0)
    <2>1. /\ pc \in {"idle", "skipped", "monitors", "mark"}
          /\ UNCHANGED <<blocks, monitors, dsTodo, crashes>>
      BY DEF ReceiveBlock, HandleSkipped, HandleBlock, MarkRunning, MarkFails, BlockDone,
             HandleBlockFails, SkipMonitor, SpawnMonitor, ReadMonitored, chainVars, dbVars,
             historyVars
    <2>2. faults' = faults \/ faults' = faults + 1
      BY DEF ReceiveBlock, HandleSkipped, HandleBlock, MarkRunning, MarkFails, BlockDone,
             HandleBlockFails, SkipMonitor, SpawnMonitor, ReadMonitored, Fault, historyVars
    <2> QED
      BY <1>0, <2>1, <2>2 DEF CopiesInv
  <1>e. \A n : EventAt(n)' <=> EventAt(n)
    BY <1>u DEF EventAt
  <1>p. ASSUME NEW k \in Key, ClosePending(k), fed' = fed PROVE ClosePending(k)'
    BY <1>u, <1>p, AheadStays
  <1>t. crashes = 0 => \A t \in TaskId : Covered(monitors, tasks[t].d.key, tasks[t].d.settle)
    BY <1>0 DEF UnrestartedInv
  <1>r. crashes = 0 => \A k \in Key : Covered(monitors, k, rows[k].settle)
    BY <1>0, <1>u DEF UnrestartedInv, Adding
  <1>1. CASE ReceiveBlock
    <2>1. PICK n \in 0 .. Height : NextNotified(n) /\ goal' = n
      BY <1>1 DEF ReceiveBlock
    <2>2. /\ pc' = "monitors" /\ UNCHANGED <<rows, fed, tasks>>
      BY <1>1 DEF ReceiveBlock, HandleBlock, dbVars
    <2>3. \A m \in fed + 1 .. n - 1 : ~EventAt(m)
      BY <1>0, <2>1 DEF NextNotified
    <2>4. EventInv'
      BY <1>e, <2>1, <2>2, <2>3 DEF EventInv
    <2> QED
      BY <1>u, <1>p, <1>t, <2>2, <2>4, ReadingKeepsMonitored
  <1>2. CASE HandleSkipped
    <2>1. /\ pc = "skipped" /\ pc' = "monitors" /\ UNCHANGED <<rows, fed, tasks, goal>>
      BY <1>2 DEF HandleSkipped, HandleBlock, dbVars
    <2>2. EventInv'
      BY <1>0, <1>e, <2>1 DEF EventInv
    <2> QED
      BY <1>u, <1>p, <1>t, <2>1, <2>2, ReadingKeepsMonitored
  <1>3. ASSUME NEW i \in monTodo, SkipMonitor(i) PROVE MonitoredInv'
    <2>1. /\ pc = "monitors" /\ UNCHANGED <<rows, fed, tasks, goal, pc>>
      BY <1>3 DEF SkipMonitor, dbVars, feedVars
    <2>2. EventInv'
      BY <1>0, <1>e, <2>1 DEF EventInv
    <2> QED
      BY <1>u, <1>p, <1>t, <2>1, <2>2, ReadingKeepsMonitored
  <1>4. ASSUME NEW i \in monTodo, SpawnMonitor(i) PROVE MonitoredInv'
    <2> DEFINE d == rows[monitors[i].key]
    <2>1. /\ pc = "monitors" /\ UNCHANGED <<rows, fed, goal, pc>>
          /\ Spawn("punish", d) \/ Spawn("unlock", d)
      BY <1>4 DEF SpawnMonitor, dbVars, feedVars
    <2>2. EventInv'
      BY <1>0, <1>e, <2>1 DEF EventInv
    <2>3. d.key = monitors[i].key /\ (crashes = 0 => Covered(monitors, d.key, d.settle))
      BY <1>0, <1>r
    <2> HIDE DEF d
    <2>4. crashes = 0 => \A t \in TaskId :
                             Covered(monitors, tasks'[t].d.key, tasks'[t].d.settle)
      BY <1>0, <2>1, <2>3, SpawnedCovered
    <2> QED
      BY <1>u, <1>p, <2>1, <2>2, <2>4, ReadingKeepsMonitored
  <1>5. ASSUME NEW i \in monTodo, ReadMonitored(i) PROVE MonitoredInv'
    <2>1. /\ pc = "monitors" /\ pc' = "mark" /\ UNCHANGED <<rows, fed, tasks, goal>>
          /\ cur' = rows[monitors[i].key]
      BY <1>5 DEF ReadMonitored, dbVars, feedVars
    <2>2. EventInv'
      BY <1>0, <1>e, <2>1 DEF EventInv
    <2>3. crashes = 0 => Covered(monitors, cur'.key, cur'.settle)
      BY <1>0, <1>r, <2>1
    <2> QED
      BY <1>u, <1>p, <1>t, <2>1, <2>2, <2>3, ReadingKeepsMonitored
  <1>6. CASE MarkRunning
    <2> DEFINE d == [cur EXCEPT !.status = "running"]
    <2>1. /\ pc = "mark" /\ pc' = "monitors" /\ UNCHANGED <<fed, goal>>
          /\ Spawn("ubp", d) /\ rows' = UpdateDelegateStatus(rows, cur.key, "running")
      BY <1>6 DEF MarkRunning, feedVars
    <2>2. EventInv'
      BY <1>0, <1>e, <2>1 DEF EventInv
    <2>3. d.key = cur.key /\ d.settle = cur.settle
      BY <1>0 DEF Delegate
    <2> HIDE DEF d
    <2>4. crashes = 0 => Covered(monitors, d.key, d.settle)
      BY <1>0, <2>1, <2>3 DEF UnrestartedInv
    <2>5. crashes = 0 => \A t \in TaskId :
                             Covered(monitors', tasks'[t].d.key, tasks'[t].d.settle)
      BY <1>0, <1>u, <2>1, <2>4, SpawnedCovered
    <2>6. ASSUME NEW k \in Key PROVE KeptRow(k)
      <3>1. /\ rows'[k].settle = rows[k].settle
            /\ rows'[k].status = "init" => rows[k].status = "init"
        <4>1. CASE k = cur.key
          BY <1>0, <2>1, <4>1 DEF UpdateDelegateStatus, Exists, Delegate
        <4>2. CASE k # cur.key
          BY <1>0, <2>1, <4>2 DEF UpdateDelegateStatus
        <4> QED
          BY <4>1, <4>2
      <3> QED
        BY <3>1 DEF KeptRow
    <2>7. StaysWatched /\ \A k \in Key : ~Adding(k)
      BY <1>u, <2>1 DEF StaysWatched, Adding
    <2> QED
      BY <1>u, <1>p, <2>1, <2>2, <2>5, <2>6, <2>7, LoopKeepsMonitored
  <1>8. CASE MarkFails
    <2>1. pc = "mark" /\ pc' = "monitors" /\ UNCHANGED <<rows, fed, tasks, goal>>
      BY <1>8 DEF MarkFails, dbVars, feedVars
    <2>2. EventInv'
      BY <1>0, <1>e, <2>1 DEF EventInv
    <2> QED
      BY <1>u, <1>p, <1>t, <2>1, <2>2, ReadingKeepsMonitored
  <1>7. CASE BlockDone \/ HandleBlockFails
    <2>1. /\ pc = "monitors" /\ UNCHANGED <<rows, goal, tasks>>
          /\ \/ pc' = "skipped" /\ fed' = fed
             \/ fed' = goal /\ pc' = IF EventAt(goal) THEN "event" ELSE "idle"
      BY <1>7 DEF BlockDone, HandleBlockFails, LeaveBlock, dbVars
    <2>2. EventInv'
      BY <1>0, <1>e, <2>1 DEF EventInv
    <2>3. ASSUME NEW k \in Key, ClosePending(k), fed' = goal,
                 pc' = IF EventAt(goal) THEN "event" ELSE "idle"
          PROVE  ClosePending(k)'
      <3>1. CloseAhead(k)
        BY <1>u, <2>3, AheadIsPending
      <3>2. PICK n \in fed + 1 .. Height : CloseAt(n, k)
        BY <3>1 DEF CloseAhead
      <3>3. n >= goal
        BY <1>0, <2>1, <3>2 DEF EventInv, CloseAt
      <3>4. n \in fed' .. Height' /\ (n > fed' \/ n = goal)
        BY <1>0, <1>u, <2>3, <3>3 DEF Height
      <3>5. n > fed' \/ pc' = "event"
        BY <2>3, <3>2, <3>4 DEF CloseAt
      <3> QED
        BY <1>e, <1>u, <3>2, <3>4, <3>5 DEF ClosePending, CloseAt
    <2>4. ASSUME NEW k \in Key, ClosePending(k) PROVE ClosePending(k)'
      BY <1>p, <2>1, <2>3, <2>4
    <2>5. pc' \notin {"mark", "byOther"}
      BY <2>1
    <2> QED
      BY <1>u, <1>t, <2>1, <2>2, <2>4, <2>5, ReadingKeepsMonitored
  <1> QED
    BY <1>1, <1>2, <1>3, <1>4, <1>5, <1>6, <1>7, <1>8

LEMMA EventKeepsMonitored ==
    ASSUME TypeInv, StartInv, MonitoredInv,
           \/ HandleClosed \/ ReadSettleBlock \/ HandlerFails \/ AddClosedMonitor
           \/ \E d \in dsTodo : SaveClosed(d) \/ DeleteDelegate(d) \/ DeleteFails(d)
           \/ HandleBalanceProofUpdated \/ SaveByOther
           \/ HandleSettledOrWithdraw \/ IgnoreEvent
    PROVE  MonitoredInv'
  <1>0. /\ rows \in [Key -> Delegate] /\ fed \in Int /\ goal \in Nat /\ Height \in Nat
        /\ monitors \in Seq(Monitor) /\ dsTodo \subseteq Delegate
        /\ \A k \in Key : rows[k].key = k /\ rows[k] \in Delegate /\ rows[k].settle \in Nat
        /\ \A d \in dsTodo : d.key \in Key
        /\ cur \in Delegate /\ cur.key \in Key /\ cur.settle \in Nat
        /\ faults \in Nat
        /\ \A t \in TaskId : tasks[t].d.settle \in Nat /\ tasks[t].d.key \in Key
        /\ EventInv /\ UnrestartedInv
    BY Typed, TypedCounts, LoopTyped, DelegateTypes DEF StartInv, RowsInv, MonitoredInv
  <1>u. /\ pc \in {"event", "rpc", "save", "addMonitor", "byOther", "delete"}
        /\ UNCHANGED <<blocks, fed, goal, tasks, crashes>>
    <2>1. UNCHANGED <<blocks, fed, goal, tasks, crashes>>
      BY DEF HandleClosed, ReadSettleBlock, HandlerFails, AddClosedMonitor, SaveClosed,
             DeleteDelegate, DeleteFails, HandleBalanceProofUpdated, SaveByOther, HandleSettledOrWithdraw,
             IgnoreEvent, chainVars, feedVars, historyVars
    <2>2. pc \in {"event", "rpc", "save", "addMonitor", "byOther", "delete"}
      BY DEF HandleClosed, ReadSettleBlock, HandlerFails, AddClosedMonitor, SaveClosed,
             DeleteDelegate, DeleteFails, HandleBalanceProofUpdated, SaveByOther, HandleSettledOrWithdraw,
             IgnoreEvent
    <2> QED
      BY <2>1, <2>2
  <1>e. /\ goal = fed /\ EventAt(goal) /\ goal >= 1
        /\ Height' = Height /\ \A n : EventAt(n)' <=> EventAt(n)
    BY <1>0, <1>u DEF EventInv, EventAt, Height
  <1>t. crashes = 0 => \A t \in TaskId : Covered(monitors, tasks'[t].d.key, tasks'[t].d.settle)
    BY <1>0, <1>u DEF UnrestartedInv
  \* Another event than a close, and no copies: close events are ahead.
  <1>a. ASSUME NEW k \in Key, ClosePending(k), pc = "event", blocks[goal].type # "close"
        PROVE  ClosePending(k)'
    <2>1. ~CloseAt(fed, k)
      BY <1>a, <1>e DEF CloseAt
    <2> QED
      BY <1>a, <1>u, <2>1, AheadIsPending, AheadStays
  <1>1. CASE HandleClosed
    <2>1. /\ pc = "event" /\ blocks[goal].type = "close" /\ dsTodo' = EventDelegates
          /\ pc' = IF EventDelegates = {} THEN "idle" ELSE "rpc"
          /\ UNCHANGED <<rows, monitors, faults>>
      BY <1>1 DEF HandleClosed, dbVars, historyVars
    <2>2. \A d \in EventDelegates : d.key.channel = blocks[goal].channel
      BY <1>0 DEF EventDelegates, GetDelegateListByChannelIdentifier
    <2>3. EventInv'
      BY <1>e, <1>u, <2>1, <2>2 DEF EventInv
    <2>4. ASSUME NEW k \in Key, ClosePending(k), rows[k].status = "init"
          PROVE  ClosePending(k)'
      <3>1. CASE CloseAhead(k)
        BY <1>u, <2>4, <3>1, AheadStays
      <3>2. CASE CloseAt(fed, k)
        <4>1. rows[k] \in dsTodo' /\ rows[k].key = k
          BY <1>0, <1>e, <2>1, <2>4, <3>2
             DEF CloseAt, EventDelegates, GetDelegateListByChannelIdentifier, Exists
        <4>2. fed \in fed' .. Height' /\ fed <= Height
          BY <1>0, <1>e, <1>u, TypedCounts
        <4> QED
          BY <1>e, <1>u, <3>2, <4>1, <4>2 DEF CloseAt, ClosePending
      <3> QED
        BY <2>4, <3>1, <3>2, AheadIsPending
    <2>5. pc' \notin {"mark", "byOther"}
      BY <2>1
    <2> QED
      BY <1>t, <1>u, <2>1, <2>3, <2>4, <2>5, ReadingKeepsMonitored
  <1>2. CASE ReadSettleBlock
    <2> DEFINE s == channel[blocks[goal].channel].settle
    <2>1. /\ pc = "rpc" /\ pc' = "save" /\ UNCHANGED <<rows, monitors, faults>>
          /\ dsTodo' = {WithSettleBlock(d, s) : d \in dsTodo}
      BY <1>2 DEF ReadSettleBlock, dbVars, historyVars
    <2> HIDE DEF s
    <2>2. \A d \in dsTodo : WithSettleBlock(d, s).key = d.key
      BY <1>0 DEF WithSettleBlock, Delegate
    <2>3. \A e \in dsTodo' : \E d \in dsTodo : e.key = d.key
      BY <2>1, <2>2
    <2>4. EventInv'
      BY <1>0, <1>e, <1>u, <2>1, <2>3 DEF EventInv
    <2>5. ASSUME NEW k \in Key, ClosePending(k) PROVE ClosePending(k)'
      <3>1. (\E d \in dsTodo : d.key = k) => \E d \in dsTodo' : d.key = k
        BY <2>1, <2>2
      <3> QED
        BY <1>e, <1>u, <2>1, <2>5, <3>1 DEF ClosePending
    <2> QED
      BY <1>t, <1>u, <2>1, <2>4, <2>5, ReadingKeepsMonitored
  <1>3. CASE HandlerFails
    <2>1. /\ pc \in {"event", "rpc"} /\ pc' = "idle" /\ UNCHANGED <<rows, monitors>>
          /\ faults' = faults + 1
      BY <1>3 DEF HandlerFails, Fault, dbVars
    <2>2. faults' # 0 /\ EventInv'
      BY <1>0, <2>1 DEF EventInv
    <2> QED
      BY <1>t, <1>u, <2>1, <2>2, ReadingKeepsMonitored
  <1>4. ASSUME NEW d \in dsTodo, SaveClosed(d) PROVE MonitoredInv'
    <2>1. /\ pc = "save" /\ pc' = "addMonitor" /\ cur' = d /\ dsTodo' = dsTodo \ {d}
          /\ rows' = [rows EXCEPT ![d.key] = d] /\ UNCHANGED <<monitors, faults>>
      BY <1>4 DEF SaveClosed, UpdateObject, historyVars
    <2>2. rows'[d.key] = d /\ \A k \in Key : k # d.key => rows'[k] = rows[k]
      BY <1>0, <2>1
    <2>3. Adding(d.key)'
      BY <2>1, <2>2 DEF Adding
    <2>4. EventInv'
      BY <1>0, <1>e, <1>u, <2>1 DEF EventInv
    <2>5. \A k \in Key : KeptRow(k) \/ Adding(k)'
      BY <2>2, <2>3 DEF KeptRow
    <2>6. ASSUME NEW k \in Key, ClosePending(k) PROVE Adding(k)' \/ ClosePending(k)'
      <3>1. CASE k # d.key
        <4>1. (\E e \in dsTodo : e.key = k) => \E e \in dsTodo' : e.key = k
          BY <2>1, <3>1
        <4> QED
          BY <1>e, <1>u, <2>1, <2>6, <4>1 DEF ClosePending
      <3> QED
        BY <2>3, <3>1
    <2>7. StaysWatched /\ \A k \in Key : ~Adding(k)
      BY <2>1 DEF StaysWatched, Adding
    <2>8. crashes = 0 => \A t \in TaskId :
                             Covered(monitors', tasks'[t].d.key, tasks'[t].d.settle)
      BY <1>t, <2>1
    <2> QED
      BY <1>u, <2>1, <2>4, <2>5, <2>6, <2>7, <2>8, LoopKeepsMonitored
  <1>5. CASE AddClosedMonitor
    <2>1. /\ pc = "addMonitor" /\ monitors' = AddDelegateMonitor(monitors, cur, Height)
          /\ pc' = IF dsTodo = {} THEN "idle" ELSE "save"
          /\ UNCHANGED <<rows, dsTodo, faults>>
      BY <1>5 DEF AddClosedMonitor, historyVars
    <2>2. /\ Watched(monitors', cur.key, cur.settle)
          /\ \A k, s : Watched(monitors, k, s) => Watched(monitors', k, s)
      BY <1>0, <2>1, WatchedAdded
    <2>3. StaysWatched /\ \A k \in Key : KeptRow(k)
      BY <2>1, <2>2 DEF StaysWatched, KeptRow
    <2>4. EventInv'
      BY <1>0, <1>e, <1>u, <2>1 DEF EventInv
    <2>5. \A k \in Key : Adding(k) => Covered(monitors', k, rows'[k].settle)
      BY <2>1, <2>2 DEF Adding, Covered
    <2>6. ASSUME NEW k \in Key, ClosePending(k) PROVE ClosePending(k)'
      BY <1>u, <2>1, <2>6, AheadStays
    <2>7. crashes = 0 => \A t \in TaskId :
                             Covered(monitors', tasks'[t].d.key, tasks'[t].d.settle)
      BY <1>t, <2>2 DEF Covered
    <2>8. pc' \notin {"mark", "byOther"}
      BY <2>1
    <2> QED
      BY <1>u, <2>1, <2>3, <2>4, <2>5, <2>6, <2>7, <2>8, LoopKeepsMonitored
  <1>6. CASE HandleBalanceProofUpdated
    <2> DEFINE k == [channel |-> blocks[goal].channel, delegator |-> blocks[goal].participant]
    <2>1. /\ pc = "event" /\ blocks[goal].type = "update"
          /\ pc' = "idle" \/ (pc' = "byOther" /\ cur' = rows[k])
          /\ UNCHANGED <<rows, monitors, dsTodo, faults>>
      BY <1>6 DEF HandleBalanceProofUpdated, dbVars, historyVars
    <2>2. k \in Key
      <3>1. blocks \in Seq(Event \cup {EmptyBlock}) /\ goal \in 1 .. Len(blocks)
        BY <1>0, <1>e, TypedCounts DEF TypeInv, ChainTypeOK, Height
      <3>2. blocks[goal] \in Event \cup {EmptyBlock}
        BY <3>1, ElementOfSeq
      <3>3. blocks[goal] \in Event
        BY <2>1, <3>2 DEF EmptyBlock
      <3> QED
        BY <3>3 DEF Event, Key
    <2> HIDE DEF k
    <2>3. EventInv'
      BY <1>e, <1>u, <2>1 DEF EventInv
    <2>4. crashes = 0 /\ pc' = "byOther" => Covered(monitors, cur'.key, cur'.settle)
      BY <1>0, <2>1, <2>2 DEF UnrestartedInv, Adding
    <2> QED
      BY <1>a, <1>t, <1>u, <2>1, <2>3, <2>4, ReadingKeepsMonitored
  <1>7. CASE HandleSettledOrWithdraw \/ IgnoreEvent
    <2>1. /\ pc = "event" /\ blocks[goal].type # "close" /\ pc' \in {"idle", "delete"}
          /\ UNCHANGED <<rows, monitors, faults>>
      BY <1>7 DEF HandleSettledOrWithdraw, IgnoreEvent, dbVars, historyVars
    <2>2. EventInv'
      BY <1>e, <1>u, <2>1 DEF EventInv
    <2> QED
      BY <1>a, <1>t, <1>u, <2>1, <2>2, ReadingKeepsMonitored
  <1>8. CASE SaveByOther
    <2> DEFINE d == [cur EXCEPT !.status = "byOther"]
    <2>1. /\ pc = "byOther" /\ pc' = "idle" /\ rows' = [rows EXCEPT ![d.key] = d]
          /\ UNCHANGED <<monitors, dsTodo, faults>>
      BY <1>8 DEF SaveByOther, UpdateObject, historyVars
    <2>2. d.key = cur.key /\ d.settle = cur.settle /\ d.status # "init"
      BY <1>0 DEF Delegate
    <2> HIDE DEF d
    <2>3. rows'[d.key] = d /\ \A k \in Key : k # d.key => rows'[k] = rows[k]
      BY <1>0, <2>1, <2>2
    <2>4. crashes = 0 => Covered(monitors', cur.key, cur.settle)
      BY <1>0, <2>1 DEF UnrestartedInv
    <2>5. \A k \in Key : KeptRow(k)
      BY <2>2, <2>3, <2>4 DEF KeptRow
    <2>6. EventInv' /\ StaysWatched /\ \A k \in Key : ~Adding(k)
      BY <2>1 DEF EventInv, StaysWatched, Adding
    <2>7. ASSUME NEW k \in Key, ClosePending(k) PROVE ClosePending(k)'
      BY <1>u, <2>1, <2>7, AheadStays
    <2>8. crashes = 0 => \A t \in TaskId :
                             Covered(monitors', tasks'[t].d.key, tasks'[t].d.settle)
      BY <1>t, <2>1
    <2> QED
      BY <1>u, <2>1, <2>5, <2>6, <2>7, <2>8, LoopKeepsMonitored
  <1>10. ASSUME NEW d \in dsTodo, DeleteFails(d) PROVE MonitoredInv'
    <2>1. /\ pc = "delete" /\ pc' \in {"idle", "delete"} /\ dsTodo' = dsTodo \ {d}
          /\ rows' = rows \/ rows' = [rows EXCEPT ![d.key] = NoDelegate(d.key)]
          /\ UNCHANGED monitors /\ faults' = faults + 1
      BY <1>10 DEF DeleteFails, Fault
    <2>2. /\ rows'[d.key] = rows[d.key] \/ (rows'[d.key].settle = 0 /\ rows'[d.key].status # "init")
          /\ \A k \in Key : k # d.key => rows'[k] = rows[k]
      BY <1>0, <2>1 DEF NoDelegate
    <2>3. \A k \in Key : KeptRow(k)
      BY <2>2 DEF KeptRow, Covered
    <2>4. EventInv' /\ StaysWatched /\ \A k \in Key : ~Adding(k)
      BY <1>e, <1>u, <2>1 DEF EventInv, StaysWatched, Adding
    <2>5. faults' # 0
      BY <1>0, <2>1
    <2>6. crashes = 0 => \A t \in TaskId :
                             Covered(monitors', tasks'[t].d.key, tasks'[t].d.settle)
      BY <1>t, <2>1
    <2> QED
      BY <1>u, <2>1, <2>3, <2>4, <2>5, <2>6, LoopKeepsMonitored
  <1>9. ASSUME NEW d \in dsTodo, DeleteDelegate(d) PROVE MonitoredInv'
    <2>1. /\ pc = "delete" /\ pc' \in {"idle", "delete"} /\ dsTodo' = dsTodo \ {d}
          /\ rows' = [rows EXCEPT ![d.key] = NoDelegate(d.key)]
          /\ UNCHANGED <<monitors, faults>>
      BY <1>9 DEF DeleteDelegate, historyVars
    <2>2. /\ rows'[d.key].settle = 0 /\ rows'[d.key].status # "init"
          /\ \A k \in Key : k # d.key => rows'[k] = rows[k]
      BY <1>0, <2>1 DEF NoDelegate
    <2>3. \A k \in Key : KeptRow(k)
      BY <2>2 DEF KeptRow, Covered
    <2>4. EventInv' /\ StaysWatched /\ \A k \in Key : ~Adding(k)
      BY <1>e, <1>u, <2>1 DEF EventInv, StaysWatched, Adding
    <2>5. ASSUME NEW k \in Key, ClosePending(k), rows'[k].status = "init"
          PROVE  ClosePending(k)'
      <3>1. k # d.key
        BY <2>2, <2>5
      <3>2. (\E e \in dsTodo : e.key = k) => \E e \in dsTodo' : e.key = k
        BY <2>1, <3>1
      <3> QED
        BY <1>e, <1>u, <2>1, <2>5, <3>2 DEF ClosePending
    <2>6. crashes = 0 => \A t \in TaskId :
                             Covered(monitors', tasks'[t].d.key, tasks'[t].d.settle)
      BY <1>t, <2>1
    <2> QED
      BY <1>u, <2>1, <2>3, <2>4, <2>5, <2>6, LoopKeepsMonitored
  <1> QED
    BY <1>1, <1>2, <1>3, <1>4, <1>5, <1>6, <1>7, <1>8, <1>9, <1>10

-----------------------------------------------------------------------------
\* A close event that was being handled is delivered again.
LEMMA CrashKeepsMonitored == ASSUME TypeInv, MonitoredInv, Crash PROVE MonitoredInv'
  <1>0. /\ crashes \in Nat /\ fed \in Int /\ Height \in Nat /\ goal \in Nat /\ goal <= Height
    BY TypedCounts, LoopTyped
  <1>1. /\ UNCHANGED <<blocks, rows, monitors, faults>> /\ crashes' = crashes + 1
        /\ pc' = "idle" /\ fed' = -1
    BY DEF Crash, Started, chainVars, dbVars
  <1>2. EventInv' /\ UnrestartedInv'
    BY <1>0, <1>1 DEF EventInv, UnrestartedInv
  <1>3. ASSUME NEW k \in Key, NEW n \in Int, n <= Height, CloseAt(n, k) PROVE ClosePending(k)'
    <2>1. n >= 1 /\ n \in fed' .. Height' /\ n > fed'
      BY <1>0, <1>1, <1>3 DEF CloseAt, EventAt, Height
    <2> QED
      BY <1>1, <1>3, <2>1 DEF CloseAt, EventAt, ClosePending
  <1>4. ASSUME NEW k \in Key, ClosePending(k) PROVE ClosePending(k)'
    BY <1>0, <1>3, <1>4 DEF ClosePending, CloseAt
  <1>5. ASSUME NEW k \in Key, Adding(k) PROVE ClosePending(k)'
    BY <1>0, <1>3, <1>5 DEF Adding, CloseAt, MonitoredInv, EventInv
  <1>6. ArmedInv'
    BY <1>1, <1>4, <1>5 DEF MonitoredInv, ArmedInv
  <1> QED
    BY <1>2, <1>6 DEF MonitoredInv

LEMMA InitMonitored == Init => MonitoredInv
  <1> SUFFICES ASSUME Init PROVE MonitoredInv
    OBVIOUS
  <1>1. \A k \in Key : rows[k].settle = 0
    BY DEF Init, NoDelegate
  <1>2. \A t \in TaskId : tasks[t].d.settle = 0
    BY DEF Init, IdleTask, NoDelegate
  <1> QED
    BY <1>1, <1>2 DEF Init, MonitoredInv, EventInv, UnrestartedInv, ArmedInv, Covered

LEMMA NextMonitored ==
    TypeInv /\ StartInv /\ MonitoredInv /\ [Next]_vars => MonitoredInv'
  <1> SUFFICES ASSUME TypeInv, StartInv, MonitoredInv, [Next]_vars
               PROVE  MonitoredInv'
    OBVIOUS
  <1>0. ChainTypeOK /\ faults \in Nat
    BY TypedCounts DEF TypeInv
  <1>s. ASSUME ChainGrows, UNCHANGED <<rows, monitors, tasks, fed, loopVars, crashes, faults>>
        PROVE  MonitoredInv'
    <2>1. crashes = 0 => \A t \in TaskId :
                             Covered(monitors', tasks'[t].d.key, tasks'[t].d.settle)
      BY <1>s DEF MonitoredInv, UnrestartedInv
    <2>2. StaysWatched /\ \A k \in Key : KeptRow(k)
      BY <1>s DEF StaysWatched, KeptRow
    <2> QED
      BY <1>s, <2>1, <2>2, OthersKeepMonitored
  <1>1. CASE ChainStep
    BY <1>0, <1>1, <1>s, ChainNextGrows
       DEF ChainStep, ServiceUnchanged, dbVars, feedVars, historyVars
  <1>2. CASE UNCHANGED vars
    BY <1>0, <1>2, <1>s, UnchangedGrows DEF vars, dbVars, feedVars, historyVars
  <1>3. CASE AlarmFails
    <2>1. /\ UNCHANGED <<blocks, rows, monitors, tasks, fed, loopVars, crashes>>
          /\ faults' = faults + 1
      BY <1>3 DEF AlarmFails, Fault, chainVars, dbVars
    <2>2. EventInv'
      BY <2>1 DEF MonitoredInv, EventInv, EventAt, loopVars
    <2>3. UnrestartedInv'
      BY <2>1 DEF MonitoredInv, UnrestartedInv, Adding, loopVars
    <2>4. ArmedInv'
      BY <1>0, <2>1 DEF ArmedInv
    <2> QED
      BY <2>2, <2>3, <2>4 DEF MonitoredInv
  <1>4. CASE LoopStep \/ LoopFails
    BY <1>4, BlockKeepsMonitored, EventKeepsMonitored DEF LoopStep, LoopFails
  <1>5. ASSUME NEW t \in TaskId, TaskStep(t) PROVE MonitoredInv'
    BY <1>5, TaskKeepsMonitored
  <1>6. CASE \/ \E x \in Delegation : VerifyDelegate(x)
             \/ \E r \in inflight :
                   ReceiveFirst(r) \/ ReceiveAgain(r) \/ ReceiveFails(r) \/ ReceiveHalf(r)
    BY <1>6, RequestKeepsMonitored
  <1>7. CASE Crash
    BY <1>7, CrashKeepsMonitored
  <1> QED
    BY <1>1, <1>2, <1>3, <1>4, <1>5, <1>6, <1>7 DEF Next

LEMMA MonitoredIsEnough == TypeInv /\ StartInv /\ MonitoredInv => SettleIsMonitored
  <1> SUFFICES ASSUME TypeInv, StartInv, MonitoredInv, NEW k \in Key,
                      Exists(rows[k]), rows[k].settle > 0,
                      crashes = 0 \/ (faults = 0 /\ rows[k].status = "init")
               PROVE  \/ HasMonitors(rows[k])
                      \/ pc = "addMonitor" /\ cur.key = k
                      \/ ClosePending(k)
    BY DEF SettleIsMonitored
  <1>1. Covered(monitors, k, rows[k].settle) \/ Adding(k) \/ ClosePending(k)
    BY DEF MonitoredInv, UnrestartedInv, ArmedInv
  <1>2. rows[k].key = k
    BY DEF StartInv, RowsInv
  <1> QED
    BY <1>1, <1>2, WatchedIsMonitored DEF Covered, Adding

\* A stored settle block has its monitors: handleClosedStateChange saves the row and
\* adds the monitors in two steps, between which the process may stop, and rows are
\* saved over each other; still, without a restart every row, and after restarts every
\* row not started yet (unless a call or a statement failed), has both monitors, or they
\* are about to be added, or the close event is still to come again.
THEOREM SettleBlocksAreMonitored == Spec => []SettleIsMonitored
  <1> QED
    BY SpecTypeInv, InitStart, NextStart, InitMonitored,
       NextMonitored, MonitoredIsEnough, PTL DEF Spec
=============================================================================
