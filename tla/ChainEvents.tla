----------------------------- MODULE ChainEvents ----------------------------
(***************************************************************************)
(* The monitoring service: one event loop, the goroutines it starts, the   *)
(* HTTP handlers that take delegations, the shared database and the chain. *)
(*                                                                         *)
(* A step ends where another thread may run: at every read or write of the *)
(* database, at every call to the chain.  A handler that reads a row, and  *)
(* later saves the whole row, keeps the row it read in cur, dsTodo or the  *)
(* task; the database transaction of a delegation is one step.             *)
(*                                                                         *)
(* Whether AccountLockSmt finds the money is a free choice here; the fee   *)
(* account has its own module, FeeAccount.                                 *)
(*                                                                         *)
(* A statement of the database that fails is handled as the code does: the *)
(* step is given up, undone or half done.  Where the code panics instead,  *)
(* the failure is a crash.                                                 *)
(***************************************************************************)
EXTENDS DelegateStore

CONSTANTS
    Delegation,     \* the delegations users send: requests without chain data
    TaskId,         \* bound: goroutines running at the same time
    MaxLag,         \* bound: blocks the feed may be behind the chain
    MaxInflight,    \* bound: delegations verified and not yet stored
    MaxCrashes,     \* bound: restarts of the service
    MaxFaults       \* bound: failed calls to the chain node, failed statements

ASSUME DelegationAssumption ==
    Delegation \subseteq [key : Key, nonce : 0 .. MaxNonce, unlocks : SUBSET Lock,
                          punishes : SUBSET Lock, disposes : SUBSET Lock]
ASSUME KeyAssumption == Channel # {} /\ Participant # {}
ASSUME BoundAssumption ==
    MaxLag \in Nat /\ MaxInflight \in Nat /\ MaxCrashes \in Nat /\ MaxFaults \in Nat

VARIABLES
    \* the database
    rows,           \* Delegate table
    punishes,       \* DelegatePunish table
    disposes,       \* DelegateAnnounceDispose table
    monitors,       \* DelegateMonitor table
    latest,         \* LastBlockNumber row
    \* the memory of the process
    alarm,          \* the alarm task of the event feed is running
    fed,            \* the feed has delivered every block and event up to here
    blockNumber,    \* ChainEvents.blockNumber, 0 before the first block
    pc,             \* what the event loop does next
    goal,           \* the block notification being handled
    monTodo,        \* monitors of this block that are still to be looked at
    dsTodo,         \* delegates of this channel event still to be handled
    cur,            \* the row the loop has read and will save
    tasks,          \* goroutines
    inflight,       \* verified requests whose handler has not stored them yet
    \* history and bounds
    gen,            \* number of first delegations of each key
    launched,       \* the delegates whose update goroutine was started
    dropped,        \* keys and blocks whose trigger was given up on a failed statement
    crashes,
    faults

dbVars == <<rows, punishes, disposes, monitors, latest>>
feedVars == <<alarm, fed, blockNumber>>
loopVars == <<pc, goal, monTodo, dsTodo, cur>>
historyVars == <<gen, launched, dropped, crashes, faults>>
vars == <<chainVars, dbVars, feedVars, loopVars, tasks, inflight, historyVars>>

-----------------------------------------------------------------------------
LoopPc == {"idle", "skipped", "monitors", "mark", "event", "rpc", "save",
           "addMonitor", "byOther", "delete"}

TaskPc == {"free", "ubp", "ubpTx", "ubpSave", "unlock", "unlockTx",
           "unlockSave", "punish", "punishTx", "punishSave"}

Task == [pc : TaskPc, d : Delegate, das : SUBSET Lock]

SomeKey == CHOOSE k \in Key : TRUE
IdleTask == [pc |-> "free", d |-> NoDelegate(SomeKey), das |-> {}]

DbTypeOK ==
    /\ rows \in [Key -> Delegate]
    /\ punishes \subseteq LockRow
    /\ disposes \subseteq LockRow
    /\ monitors \in Seq(Monitor)
    /\ latest \in Nat

LoopTypeOK ==
    /\ alarm \in BOOLEAN
    /\ fed \in -1 .. Height
    /\ blockNumber \in 0 .. Height
    /\ pc \in LoopPc
    /\ goal \in 0 .. Height
    /\ monTodo \subseteq DOMAIN monitors
    /\ dsTodo \subseteq Delegate
    /\ cur \in Delegate

TaskTypeOK ==
    /\ tasks \in [TaskId -> Task]
    /\ inflight \subseteq Request

HistoryTypeOK ==
    /\ gen \in [Key -> Nat]
    /\ launched \subseteq (Key \X Nat)
    /\ dropped \subseteq (Key \X Nat)
    /\ crashes \in 0 .. MaxCrashes
    /\ faults \in 0 .. MaxFaults

\* Types, and: the loop never handles, or takes as delivered, a block that the
\* chain does not have.
TypeOK == ChainTypeOK /\ DbTypeOK /\ LoopTypeOK /\ TaskTypeOK /\ HistoryTypeOK

\* The memory of a process that has just started: NewChainEvents and Start.
\* The feed starts from GetLatestBlockNumber, which never returns the saved
\* number: block 0 is notified first and every event is delivered again.
Started ==
    /\ alarm' = TRUE
    /\ fed' = -1
    /\ blockNumber' = 0
    /\ pc' = "idle"
    /\ goal' = 0
    /\ monTodo' = {}
    /\ dsTodo' = {}
    /\ cur' = NoDelegate(SomeKey)
    /\ tasks' = [t \in TaskId |-> IdleTask]
    /\ inflight' = {}

\* The service is deployed with an empty database; the notification of block 0
\* found nothing to do.
Init ==
    /\ ChainInit
    /\ rows = [k \in Key |-> NoDelegate(k)]
    /\ punishes = {}
    /\ disposes = {}
    /\ monitors = <<>>
    /\ latest = 0
    /\ alarm = TRUE
    /\ fed = 0
    /\ blockNumber = 0
    /\ pc = "idle"
    /\ goal = 0
    /\ monTodo = {}
    /\ dsTodo = {}
    /\ cur = NoDelegate(SomeKey)
    /\ tasks = [t \in TaskId |-> IdleTask]
    /\ inflight = {}
    /\ gen = [k \in Key |-> 0]
    /\ launched = {}
    /\ dropped = {}
    /\ crashes = 0
    /\ faults = 0

\* UpdateObject: saves every column of the row; a row that is gone is
\* inserted again.
UpdateObject(d) == rows' = [rows EXCEPT ![d.key] = d]

\* A call to the chain node, or a statement of the database, fails.
Fault == faults < MaxFaults /\ faults' = faults + 1

\* go f(d): a goroutine takes a free slot.
Spawn(at, d) ==
    LET free == {t \in TaskId : tasks[t].pc = "free"}
    IN  /\ free # {}
        /\ tasks' = [tasks EXCEPT ![CHOOSE t \in free : TRUE] =
                         [pc |-> at, d |-> d, das |-> {}]]

-----------------------------------------------------------------------------
(* The event feed and handleBlockNumber.                                   *)

EventAt(n) == n >= 1 /\ blocks[n].type # "none"

\* The next block the feed notifies: 0 at the start, then the block of the
\* next event, or a block before it that was the newest when the feed asked.
NextNotified(n) ==
    IF fed = -1 THEN n = 0
    ELSE fed < n /\ \A m \in fed + 1 .. n - 1 : ~EventAt(m)

\* handleBlockNumber of one block: its monitors are read.
HandleBlock(n) ==
    /\ blockNumber' = n
    /\ monTodo' = GetDelegateMonitorList(monitors, n)
    /\ pc' = "monitors"
    /\ UNCHANGED <<chainVars, dbVars, alarm, fed, dsTodo, cur, tasks, inflight,
                   historyVars>>

\* Blocks that were skipped are handled before the notified one; the first
\* block after a start (last block 0) is handled at once.
MutantSkipsBlocks(n) == n
MutantOneTooFar(n) == n + 1
FirstToHandle(n) == IF blockNumber # 0 /\ blockNumber < n - 1 THEN blockNumber + 1 ELSE n

\* The loop takes a BlockStateChange from the channel: handleBlockNumber.
ReceiveBlock ==
    /\ pc = "idle" /\ alarm
    /\ \E n \in 0 .. Height :
          /\ NextNotified(n)
          /\ goal' = n
          /\ HandleBlock(FirstToHandle(n))

\* The loop of handleBlockNumber goes on to the next skipped block.
HandleSkipped ==
    /\ pc = "skipped"
    /\ HandleBlock(blockNumber + 1)
    /\ UNCHANGED goal

\* A monitor with nothing to start: the delegate is gone, or it is an update
\* that was started before.
SkipMonitor(i) ==
    LET m == monitors[i]
        d == rows[m.key]
    IN  /\ pc = "monitors" /\ i \in monTodo
        /\ \/ ~Exists(d)
           \/ m.type = "update" /\ d.status \notin {"init", "byOther"}
        /\ monTodo' = monTodo \ {i}
        /\ UNCHANGED <<chainVars, dbVars, feedVars, pc, goal, dsTodo, cur,
                       tasks, inflight, historyVars>>

\* A punish monitor, or the monitor of a delegate updated by someone else,
\* whose locks are unlocked all the same.
SpawnMonitor(i) ==
    LET m == monitors[i]
        d == rows[m.key]
    IN  /\ pc = "monitors" /\ i \in monTodo
        /\ \/ m.type = "punish" /\ Exists(d) /\ Spawn("punish", d)
           \/ m.type = "update" /\ d.status = "byOther" /\ Spawn("unlock", d)
        /\ monTodo' = monTodo \ {i}
        /\ UNCHANGED <<chainVars, dbVars, feedVars, pc, goal, dsTodo, cur,
                       inflight, historyVars>>

\* An update monitor of a delegate not started yet: its row is read ...
ReadMonitored(i) ==
    LET m == monitors[i]
    IN  /\ pc = "monitors" /\ i \in monTodo
        /\ m.type = "update" /\ rows[m.key].status = "init"
        /\ cur' = rows[m.key]
        /\ monTodo' = monTodo \ {i}
        /\ pc' = "mark"
        /\ UNCHANGED <<chainVars, dbVars, feedVars, goal, dsTodo, tasks,
                       inflight, historyVars>>

\* ... and UpdateDelegateStatus writes the status column of whatever row the
\* key has now, and starts the goroutine on the row that was read.
MarkRunning ==
    LET k == cur.key
    IN  /\ pc = "mark"
        /\ rows' = UpdateDelegateStatus(rows, k, "running")
        /\ Spawn("ubp", [cur EXCEPT !.status = "running"])
        /\ launched' = launched \cup {<<k, cur.gen>>}
        /\ cur' = NoDelegate(SomeKey)
        /\ pc' = "monitors"
        /\ UNCHANGED <<chainVars, punishes, disposes, monitors, latest, feedVars,
                       goal, monTodo, dsTodo, inflight, gen, dropped, crashes, faults>>

\* The status cannot be written: the goroutine is not started, the trigger is lost.
MarkFails ==
    /\ pc = "mark"
    /\ Fault
    /\ dropped' = dropped \cup {<<cur.key, blockNumber>>}
    /\ cur' = NoDelegate(SomeKey)
    /\ pc' = "monitors"
    /\ UNCHANGED <<chainVars, dbVars, feedVars, goal, monTodo, dsTodo, tasks,
                   inflight, gen, launched, crashes>>

\* handleBlockNumber returns to the next skipped block; after the notified
\* block comes the event of that block, if there is one.
LeaveBlock ==
    IF blockNumber < goal
    THEN pc' = "skipped" /\ UNCHANGED fed
    ELSE /\ fed' = goal
         /\ pc' = IF EventAt(goal) THEN "event" ELSE "idle"

\* The monitors or the row of one of them cannot be read: the rest of the block is
\* given up.  (With none left: the number of the block cannot be saved.)
HandleBlockFails ==
    /\ pc = "monitors"
    /\ Fault
    /\ dropped' = dropped \cup {<<monitors[i].key, blockNumber>> : i \in monTodo}
    /\ monTodo' = {}
    /\ LeaveBlock
    /\ UNCHANGED <<chainVars, dbVars, alarm, blockNumber, goal, dsTodo, cur, tasks,
                   inflight, gen, launched, crashes>>

\* SaveLatestBlockNumber ends the handling of a block.
BlockDone ==
    /\ pc = "monitors" /\ monTodo = {}
    /\ latest' = blockNumber
    /\ LeaveBlock
    /\ UNCHANGED <<chainVars, rows, punishes, disposes, monitors, alarm,
                   blockNumber, goal, monTodo, dsTodo, cur, tasks, inflight,
                   historyVars>>

-----------------------------------------------------------------------------
(* handleStateChange: the event of block goal.                             *)

EventDelegates == GetDelegateListByChannelIdentifier(rows, blocks[goal].channel)

\* handleClosedStateChange reads the delegates of the channel, ...
HandleClosed ==
    /\ pc = "event" /\ blocks[goal].type = "close"
    /\ dsTodo' = EventDelegates
    /\ pc' = IF EventDelegates = {} THEN "idle" ELSE "rpc"
    /\ UNCHANGED <<chainVars, dbVars, feedVars, goal, monTodo, cur, tasks,
                   inflight, historyVars>>

\* ... asks the chain for the settle block as it is now, ...
ReadSettleBlock ==
    /\ pc = "rpc"
    /\ dsTodo' = {WithSettleBlock(d, channel[blocks[goal].channel].settle) :
                     d \in dsTodo}
    /\ pc' = "save"
    /\ UNCHANGED <<chainVars, dbVars, feedVars, goal, monTodo, cur, tasks,
                   inflight, historyVars>>

\* ... and for each delegate saves the row it has read ...
SaveClosed(d) ==
    /\ pc = "save" /\ d \in dsTodo
    /\ UpdateObject(d)
    /\ cur' = d
    /\ dsTodo' = dsTodo \ {d}
    /\ pc' = "addMonitor"
    /\ UNCHANGED <<chainVars, punishes, disposes, monitors, latest, feedVars,
                   goal, monTodo, tasks, inflight, historyVars>>

\* ... and adds its monitors.
AddClosedMonitor ==
    /\ pc = "addMonitor"
    /\ monitors' = AddDelegateMonitor(monitors, cur, Height)
    /\ cur' = NoDelegate(SomeKey)
    /\ pc' = IF dsTodo = {} THEN "idle" ELSE "save"
    /\ UNCHANGED <<chainVars, rows, punishes, disposes, latest, feedVars, goal,
                   monTodo, dsTodo, tasks, inflight, historyVars>>

\* handleBalanceProofUpdatedStateChange reads the delegate of the party the
\* event names ...
HandleBalanceProofUpdated ==
    LET d == rows[[channel |-> blocks[goal].channel,
                   delegator |-> blocks[goal].participant]]
    IN  /\ pc = "event" /\ blocks[goal].type = "update"
        /\ IF d.status = "init"
           THEN cur' = d /\ pc' = "byOther"
           ELSE pc' = "idle" /\ UNCHANGED cur
        /\ UNCHANGED <<chainVars, dbVars, feedVars, goal, monTodo, dsTodo, tasks,
                       inflight, historyVars>>

\* ... and saves it as finished by someone else.
SaveByOther ==
    /\ pc = "byOther"
    /\ UpdateObject([cur EXCEPT !.status = "byOther"])
    /\ cur' = NoDelegate(SomeKey)
    /\ pc' = "idle"
    /\ UNCHANGED <<chainVars, punishes, disposes, monitors, latest, feedVars,
                   goal, monTodo, dsTodo, tasks, inflight, historyVars>>

\* handleSettledStateChange, handleCooperativeSettledStateChange and
\* handleWithdrawStateChange read the delegates of the channel ...
MutantDeletesOnClose ==
    /\ pc = "event"
    /\ blocks[goal].type \in {"settle", "cooperative", "withdraw", "close"}
    /\ dsTodo' = EventDelegates
    /\ pc' = IF EventDelegates = {} THEN "idle" ELSE "delete"
    /\ UNCHANGED <<chainVars, dbVars, feedVars, goal, monTodo, cur, tasks,
                   inflight, historyVars>>
HandleSettledOrWithdraw ==
    /\ pc = "event"
    /\ blocks[goal].type \in {"settle", "cooperative", "withdraw"}
    /\ dsTodo' = EventDelegates
    /\ pc' = IF EventDelegates = {} THEN "idle" ELSE "delete"
    /\ UNCHANGED <<chainVars, dbVars, feedVars, goal, monTodo, cur, tasks,
                   inflight, historyVars>>

\* ... and delete them one by one.
DeleteDelegate(d) ==
    /\ pc = "delete" /\ d \in dsTodo
    /\ rows' = [rows EXCEPT ![d.key] = NoDelegate(d.key)]
    /\ punishes' = DeleteLocks(punishes, d.key)
    /\ disposes' = DeleteLocks(disposes, d.key)
    /\ dsTodo' = dsTodo \ {d}
    /\ pc' = IF dsTodo' = {} THEN "idle" ELSE "delete"
    /\ UNCHANGED <<chainVars, monitors, latest, feedVars, goal, monTodo, cur,
                   tasks, inflight, historyVars>>

\* DeleteDelegate sees only the error of its last statement, which rolls all back;
\* a row or punishes that could not be deleted stay, and the rest is committed.
DeleteFails(d) ==
    /\ pc = "delete" /\ d \in dsTodo
    /\ Fault
    /\ \/ UNCHANGED <<rows, punishes, disposes>>
       \/ /\ disposes' = DeleteLocks(disposes, d.key)
          /\ \/ UNCHANGED rows /\ punishes' = DeleteLocks(punishes, d.key)
             \/ UNCHANGED punishes /\ rows' = [rows EXCEPT ![d.key] = NoDelegate(d.key)]
             \/ UNCHANGED <<rows, punishes>>
    /\ dsTodo' = dsTodo \ {d}
    /\ pc' = IF dsTodo' = {} THEN "idle" ELSE "delete"
    /\ UNCHANGED <<chainVars, monitors, latest, feedVars, goal, monTodo, cur,
                   tasks, inflight, gen, launched, dropped, crashes>>

\* Every handler gives its event up if the delegates cannot be read, and the close
\* handler if the chain cannot be asked.
HandlerFails ==
    /\ \/ pc = "event" /\ blocks[goal].type \notin {"open", "other"}
       \/ pc = "rpc"
    /\ Fault
    /\ dsTodo' = {}
    /\ pc' = "idle"
    /\ UNCHANGED <<chainVars, dbVars, feedVars, goal, monTodo, cur, tasks,
                   inflight, gen, launched, dropped, crashes>>

\* Every other event is ignored.
IgnoreEvent ==
    /\ pc = "event" /\ blocks[goal].type \in {"open", "other"}
    /\ pc' = "idle"
    /\ UNCHANGED <<chainVars, dbVars, feedVars, goal, monTodo, dsTodo, cur,
                   tasks, inflight, historyVars>>

LoopStep ==
    \/ ReceiveBlock \/ HandleSkipped \/ MarkRunning \/ BlockDone
    \/ \E i \in monTodo : SkipMonitor(i) \/ SpawnMonitor(i) \/ ReadMonitored(i)
    \/ HandleClosed \/ ReadSettleBlock \/ AddClosedMonitor
    \/ \E d \in dsTodo : SaveClosed(d) \/ DeleteDelegate(d)
    \/ HandleBalanceProofUpdated \/ SaveByOther
    \/ HandleSettledOrWithdraw \/ IgnoreEvent

LoopFails ==
    \/ MarkFails \/ HandleBlockFails \/ HandlerFails
    \/ \E d \in dsTodo : DeleteFails(d)

-----------------------------------------------------------------------------
(* The goroutines.  Each works on the row the loop had read when it        *)
(* started it, and saves that row.                                         *)

Advance(t, at) == tasks' = [tasks EXCEPT ![t].pc = at]
Finish(t) == tasks' = [tasks EXCEPT ![t] = IdleTask]
Fail(t, at) == tasks' = [tasks EXCEPT ![t].pc = at, ![t].d.status = "failed"]

TaskFrame == UNCHANGED <<punishes, disposes, monitors, latest, feedVars,
                         loopVars, inflight, historyVars>>

\* doDelegateUpdateBalanceProof: nothing to do for nonce 0; the fee is
\* locked, or the delegate is saved as failed.
UbpLock(t) ==
    LET d == tasks[t].d
    IN  /\ tasks[t].pc = "ubp"
        /\ \/ d.nonce = 0 /\ Advance(t, "unlock") /\ UNCHANGED rows
           \/ d.nonce > 0 /\ Advance(t, "ubpTx") /\ UNCHANGED rows
           \/ /\ d.nonce > 0
              /\ UpdateObject([d EXCEPT !.status = "failed"])
              /\ Fail(t, "unlock")
        /\ UNCHANGED chainVars /\ TaskFrame

\* doUpdateBalanceProof: the transaction is mined and reported, or mined
\* after WaitMined gave up, or fails.
MutantNotWaitedFor(t) ==
    /\ tasks[t].pc = "ubpTx"
    /\ Advance(t, "unlock")
    /\ UNCHANGED <<chainVars, rows>> /\ TaskFrame
UbpTx(t) ==
    LET d == tasks[t].d
        mined == UpdateBalanceProofDelegate(d.key.channel, d.key.delegator,
                                            d.open, d.nonce)
    IN  /\ tasks[t].pc = "ubpTx"
        /\ \/ mined /\ Advance(t, "unlock")
           \/ mined /\ Fail(t, "ubpSave")
           \/ UNCHANGED chainVars /\ Fail(t, "ubpSave")
        /\ UNCHANGED rows /\ TaskFrame

UbpSave(t) ==
    /\ tasks[t].pc = "ubpSave"
    /\ UpdateObject(tasks[t].d)
    /\ Advance(t, "unlock")
    /\ UNCHANGED chainVars /\ TaskFrame

\* doDelegateUnlocks, up to locking the fee of all its locks.
UnlockLock(t) ==
    LET d == tasks[t].d
    IN  /\ tasks[t].pc = "unlock"
        /\ \/ d.unlocks = {} /\ Finish(t) /\ UNCHANGED rows
           \/ /\ d.unlocks # {}
              /\ tasks' = [tasks EXCEPT ![t].pc = "unlockTx",
                                        ![t].das = LocksOf(disposes, d.key)]
              /\ UNCHANGED rows
           \/ /\ d.unlocks # {}
              /\ UpdateObject([d EXCEPT !.status = "failed"])
              /\ Finish(t)
        /\ UNCHANGED chainVars /\ TaskFrame

\* The outcome of the locks decides the status, whatever the update did: a
\* disposed lock counts as unlocked without a transaction.
UnlockStatus(d, das, done) ==
    IF d.unlocks \subseteq done \cup das THEN "success"
    ELSE IF d.unlocks \cap (done \cup das) # {} THEN "partial" ELSE "failed"

\* doUnlock for every lock: those in done are unlocked on the chain.
UnlockTx(t) ==
    LET d == tasks[t].d
        das == tasks[t].das
    IN  /\ tasks[t].pc = "unlockTx"
        /\ \E done \in SUBSET (d.unlocks \ das) :
              /\ IF done = {} THEN UNCHANGED chainVars
                 ELSE UnlockDelegate(d.key.channel, d.key.delegator, d.open)
              /\ tasks' = [tasks EXCEPT
                     ![t].pc = "unlockSave",
                     ![t].d.status = UnlockStatus(d, das, done)]
        /\ UNCHANGED rows /\ TaskFrame

UnlockSave(t) ==
    /\ tasks[t].pc = "unlockSave"
    /\ UpdateObject(tasks[t].d)
    /\ Finish(t)
    /\ UNCHANGED chainVars /\ TaskFrame

\* doDelegatePunishes reads the punishes of the key, then locks one fee.
PunishLock(t) ==
    LET d == tasks[t].d
        dps == LocksOf(punishes, d.key)
    IN  /\ tasks[t].pc = "punish"
        /\ \/ dps = {} /\ Finish(t) /\ UNCHANGED rows
           \/ dps # {} /\ Advance(t, "punishTx") /\ UNCHANGED rows
           \/ /\ dps # {}
              /\ UpdateObject([d EXCEPT !.status = "failed"])
              /\ Finish(t)
        /\ UNCHANGED chainVars /\ TaskFrame

\* doPunish until one succeeds; the delegate is saved only on failure.
PunishTx(t) ==
    LET d == tasks[t].d
        mined == PunishObsoleteUnlock(d.key.channel, d.key.delegator, d.open)
    IN  /\ tasks[t].pc = "punishTx"
        /\ \/ mined /\ Finish(t)
           \/ mined /\ Fail(t, "punishSave")
           \/ UNCHANGED chainVars /\ Fail(t, "punishSave")
        /\ UNCHANGED rows /\ TaskFrame

PunishSave(t) ==
    /\ tasks[t].pc = "punishSave"
    /\ UpdateObject(tasks[t].d)
    /\ Finish(t)
    /\ UNCHANGED chainVars /\ TaskFrame

TaskStep(t) ==
    \/ UbpLock(t) \/ UbpTx(t) \/ UbpSave(t)
    \/ UnlockLock(t) \/ UnlockTx(t) \/ UnlockSave(t)
    \/ PunishLock(t) \/ PunishTx(t) \/ PunishSave(t)

-----------------------------------------------------------------------------
(* The HTTP handlers of delegations.                                       *)

\* VerifyDelegate: the channel exists and the request is for its current open
\* block; the settle block is read from the chain.  (A request that is empty here
\* carries secrets.)
VerifyDelegate(x) ==
    LET info == channel[x.key.channel]
    IN  /\ info.open # 0
        /\ Cardinality(inflight) < MaxInflight
        /\ inflight' = inflight \cup
              {[key |-> x.key, open |-> info.open, settle |-> info.settle,
                nonce |-> x.nonce, unlocks |-> x.unlocks,
                punishes |-> x.punishes, disposes |-> x.disposes]}
        /\ UNCHANGED <<chainVars, dbVars, feedVars, loopVars, tasks, historyVars>>

\* ReceiveDelegate, the first delegation of a key: after the close event its
\* monitors are added in the same transaction.
ReceiveFirst(r) ==
    LET d == FirstDelegate(r, gen[r.key] + 1)
    IN  /\ r \in inflight
        /\ ~Exists(rows[r.key])
        /\ rows' = [rows EXCEPT ![r.key] = d]
        /\ gen' = [gen EXCEPT ![r.key] = @ + 1]
        /\ monitors' = FirstMonitor(monitors, d, Height)
        /\ punishes' = AppendLocks(punishes, r.key, r.punishes)
        /\ disposes' = AppendLocks(disposes, r.key, r.disposes)
        /\ inflight' = inflight \ {r}
        /\ UNCHANGED <<chainVars, latest, feedVars, loopVars, tasks, launched,
                       dropped, crashes, faults>>

\* ReceiveDelegate, a later delegation: refused and rolled back, or stored.
ReceiveAgain(r) ==
    /\ r \in inflight
    /\ Exists(rows[r.key])
    /\ inflight' = inflight \ {r}
    /\ IF Refuses(rows[r.key], r)
       THEN UNCHANGED <<rows, punishes, disposes>>
       ELSE /\ rows' = [rows EXCEPT ![r.key] = Redelegate(rows[r.key], r)]
            /\ punishes' = AppendLocks(punishes, r.key, r.punishes)
            /\ disposes' = AppendLocks(disposes, r.key, r.disposes)
    /\ UNCHANGED <<chainVars, monitors, latest, feedVars, loopVars, tasks,
                   historyVars>>

\* A statement fails: the delegation is rolled back, ...
ReceiveFails(r) ==
    /\ r \in inflight
    /\ Fault
    /\ inflight' = inflight \ {r}
    /\ UNCHANGED <<chainVars, dbVars, feedVars, loopVars, tasks, gen, launched,
                   dropped, crashes>>

\* ... unless it is one of AddDelegateMonitorInTx, which panics: no error is
\* returned, so what was written before it is committed, without a delegate.
ReceiveHalf(r) ==
    LET d == FirstDelegate(r, 0)
    IN  /\ r \in inflight
        /\ ~Exists(rows[r.key]) /\ r.settle > 0
        /\ Fault
        /\ \/ UNCHANGED monitors
           \/ monitors' = AddUpdateMonitor(monitors, d, Height)
        /\ punishes' = AppendLocks(punishes, r.key, r.punishes)
        /\ disposes' = AppendLocks(disposes, r.key, r.disposes)
        /\ inflight' = inflight \ {r}
        /\ UNCHANGED <<chainVars, rows, latest, feedVars, loopVars, tasks, gen,
                       launched, dropped, crashes>>

-----------------------------------------------------------------------------
(* Faults.                                                                 *)

\* The process stops at any point and is started again.
Crash ==
    /\ crashes < MaxCrashes
    /\ crashes' = crashes + 1
    /\ Started
    /\ UNCHANGED <<chainVars, dbVars, gen, launched, dropped, faults>>

\* One failed HeaderByNumber ends the alarm task; the service never starts
\* it again.
AlarmFails ==
    /\ alarm
    /\ Fault
    /\ alarm' = FALSE
    /\ UNCHANGED <<chainVars, dbVars, fed, blockNumber, loopVars, tasks, inflight,
                   gen, launched, dropped, crashes>>

ServiceUnchanged ==
    UNCHANGED <<dbVars, feedVars, loopVars, tasks, inflight, historyVars>>

ChainStep == Height - fed <= MaxLag /\ ChainNext /\ ServiceUnchanged

MineStep == Height - fed <= MaxLag /\ Mine /\ ServiceUnchanged

Next ==
    \/ ChainStep
    \/ LoopStep
    \/ LoopFails
    \/ \E t \in TaskId : TaskStep(t)
    \/ \E x \in Delegation : VerifyDelegate(x)
    \/ \E r \in inflight :
          ReceiveFirst(r) \/ ReceiveAgain(r) \/ ReceiveFails(r) \/ ReceiveHalf(r)
    \/ Crash
    \/ AlarmFails

\* Blocks are mined; the loop and every goroutine keep running.
Fairness ==
    /\ WF_vars(MineStep)
    /\ WF_vars(LoopStep)
    /\ \A t \in TaskId : WF_vars(TaskStep(t))

Spec == Init /\ [][Next]_vars /\ Fairness

-----------------------------------------------------------------------------
(* Properties.                                                             *)

\* The update of a delegate is started at most once, whatever monitors are
\* duplicated, blocks notified again after a restart, or stale rows saved: when
\* handleBlockNumber is about to start it, it was never started before.
StartedAtMostOnce ==
    pc = "mark" => <<cur.key, cur.gen>> \notin launched

\* A started delegate is never armed again: no stale row saved by the loop or by a
\* goroutine, and no later delegation, gives it the status in which updateDelegate
\* replaces its proof and handleBlockNumber starts it.
NeverRearmed ==
    \A k \in Key : <<k, rows[k].gen>> \in launched => rows[k].status # "init"

\* The loop is past block n: it will not look at the monitors of n again
\* (except after a restart).
Past(n) ==
    \/ blockNumber > n
    \/ blockNumber = n /\ pc \notin {"monitors", "mark"}

\* handleBlockNumber misses no trigger but the ones a failed statement costs: an
\* update monitor made before its block was mined has started the delegate it was
\* made for (or seen it marked) by the time the loop is past that block, restarts and
\* skipped blocks included, unless a statement failed in this block before, or while,
\* this delegate was marked: failures elsewhere, in other blocks or after the
\* delegate's turn, lose nothing.
NoMissedTrigger ==
    \A i \in DOMAIN monitors :
        LET m == monitors[i]
            d == rows[m.key]
        IN  /\ m.type = "update" /\ m.due /\ m.block > 0
            /\ Past(m.block) /\ <<m.key, m.block>> \notin dropped
            /\ d.gen = m.gen
            => d.status # "init"

HasMonitors(d) ==
    /\ \E i \in DOMAIN monitors : monitors[i].key = d.key
            /\ monitors[i].type = "update" /\ monitors[i].block = d.settle - RevealTimeout
    /\ \E i \in DOMAIN monitors : monitors[i].key = d.key
            /\ monitors[i].type = "punish" /\ monitors[i].block = d.settle

\* The close event of k's channel is still to be handled, or is being handled.
ClosePending(k) ==
    \E n \in fed .. Height :
        /\ EventAt(n) /\ blocks[n].type = "close" /\ blocks[n].channel = k.channel
        /\ n > fed \/ pc = "event" \/ \E d \in dsTodo : d.key = k

\* A stored settle block comes with the monitors that act on it: a row whose
\* SettleBlockNumber is set has both, or the close handler is about to add them, or
\* (after a crash in between) the close event is still to be delivered again.  After
\* a restart that is so of delegates not started yet; it takes a crash and then a
\* failed chain call to lose their monitors.
SettleIsMonitored ==
    \A k \in Key :
        /\ Exists(rows[k]) /\ rows[k].settle > 0
        /\ crashes = 0 \/ (faults = 0 /\ rows[k].status = "init")
        => \/ HasMonitors(rows[k])
           \/ pc = "addMonitor" /\ cur.key = k
           \/ ClosePending(k)

\* A settle block goes with the open block it was read for: the settle block may be
\* read long after the row (handleClosedStateChange) or stored long after it was read
\* (VerifyDelegate, ReceiveDelegate), while the channel is settled and opened again;
\* still no row of the channel as it is has the settle block of another life of it.
SettleOfThisLife ==
    \A k \in Key :
        LET info == channel[k.channel]
        IN  Exists(rows[k]) /\ rows[k].open = info.open /\ rows[k].settle # 0 =>
                rows[k].settle = info.settle

\* A goroutine goes on to the unlocks of a delegate it has not marked as failed only
\* when the contract has the balance proof that holds the locks, or a newer one: as
\* long as the channel lives, nobody takes that proof back.
UnlocksAfterUpdate ==
    \A t \in TaskId :
        LET d == tasks[t].d
            info == channel[d.key.channel]
        IN  /\ tasks[t].pc \in {"unlock", "unlockTx"} /\ d.status = "running"
            /\ info.open = d.open
            => info.nonce[Partner(d.key.delegator)] >= d.nonce

\* The handlers of a settle, a cooperative settle or a withdraw delete delegates by
\* channel, however late the event is handled and however often it is replayed: what
\* they delete is void, of a life of the channel that is over, or was made for a life
\* that began with the event or after it (which DeletesOnlyVoided is about).
DeletesOldLives ==
    pc = "delete" =>
        \A d \in dsTodo :
            LET row == rows[d.key]
            IN  Exists(row) /\ row.open = channel[d.key.channel].open => row.open >= goal

\* Until the service is restarted, and as long as the feed is not further behind than
\* a reveal timeout, no monitor left over from an earlier life of a channel starts a
\* delegate of a later one: an update is never started before RevealTimeout blocks
\* before the settle block of the row it executes, and if the row is of the channel
\* as it is, that is closed and this is RevealTimeout blocks before its settle block.
\* (A delegation verified in an earlier life and stored in a later one may be started
\* by a monitor of the later life.)
StartedOnTime ==
    pc = "mark" /\ crashes = 0 /\ MaxLag <= RevealTimeout =>
        LET info == channel[cur.key.channel]
        IN  /\ blockNumber >= cur.settle - RevealTimeout
            /\ info.open = cur.open =>
                   info.state = 2 /\ blockNumber = info.settle - RevealTimeout

\* The transaction of an update reaches the contract in the window in which it takes
\* delegated updates, the second half of the settlement window: if RevealTimeout is
\* not longer than that half, the service was not restarted and the feed is not
\* behind, doUpdateBalanceProof never sends it before the channel is closed, or too
\* early after it.
SentInWindow ==
    \A t \in TaskId :
        LET d == tasks[t].d
            info == channel[d.key.channel]
        IN  /\ tasks[t].pc = "ubpTx" /\ crashes = 0
            /\ MaxLag <= RevealTimeout /\ RevealTimeout <= SettleTimeout \div 2 + 1
            /\ info.open = d.open
            => info.state = 2 /\ Height + 1 >= info.settle - SettleTimeout \div 2

\* The service implements DelegateLife: whatever rows are read early and saved late,
\* by the loop, the goroutines and the HTTP handlers, and whatever a restart replays,
\* only the newest delegation of a key is started, and once.
Life == INSTANCE DelegateLife WITH
            accepted <- gen,
            armed <- {k \in Key : rows[k].status = "init"},
            started <- launched

ImplementsLife == Life!Spec

\* What must happen: a delegate not started yet, with a monitor made in time for a
\* block that is mined, is started, marked or deleted in the end, unless a failed
\* statement costs that very trigger or the feed ends: none waits for ever.
Triggered(k) ==
    /\ rows[k].status = "init"
    /\ \E i \in DOMAIN monitors :
          /\ monitors[i].key = k /\ monitors[i].gen = rows[k].gen
          /\ monitors[i].type = "update" /\ monitors[i].due
          /\ monitors[i].block \in 1 .. MaxBlock
          /\ <<k, monitors[i].block>> \notin dropped

TriggerStarts == \A k \in Key : []<>(~Triggered(k) \/ ~alarm)

-----------------------------------------------------------------------------
(* Statements of comments and documents that the code does not keep.       *)

\* GetDelegateMonitorList returns "all delegates which should be executed at
\* blockNumber": an update is started only at its block.
StartedWhenDue ==
    pc = "mark" => blockNumber = cur.settle - RevealTimeout

\* DeleteDelegate deletes "all records about a delegate": punishes go only with the
\* delegate they belong to.
DeletesOwnRecords ==
    [][\A x \in punishes : x \notin punishes' => ~Exists(rows'[x.key])]_vars

\* A withdraw or a cooperative settle voids the delegations "before" it: a row goes
\* only if it was made for the channel as it was before the event.
DeletesOnlyVoided ==
    [][\A k \in Key :
          Exists(rows[k]) /\ ~Exists(rows'[k]) =>
              k.channel = blocks[goal].channel /\ rows[k].open < goal]_vars

\* delegate_test.go: the nonce of a delegate "may be the same but may not become
\* smaller": a stored proof is never replaced by an older one.
NonceNeverRegresses ==
    [][\A k \in Key :
          Exists(rows[k]) /\ Exists(rows'[k]) /\ rows'[k].gen = rows[k].gen
          => rows'[k].nonce >= rows[k].nonce]_vars

\* The feed has been consumed: every event of the chain is handled.
CaughtUp == pc = "idle" /\ alarm /\ fed = Height

\* updateDelegate need not add monitors to a delegate it knows, because the first
\* delegation or the close event did, and a delegate of an older open block "should
\* have been deleted already", because the service listens to the events: once every
\* event is handled, a stored delegate is of the channel as it is, and has the
\* monitors of its settle block.
StoredMatchesChain ==
    \A k \in Key :
        LET info == channel[k.channel]
        IN  CaughtUp /\ faults = 0 /\ crashes = 0 /\ Exists(rows[k]) =>
                /\ rows[k].open = info.open /\ rows[k].settle = info.settle
                /\ info.settle > 0 => HasMonitors(rows[k])

\* The channel of k is closed, its row is of this life, and n is the nonce of the
\* proof the contract has for it.
OnChain(k, n) ==
    LET info == channel[k.channel]
    IN  info.state = 2 /\ rows[k].open = info.open /\ n = info.nonce[Partner(k.delegator)]

\* A delegate is marked as finished by someone else only when the update the service
\* was asked for was made.
FinishedIsUpdated ==
    \A k \in Key : OnChain(k, 0) => rows[k].status # "byOther"

\* "All success finished": the update the service was asked for is on the chain.
SuccessIsUpdated ==
    \A k \in Key : \A n \in 0 .. MaxNonce :
        OnChain(k, n) /\ rows[k].status = "success" => n >= rows[k].nonce
=============================================================================
