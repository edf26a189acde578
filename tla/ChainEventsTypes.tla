-------------------------- MODULE ChainEventsTypes ---------------------------
(***************************************************************************)
(* Type correctness of ChainEvents.  The type invariant says more than     *)
(* types: the loop never handles, announces or records a block the chain   *)
(* does not have.  Its inductive form adds where the loop is when it       *)
(* counts up to the notified block and when it looks at the block's event. *)
(***************************************************************************)
EXTENDS ChainEvents, SequenceTheorems, TLAPS

LoopInv ==
    /\ LoopTypeOK
    /\ pc = "skipped" => blockNumber < goal
    /\ pc \in {"event", "rpc"} => EventAt(goal)

TypeInv == ChainTypeOK /\ DbTypeOK /\ LoopInv /\ TaskTypeOK /\ HistoryTypeOK

-----------------------------------------------------------------------------
(* The chain.                                                              *)

LEMMA PartyTypes ==
    /\ SomeParty \in Participant
    /\ \A p \in Participant : Partner(p) \in Participant
  <1>1. SomeParty \in Participant
    BY KeyAssumption DEF SomeParty
  <1>2. ASSUME NEW p \in Participant PROVE Partner(p) \in Participant
    BY <1>2, ParticipantAssumption DEF Partner
  <1> QED
    BY <1>1, <1>2

\* The chain only grows, and what is on it stays.
ChainGrows ==
    /\ ChainTypeOK'
    /\ Len(blocks) \in Nat
    /\ Len(blocks') \in Nat
    /\ Len(blocks) <= Len(blocks')
    /\ \A n \in 1 .. Len(blocks) : blocks'[n] = blocks[n]

LEMMA UnchangedGrows == ChainTypeOK /\ UNCHANGED chainVars => ChainGrows
  <1> SUFFICES ASSUME ChainTypeOK, UNCHANGED chainVars PROVE ChainGrows
    OBVIOUS
  <1>1. Len(blocks) \in Nat
    BY LenProperties DEF ChainTypeOK
  <1> QED
    BY <1>1 DEF ChainGrows, ChainTypeOK, chainVars

LEMMA BlockGrows ==
    ASSUME ChainTypeOK, NEW e \in Event \cup {EmptyBlock},
           blocks' = Append(blocks, e),
           channel' \in [Channel -> ChannelInfo]
    PROVE  ChainGrows
  <1> DEFINE S == Event \cup {EmptyBlock}
  <1>1. blocks \in Seq(S)
    BY DEF ChainTypeOK
  <1>2. Len(blocks) \in Nat
    BY <1>1, LenProperties
  <1> HIDE DEF S
  <1>3. e \in S
    BY DEF S
  <1>4. /\ blocks' \in Seq(S)
        /\ Len(blocks') = Len(blocks) + 1
        /\ \A n \in 1 .. Len(blocks) : blocks'[n] = blocks[n]
    BY <1>1, <1>3, AppendProperties
  <1> QED
    BY <1>2, <1>4 DEF ChainGrows, ChainTypeOK, S

LEMMA TransactGrows ==
    ASSUME ChainTypeOK, NEW type \in EventType, NEW c \in Channel,
           NEW p \in Participant, NEW info \in ChannelInfo,
           Transact(type, c, p, info)
    PROVE  ChainGrows
  <1>1. [type |-> type, channel |-> c, participant |-> p] \in Event
    BY DEF Event
  <1>2. channel' \in [Channel -> ChannelInfo]
    BY DEF Transact, ChainTypeOK
  <1> QED
    BY <1>1, <1>2, BlockGrows DEF Transact

\* A proof of nonce n of party p makes a channel record of its type.
LEMMA NonceTypes ==
    ASSUME NEW info \in ChannelInfo, NEW p \in Participant, NEW n \in Nat
    PROVE  [info EXCEPT !.nonce[p] = n] \in ChannelInfo
  BY DEF ChannelInfo

LEMMA ChainNextGrows == ChainTypeOK /\ ChainNext => ChainGrows
  <1> SUFFICES ASSUME ChainTypeOK, ChainNext PROVE ChainGrows
    OBVIOUS
  <1>0. Len(blocks) \in Nat
    BY LenProperties DEF ChainTypeOK
  <1>c. \A c \in Channel : channel[c] \in ChannelInfo
    BY DEF ChainTypeOK
  <1>n. MaxNonce \in Nat /\ SettleTimeout \in Nat
    BY ContractAssumption
  <1>1. CASE Mine
    BY <1>1, BlockGrows DEF Mine, ChainTypeOK
  <1>2. ASSUME NEW c \in Channel, Deposit(c) PROVE ChainGrows
    <2>1. Opened(Height + 1) \in ChannelInfo
      BY <1>0 DEF Opened, NoProof, ChannelInfo, Height
    <2> QED
      BY <1>2, <2>1, PartyTypes, TransactGrows DEF Deposit, EventType
  <1>3. ASSUME NEW c \in Channel, WithDraw(c) PROVE ChainGrows
    <2>1. [channel[c] EXCEPT !.open = Height + 1] \in ChannelInfo
      BY <1>0, <1>c DEF ChannelInfo, Height
    <2> QED
      BY <1>3, <2>1, PartyTypes, TransactGrows DEF WithDraw, EventType
  <1>4. ASSUME NEW c \in Channel, CooperativeSettle(c) \/ Settle(c) PROVE ChainGrows
    <2>1. Deleted \in ChannelInfo
      BY DEF Deleted, NoProof, ChannelInfo
    <2> QED
      BY <1>4, <2>1, PartyTypes, TransactGrows DEF CooperativeSettle, Settle, EventType
  <1>5. ASSUME NEW c \in Channel, NEW p \in Participant, NEW n \in 0 .. MaxNonce,
               PrepareSettle(c, p, n)
        PROVE  ChainGrows
    <2> DEFINE b == [channel[c] EXCEPT !.state = 2, !.settle = SettleTimeout + Height + 1]
               info == [channel[c] EXCEPT !.state = 2,
                                          !.settle = SettleTimeout + Height + 1,
                                          !.nonce[Partner(p)] = n]
    <2>1. SettleTimeout + Height + 1 \in Nat
      BY <1>0, <1>n DEF Height
    <2>2. b \in ChannelInfo
      BY <1>c, <2>1 DEF ChannelInfo
    <2>3. info = [b EXCEPT !.nonce[Partner(p)] = n]
      BY <1>c DEF ChannelInfo
    <2>4. n \in Nat /\ Partner(p) \in Participant
      BY <1>n, PartyTypes
    <2>5. info \in ChannelInfo
      BY <2>2, <2>3, <2>4, NonceTypes
    <2>6. Transact("close", c, p, info)
      BY <1>5 DEF PrepareSettle
    <2> HIDE DEF info
    <2> QED
      BY <2>5, <2>6, TransactGrows DEF EventType
  <1>6. ASSUME NEW c \in Channel, NEW p \in Participant, NEW n \in 1 .. MaxNonce,
               UpdateBalanceProof(c, p, n)
        PROVE  ChainGrows
    <2>1. n \in Nat /\ Partner(p) \in Participant
      BY <1>n, PartyTypes
    <2>2. [channel[c] EXCEPT !.nonce[Partner(p)] = n] \in ChannelInfo
      BY <1>c, <2>1, NonceTypes
    <2> QED
      BY <1>6, <2>1, <2>2, TransactGrows DEF UpdateBalanceProof, EventType
  <1> QED
    BY <1>1, <1>2, <1>3, <1>4, <1>5, <1>6 DEF ChainNext

\* The transactions of the service.
LEMMA ServiceGrows ==
    ASSUME ChainTypeOK, NEW c \in Channel, NEW p \in Participant, NEW o, NEW n \in Nat,
           \/ UpdateBalanceProofDelegate(c, p, o, n)
           \/ UnlockDelegate(c, p, o)
           \/ PunishObsoleteUnlock(c, p, o)
    PROVE  ChainGrows
  <1>1. channel[c] \in ChannelInfo
    BY DEF ChainTypeOK
  <1>2. MaxUint64 \in Nat
    BY ContractAssumption DEF MaxUint64
  <1>3. Partner(p) \in Participant
    BY PartyTypes
  <1>4. CASE UpdateBalanceProofDelegate(c, p, o, n)
    <2>1. [channel[c] EXCEPT !.nonce[Partner(p)] = n] \in ChannelInfo
      BY <1>1, <1>3, NonceTypes
    <2> QED
      BY <1>3, <1>4, <2>1, TransactGrows DEF UpdateBalanceProofDelegate, EventType
  <1>5. CASE UnlockDelegate(c, p, o)
    BY <1>1, <1>3, <1>5, TransactGrows DEF UnlockDelegate, EventType
  <1>6. CASE PunishObsoleteUnlock(c, p, o)
    <2>1. [channel[c] EXCEPT !.nonce[p] = MaxUint64] \in ChannelInfo
      BY <1>1, <1>2, NonceTypes
    <2> QED
      BY <1>6, <2>1, TransactGrows DEF PunishObsoleteUnlock, EventType
  <1> QED
    BY <1>4, <1>5, <1>6

-----------------------------------------------------------------------------
(* Rows, monitors, goroutines.                                             *)

LEMMA KeyTypes ==
    /\ SomeKey \in Key
    /\ \A k \in Key : /\ NoDelegate(k) \in Delegate
                      /\ k.channel \in Channel /\ k.delegator \in Participant
    /\ IdleTask \in Task
  <1>1. \E k \in Key : TRUE
    <2>1. PICK c \in Channel : TRUE
      BY KeyAssumption
    <2>2. PICK p \in Participant : TRUE
      BY KeyAssumption
    <2>3. [channel |-> c, delegator |-> p] \in Key
      BY DEF Key
    <2> QED
      BY <2>3
  <1>2. SomeKey \in Key
    BY <1>1 DEF SomeKey
  <1>3. ASSUME NEW k \in Key
        PROVE  NoDelegate(k) \in Delegate /\ k.channel \in Channel /\ k.delegator \in Participant
    BY DEF NoDelegate, Delegate, Status, Key
  <1>4. IdleTask \in Task
    BY <1>2, <1>3 DEF IdleTask, Task, TaskPc
  <1> QED
    BY <1>2, <1>3, <1>4

LEMMA DelegateTypes ==
    ASSUME NEW d \in Delegate
    PROVE  /\ d.key \in Key /\ d.open \in Nat /\ d.nonce \in Nat /\ d.gen \in Nat
           /\ d.key.channel \in Channel /\ d.key.delegator \in Participant
           /\ \A n \in Nat : WithSettleBlock(d, n) \in Delegate
           /\ \A st \in Status : [d EXCEPT !.status = st] \in Delegate
           /\ \A r \in Request : Redelegate(d, r) \in Delegate
  <1>1. d.key \in Key /\ d.open \in Nat /\ d.nonce \in Nat /\ d.gen \in Nat
    BY DEF Delegate
  <1>2. \A n \in Nat : WithSettleBlock(d, n) \in Delegate
    BY DEF Delegate, WithSettleBlock
  <1>3. \A st \in Status : [d EXCEPT !.status = st] \in Delegate
    BY DEF Delegate
  <1>4. ASSUME NEW r \in Request PROVE Redelegate(d, r) \in Delegate
    <2>1. r.nonce \in Nat /\ r.unlocks \in SUBSET Lock
      BY DEF Request
    <2> QED
      BY <2>1 DEF Delegate, Redelegate
  <1> QED
    BY <1>1, <1>2, <1>3, <1>4, KeyTypes

LEMMA RequestTypes ==
    ASSUME NEW r \in Request, NEW g \in Nat
    PROVE  r.key \in Key /\ FirstDelegate(r, g) \in Delegate
  BY DEF Request, FirstDelegate, Delegate, Status

LEMMA AppendLocksTypes ==
    ASSUME NEW table \in SUBSET LockRow, NEW k \in Key, NEW locks \in SUBSET Lock
    PROVE  AppendLocks(table, k, locks) \subseteq LockRow
  BY DEF AppendLocks, LockRow

LEMMA MonitorTypes ==
    ASSUME NEW table \in Seq(Monitor), NEW d \in Delegate, NEW h \in Nat
    PROVE  /\ AddDelegateMonitor(table, d, h) \in Seq(Monitor)
           /\ DOMAIN table \subseteq DOMAIN AddDelegateMonitor(table, d, h)
           /\ FirstMonitor(table, d, h) \in Seq(Monitor)
           /\ DOMAIN table \subseteq DOMAIN FirstMonitor(table, d, h)
           /\ AddUpdateMonitor(table, d, h) \in Seq(Monitor)
           /\ DOMAIN table \subseteq DOMAIN AddUpdateMonitor(table, d, h)
  <1> DEFINE at(type, n) == [key |-> d.key, type |-> type, block |-> n,
                             gen |-> d.gen, due |-> n > h]
             both == << at("update", d.settle - RevealTimeout), at("punish", d.settle) >>
  <1>1. d.settle \in Int /\ d.settle - RevealTimeout \in Int
    BY RevealAssumption DEF Delegate
  <1>2. \A type \in MonitorType, n \in Int : at(type, n) \in Monitor
    BY DEF Monitor, Delegate
  <1>3. at("update", d.settle - RevealTimeout) \in Monitor /\ at("punish", d.settle) \in Monitor
    BY <1>1, <1>2 DEF MonitorType
  <1> HIDE DEF at
  <1>4. both \in Seq(Monitor) /\ both[1] \in Monitor /\ Len(both) = 2
    BY <1>3
  <1>5. AddDelegateMonitor(table, d, h) = table \o both
    BY DEF AddDelegateMonitor, at
  <1> HIDE DEF both
  <1>6. /\ table \o both \in Seq(Monitor)
        /\ Len(table \o both) = Len(table) + Len(both)
        /\ Len(table) \in Nat /\ Len(both) \in Nat
        /\ DOMAIN table = 1 .. Len(table)
        /\ DOMAIN (table \o both) = 1 .. Len(table \o both)
    BY <1>4, ConcatProperties, LenProperties
  <1>7. DOMAIN table \subseteq DOMAIN (table \o both)
    BY <1>6
  <1>8. (table \o both)[Len(table) + 1] \in Monitor
    BY <1>4, <1>6, ElementOfSeq
  <1> DEFINE m == (table \o both)[Len(table) + 1]
  <1>9. AddUpdateMonitor(table, d, h) = Append(table, m)
    BY <1>5 DEF AddUpdateMonitor
  <1> HIDE DEF m
  <1>10. /\ Append(table, m) \in Seq(Monitor)
         /\ DOMAIN table \subseteq DOMAIN Append(table, m)
    <2>1. m \in Monitor
      BY <1>8 DEF m
    <2>2. Append(table, m) \in Seq(Monitor) /\ Len(Append(table, m)) = Len(table) + 1
      BY <2>1, AppendProperties
    <2>3. DOMAIN Append(table, m) = 1 .. Len(Append(table, m))
      BY <2>2, LenProperties
    <2> QED
      BY <1>6, <2>2, <2>3
  <1> QED
    BY <1>5, <1>6, <1>7, <1>9, <1>10 DEF FirstMonitor

\* The loop is not disturbed by the steps of others.
LEMMA LoopStays ==
    ASSUME LoopInv, ChainGrows, UNCHANGED <<feedVars, loopVars>>,
           DOMAIN monitors \subseteq DOMAIN monitors'
    PROVE  LoopInv'
  <1>1. LoopTypeOK'
    BY DEF LoopInv, LoopTypeOK, ChainGrows, feedVars, loopVars, Height
  <1>2. ASSUME EventAt(goal) PROVE EventAt(goal)'
    BY <1>2 DEF EventAt, LoopInv, LoopTypeOK, ChainGrows, loopVars, Height
  <1> QED
    BY <1>1, <1>2 DEF LoopInv, feedVars, loopVars

\* A step of a goroutine: the chain grows or not, at most one row is saved.
LEMMA TaskTypes ==
    ASSUME TypeInv, NEW t \in TaskId
    PROVE  /\ tasks[t] \in Task /\ tasks[t].d \in Delegate
           /\ tasks[t].d.key.channel \in Channel /\ tasks[t].d.key.delegator \in Participant
           /\ tasks[t].d.nonce \in Nat
  <1>1. tasks[t] \in Task /\ tasks[t].d \in Delegate
    BY DEF TypeInv, TaskTypeOK, Task
  <1> QED
    BY <1>1, DelegateTypes

LEMMA TaskMoves ==
    ASSUME TypeInv, NEW t \in TaskId, NEW at \in TaskPc
    PROVE  /\ Advance(t, at) => tasks' \in [TaskId -> Task]
           /\ Finish(t) => tasks' \in [TaskId -> Task]
           /\ Fail(t, at) => tasks' \in [TaskId -> Task]
  <1>1. tasks \in [TaskId -> Task] /\ tasks[t] \in Task /\ tasks[t].d \in Delegate
    BY TaskTypes DEF TypeInv, TaskTypeOK
  <1>2. ASSUME Advance(t, at) PROVE tasks' \in [TaskId -> Task]
    <2>1. [tasks[t] EXCEPT !.pc = at] \in Task
      BY <1>1 DEF Task
    <2> QED
      BY <1>1, <1>2, <2>1 DEF Advance
  <1>3. ASSUME Finish(t) PROVE tasks' \in [TaskId -> Task]
    BY <1>1, <1>3, KeyTypes DEF Finish
  <1>4. ASSUME Fail(t, at) PROVE tasks' \in [TaskId -> Task]
    <2>1. [tasks[t].d EXCEPT !.status = "failed"] \in Delegate
      BY <1>1, DelegateTypes DEF Status
    <2>2. [tasks[t] EXCEPT !.pc = at, !.d = [tasks[t].d EXCEPT !.status = "failed"]] \in Task
      BY <1>1, <2>1 DEF Task
    <2>3. tasks' = [tasks EXCEPT ![t] =
                       [tasks[t] EXCEPT !.pc = at, !.d = [tasks[t].d EXCEPT !.status = "failed"]]]
      BY <1>1, <1>4 DEF Fail, Task
    <2> QED
      BY <1>1, <2>2, <2>3
  <1> QED
    BY <1>2, <1>3, <1>4

LEMMA SavedRows ==
    ASSUME DbTypeOK, NEW d \in Delegate, UpdateObject(d)
    PROVE  rows' \in [Key -> Delegate]
  <1>1. d.key \in Key
    BY DelegateTypes
  <1> QED
    BY <1>1 DEF DbTypeOK, UpdateObject

LEMMA TaskStepTypes ==
    ASSUME TypeInv, NEW t \in TaskId, TaskFrame, ChainGrows,
           tasks' \in [TaskId -> Task], rows' \in [Key -> Delegate]
    PROVE  TypeInv'
  <1>1. DbTypeOK' /\ HistoryTypeOK' /\ TaskTypeOK'
    BY DEF TypeInv, DbTypeOK, HistoryTypeOK, TaskTypeOK, TaskFrame, historyVars
  <1>2. LoopInv'
    BY LoopStays DEF TypeInv, TaskFrame
  <1>3. ChainTypeOK'
    BY DEF ChainGrows
  <1> QED
    BY <1>1, <1>2, <1>3 DEF TypeInv

LEMMA TaskStepInv == ASSUME TypeInv, NEW t \in TaskId, TaskStep(t) PROVE TypeInv'
  <1> DEFINE d == tasks[t].d
             c == d.key.channel
             p == d.key.delegator
  <1>0. /\ tasks[t] \in Task /\ d \in Delegate
        /\ c \in Channel /\ p \in Participant /\ d.nonce \in Nat
        /\ rows \in [Key -> Delegate] /\ ChainTypeOK /\ DbTypeOK
        /\ tasks \in [TaskId -> Task]
    BY TaskTypes DEF TypeInv, DbTypeOK, TaskTypeOK
  <1>f. /\ [d EXCEPT !.status = "failed"] \in Delegate
        /\ UpdateObject([d EXCEPT !.status = "failed"]) => rows' \in [Key -> Delegate]
        /\ UpdateObject(d) => rows' \in [Key -> Delegate]
    <2>1. [d EXCEPT !.status = "failed"] \in Delegate
      BY <1>0, DelegateTypes DEF Status
    <2> QED
      BY <1>0, <2>1, SavedRows
  <1>u. UNCHANGED rows => rows' \in [Key -> Delegate]
    BY <1>0
  <1>g. UNCHANGED chainVars => ChainGrows
    BY <1>0, UnchangedGrows
  <1>1. CASE UbpLock(t)
    <2>1. tasks' \in [TaskId -> Task]
      BY <1>1, TaskMoves DEF UbpLock, TaskPc
    <2>2. rows' \in [Key -> Delegate] /\ ChainGrows
      BY <1>1, <1>f, <1>u, <1>g DEF UbpLock
    <2> QED
      BY <1>1, <2>1, <2>2, TaskStepTypes DEF UbpLock
  <1>2. CASE UbpTx(t)
    <2>1. tasks' \in [TaskId -> Task]
      BY <1>2, TaskMoves DEF UbpTx, TaskPc
    <2>2. ChainGrows
      BY <1>0, <1>2, <1>g, ServiceGrows DEF UbpTx
    <2> QED
      BY <1>2, <1>u, <2>1, <2>2, TaskStepTypes DEF UbpTx
  <1>3. CASE UbpSave(t)
    <2>1. tasks' \in [TaskId -> Task]
      BY <1>3, TaskMoves DEF UbpSave, TaskPc
    <2> QED
      BY <1>3, <1>f, <1>g, <2>1, TaskStepTypes DEF UbpSave
  <1>4. CASE UnlockLock(t)
    <2>1. Finish(t) => tasks' \in [TaskId -> Task]
      BY TaskMoves DEF TaskPc
    <2>2. ASSUME tasks' = [tasks EXCEPT ![t].pc = "unlockTx",
                                        ![t].das = LocksOf(disposes, d.key)]
          PROVE  tasks' \in [TaskId -> Task]
      <3>1. LocksOf(disposes, d.key) \in SUBSET Lock
        BY DEF LocksOf
      <3>2. [tasks[t] EXCEPT !.pc = "unlockTx", !.das = LocksOf(disposes, d.key)] \in Task
        BY <1>0, <3>1 DEF Task, TaskPc
      <3>3. tasks' = [tasks EXCEPT ![t] = [tasks[t] EXCEPT !.pc = "unlockTx",
                                             !.das = LocksOf(disposes, d.key)]]
        BY <1>0, <2>2
      <3> QED
        BY <1>0, <3>2, <3>3
    <2>3. tasks' \in [TaskId -> Task]
      BY <1>4, <2>1, <2>2 DEF UnlockLock
    <2>4. rows' \in [Key -> Delegate]
      BY <1>4, <1>f, <1>u DEF UnlockLock
    <2> QED
      BY <1>4, <1>g, <2>3, <2>4, TaskStepTypes DEF UnlockLock
  <1>5. CASE UnlockTx(t)
    <2>1. PICK done \in SUBSET (d.unlocks \ tasks[t].das) :
             /\ IF done = {} THEN UNCHANGED chainVars ELSE UnlockDelegate(c, p, d.open)
             /\ tasks' = [tasks EXCEPT
                    ![t].pc = "unlockSave",
                    ![t].d.status = UnlockStatus(d, tasks[t].das, done)]
      BY <1>5 DEF UnlockTx
    <2>2. ChainGrows
      BY <1>0, <1>g, <2>1, ServiceGrows
    <2> DEFINE st == UnlockStatus(d, tasks[t].das, done)
    <2>3. st \in Status
      BY DEF UnlockStatus, Status
    <2> HIDE DEF st
    <2>4. [tasks[t] EXCEPT !.pc = "unlockSave", !.d = [d EXCEPT !.status = st]] \in Task
      BY <1>0, <2>3, DelegateTypes DEF Task, TaskPc
    <2>5. tasks' = [tasks EXCEPT ![t] =
                       [tasks[t] EXCEPT !.pc = "unlockSave", !.d = [d EXCEPT !.status = st]]]
      BY <1>0, <2>1 DEF st, Task
    <2>6. tasks' \in [TaskId -> Task]
      BY <1>0, <2>4, <2>5
    <2> QED
      BY <1>5, <1>u, <2>2, <2>6, TaskStepTypes DEF UnlockTx
  <1>6. CASE UnlockSave(t)
    <2>1. tasks' \in [TaskId -> Task]
      BY <1>6, TaskMoves DEF UnlockSave, TaskPc
    <2> QED
      BY <1>6, <1>f, <1>g, <2>1, TaskStepTypes DEF UnlockSave
  <1>7. CASE PunishLock(t)
    <2>1. tasks' \in [TaskId -> Task]
      BY <1>7, TaskMoves DEF PunishLock, TaskPc
    <2>2. rows' \in [Key -> Delegate]
      BY <1>7, <1>f, <1>u DEF PunishLock
    <2> QED
      BY <1>7, <1>g, <2>1, <2>2, TaskStepTypes DEF PunishLock
  <1>8. CASE PunishTx(t)
    <2>1. tasks' \in [TaskId -> Task]
      BY <1>8, TaskMoves DEF PunishTx, TaskPc
    <2>2. ChainGrows
      BY <1>0, <1>8, <1>g, ServiceGrows DEF PunishTx
    <2> QED
      BY <1>8, <1>u, <2>1, <2>2, TaskStepTypes DEF PunishTx
  <1>9. CASE PunishSave(t)
    <2>1. tasks' \in [TaskId -> Task]
      BY <1>9, TaskMoves DEF PunishSave, TaskPc
    <2> QED
      BY <1>9, <1>f, <1>g, <2>1, TaskStepTypes DEF PunishSave
  <1> QED
    BY <1>1, <1>2, <1>3, <1>4, <1>5, <1>6, <1>7, <1>8, <1>9 DEF TaskStep

-----------------------------------------------------------------------------
(* Delegations.                                                            *)

LEMMA FaultTypes ==
    ASSUME HistoryTypeOK, Fault, UNCHANGED <<gen, launched, crashes>>,
           dropped' \subseteq (Key \X Nat)
    PROVE  HistoryTypeOK'
  BY BoundAssumption DEF HistoryTypeOK, Fault

LEMMA RequestStepInv ==
    ASSUME TypeInv,
           \/ \E x \in Delegation : VerifyDelegate(x)
           \/ \E r \in inflight :
                 ReceiveFirst(r) \/ ReceiveAgain(r) \/ ReceiveFails(r) \/ ReceiveHalf(r)
    PROVE  TypeInv'
  <1>0. /\ ChainTypeOK /\ DbTypeOK /\ inflight \subseteq Request
        /\ rows \in [Key -> Delegate] /\ monitors \in Seq(Monitor) /\ gen \in [Key -> Nat]
    BY DEF TypeInv, DbTypeOK, TaskTypeOK, HistoryTypeOK
  <1>1. ASSUME NEW x \in Delegation, VerifyDelegate(x) PROVE TypeInv'
    <2> DEFINE info == channel[x.key.channel]
               r == [key |-> x.key, open |-> info.open, settle |-> info.settle,
                     nonce |-> x.nonce, unlocks |-> x.unlocks,
                     punishes |-> x.punishes, disposes |-> x.disposes]
    <2>1. /\ x.key \in Key /\ x.nonce \in Nat /\ x.unlocks \in SUBSET Lock
          /\ x.punishes \in SUBSET Lock /\ x.disposes \in SUBSET Lock
      BY DelegationAssumption, ContractAssumption
    <2>2. info.open \in Nat /\ info.settle \in Nat
      BY <1>0, <2>1, KeyTypes DEF ChainTypeOK, ChannelInfo
    <2>3. r \in Request
      BY <2>1, <2>2 DEF Request
    <2>4. inflight' = inflight \cup {r} /\ UNCHANGED <<chainVars, dbVars, feedVars, loopVars, tasks, historyVars>>
      BY <1>1 DEF VerifyDelegate
    <2> HIDE DEF r
    <2>5. TaskTypeOK' /\ DbTypeOK' /\ HistoryTypeOK'
      BY <2>3, <2>4 DEF TypeInv, TaskTypeOK, DbTypeOK, HistoryTypeOK, dbVars, historyVars
    <2>6. ChainGrows
      BY <1>0, <2>4, UnchangedGrows
    <2>7. LoopInv'
      BY <2>4, <2>6, LoopStays DEF TypeInv, dbVars
    <2> QED
      BY <2>5, <2>6, <2>7 DEF TypeInv, ChainGrows
  <1>2. ASSUME NEW r \in inflight, ReceiveFirst(r) PROVE TypeInv'
    <2>1. r \in Request /\ r.key \in Key /\ r.punishes \in SUBSET Lock /\ r.disposes \in SUBSET Lock
      BY <1>0 DEF Request
    <2> DEFINE d == FirstDelegate(r, gen[r.key] + 1)
    <2>2. d \in Delegate
      BY <1>0, <2>1, RequestTypes
    <2> HIDE DEF d
    <2>3. ChainGrows
      BY <1>0, <1>2, UnchangedGrows DEF ReceiveFirst
    <2>4. Height \in Nat
      BY <2>3 DEF ChainGrows, Height
    <2>5. /\ monitors' \in Seq(Monitor)
          /\ DOMAIN monitors \subseteq DOMAIN monitors'
      BY <1>0, <1>2, <2>2, <2>4, MonitorTypes DEF ReceiveFirst, d
    <2>6. rows' \in [Key -> Delegate]
      BY <1>0, <1>2, <2>2 DEF ReceiveFirst, d
    <2>7. punishes' \subseteq LockRow /\ disposes' \subseteq LockRow
      BY <1>0, <1>2, <2>1, AppendLocksTypes DEF ReceiveFirst, DbTypeOK
    <2>8. DbTypeOK'
      BY <1>0, <1>2, <2>5, <2>6, <2>7 DEF ReceiveFirst, DbTypeOK
    <2>9. HistoryTypeOK' /\ TaskTypeOK'
      <3>1. gen' \in [Key -> Nat]
        BY <1>0, <1>2, <2>1 DEF ReceiveFirst
      <3>2. UNCHANGED <<launched, dropped, crashes, faults, tasks>> /\ inflight' = inflight \ {r}
        BY <1>2 DEF ReceiveFirst
      <3>3. HistoryTypeOK'
        BY <3>1, <3>2 DEF TypeInv, HistoryTypeOK
      <3>4. TaskTypeOK'
        BY <3>2 DEF TypeInv, TaskTypeOK
      <3> QED
        BY <3>3, <3>4
    <2>10. LoopInv'
      BY <1>2, <2>3, <2>5, LoopStays DEF ReceiveFirst, TypeInv
    <2> QED
      BY <2>3, <2>8, <2>9, <2>10 DEF TypeInv, ChainGrows
  <1>3. ASSUME NEW r \in inflight, ReceiveAgain(r) PROVE TypeInv'
    <2>1. r \in Request /\ r.key \in Key /\ r.punishes \in SUBSET Lock /\ r.disposes \in SUBSET Lock
      BY <1>0 DEF Request
    <2>2. Redelegate(rows[r.key], r) \in Delegate
      BY <1>0, <2>1, DelegateTypes
    <2>3. rows' \in [Key -> Delegate]
      BY <1>0, <1>3, <2>2 DEF ReceiveAgain
    <2>4. punishes' \subseteq LockRow /\ disposes' \subseteq LockRow
      <3>1. punishes \in SUBSET LockRow /\ disposes \in SUBSET LockRow
        BY <1>0 DEF DbTypeOK
      <3>2. /\ AppendLocks(punishes, r.key, r.punishes) \subseteq LockRow
            /\ AppendLocks(disposes, r.key, r.disposes) \subseteq LockRow
        BY <2>1, <3>1, AppendLocksTypes
      <3> QED
        BY <1>3, <3>1, <3>2 DEF ReceiveAgain
    <2>5. DbTypeOK'
      BY <1>0, <1>3, <2>3, <2>4 DEF ReceiveAgain, DbTypeOK
    <2>6. HistoryTypeOK' /\ TaskTypeOK'
      BY <1>3 DEF ReceiveAgain, TypeInv, HistoryTypeOK, TaskTypeOK, historyVars
    <2>7. ChainGrows
      BY <1>0, <1>3, UnchangedGrows DEF ReceiveAgain
    <2>8. LoopInv'
      BY <1>3, <2>7, LoopStays DEF ReceiveAgain, TypeInv
    <2> QED
      BY <2>5, <2>6, <2>7, <2>8 DEF TypeInv, ChainGrows
  <1>4. ASSUME NEW r \in inflight, ReceiveFails(r) PROVE TypeInv'
    <2>1. DbTypeOK' /\ TaskTypeOK'
      BY <1>0, <1>4 DEF ReceiveFails, TypeInv, DbTypeOK, TaskTypeOK, dbVars
    <2>2. HistoryTypeOK'
      BY <1>4, FaultTypes DEF ReceiveFails, TypeInv, HistoryTypeOK
    <2>3. ChainGrows
      BY <1>0, <1>4, UnchangedGrows DEF ReceiveFails
    <2>4. LoopInv'
      BY <1>4, <2>3, LoopStays DEF ReceiveFails, TypeInv, dbVars
    <2> QED
      BY <2>1, <2>2, <2>3, <2>4 DEF TypeInv, ChainGrows
  <1>5. ASSUME NEW r \in inflight, ReceiveHalf(r) PROVE TypeInv'
    <2>1. r \in Request /\ r.key \in Key /\ r.punishes \in SUBSET Lock /\ r.disposes \in SUBSET Lock
      BY <1>0 DEF Request
    <2> DEFINE d == FirstDelegate(r, 0)
    <2>2. d \in Delegate
      BY <2>1, RequestTypes
    <2> HIDE DEF d
    <2>3. ChainGrows
      BY <1>0, <1>5, UnchangedGrows DEF ReceiveHalf
    <2>4. Height \in Nat
      BY <2>3 DEF ChainGrows, Height
    <2>5. /\ monitors' \in Seq(Monitor)
          /\ DOMAIN monitors \subseteq DOMAIN monitors'
      <3>1. \/ monitors' = monitors
            \/ monitors' = AddUpdateMonitor(monitors, d, Height)
        BY <1>5 DEF ReceiveHalf, d
      <3>2. /\ AddUpdateMonitor(monitors, d, Height) \in Seq(Monitor)
            /\ DOMAIN monitors \subseteq DOMAIN AddUpdateMonitor(monitors, d, Height)
        BY <1>0, <2>2, <2>4, MonitorTypes
      <3>3. CASE monitors' = monitors
        BY <1>0, <3>3
      <3>4. CASE monitors' = AddUpdateMonitor(monitors, d, Height)
        BY <3>2, <3>4
      <3> QED
        BY <3>1, <3>3, <3>4
    <2>6. punishes' \subseteq LockRow /\ disposes' \subseteq LockRow
      BY <1>0, <1>5, <2>1, AppendLocksTypes DEF ReceiveHalf, DbTypeOK
    <2>7. DbTypeOK' /\ TaskTypeOK'
      BY <1>0, <1>5, <2>5, <2>6 DEF ReceiveHalf, TypeInv, DbTypeOK, TaskTypeOK
    <2>8. HistoryTypeOK'
      BY <1>5, FaultTypes DEF ReceiveHalf, TypeInv, HistoryTypeOK
    <2>9. LoopInv'
      BY <1>5, <2>3, <2>5, LoopStays DEF ReceiveHalf, TypeInv
    <2> QED
      BY <2>3, <2>7, <2>8, <2>9 DEF TypeInv, ChainGrows
  <1> QED
    BY <1>1, <1>2, <1>3, <1>4, <1>5

-----------------------------------------------------------------------------
(* The loop.                                                               *)

\* A step of the loop leaves the chain alone.
LEMMA LoopStepTypes ==
    ASSUME TypeInv, UNCHANGED chainVars, DbTypeOK', LoopInv', UNCHANGED inflight,
           tasks' \in [TaskId -> Task], HistoryTypeOK'
    PROVE  TypeInv'
  BY DEF TypeInv, ChainTypeOK, chainVars, TaskTypeOK

LEMMA SpawnTypes ==
    ASSUME TypeInv, NEW at \in TaskPc, NEW d \in Delegate, Spawn(at, d)
    PROVE  tasks' \in [TaskId -> Task]
  <1> DEFINE free == {t \in TaskId : tasks[t].pc = "free"}
             task == [pc |-> at, d |-> d, das |-> {}]
  <1>1. task \in Task
    BY DEF Task
  <1>2. free # {} /\ tasks' = [tasks EXCEPT ![CHOOSE t \in free : TRUE] = task]
    BY DEF Spawn
  <1> QED
    BY <1>1, <1>2 DEF TypeInv, TaskTypeOK

\* The steps of handleBlockNumber.
LEMMA BlockStepInv ==
    ASSUME TypeInv,
           \/ ReceiveBlock \/ HandleSkipped \/ MarkRunning \/ BlockDone
           \/ MarkFails \/ HandleBlockFails
           \/ \E i \in monTodo : SkipMonitor(i) \/ SpawnMonitor(i) \/ ReadMonitored(i)
    PROVE  TypeInv'
  <1>0. /\ DbTypeOK /\ LoopInv /\ HistoryTypeOK /\ LoopTypeOK
        /\ rows \in [Key -> Delegate] /\ monitors \in Seq(Monitor)
        /\ tasks \in [TaskId -> Task] /\ cur \in Delegate
        /\ Height \in Nat
    <2>1. Height \in Nat
      BY LenProperties DEF TypeInv, ChainTypeOK, Height
    <2> QED
      BY <2>1 DEF TypeInv, DbTypeOK, LoopInv, LoopTypeOK, TaskTypeOK
  <1>h. ASSUME NEW n \in 0 .. Height, HandleBlock(n), goal' \in 0 .. Height
        PROVE  TypeInv'
    <2>1. GetDelegateMonitorList(monitors, n) \subseteq DOMAIN monitors
      BY DEF GetDelegateMonitorList
    <2>2. Height' = Height
      BY <1>h DEF HandleBlock, chainVars, Height
    <2>3. LoopInv'
      BY <1>0, <1>h, <2>1, <2>2 DEF HandleBlock, LoopInv, LoopTypeOK, LoopPc, dbVars
    <2>4. DbTypeOK' /\ HistoryTypeOK'
      BY <1>0, <1>h DEF HandleBlock, DbTypeOK, HistoryTypeOK, dbVars, historyVars
    <2> QED
      BY <1>0, <1>h, <2>3, <2>4, LoopStepTypes DEF HandleBlock
  <1>1. CASE ReceiveBlock
    <2>1. PICK n \in 0 .. Height : goal' = n /\ HandleBlock(FirstToHandle(n))
      BY <1>1 DEF ReceiveBlock
    <2>2. FirstToHandle(n) \in 0 .. Height
      BY <1>0 DEF FirstToHandle, LoopTypeOK
    <2> QED
      BY <1>h, <2>1, <2>2
  <1>2. CASE HandleSkipped
    <2>1. blockNumber + 1 \in 0 .. Height /\ goal' \in 0 .. Height
      BY <1>0, <1>2 DEF HandleSkipped, LoopInv, LoopTypeOK
    <2> QED
      BY <1>2, <1>h, <2>1 DEF HandleSkipped
  <1>3. CASE MarkRunning
    <2>1. tasks' \in [TaskId -> Task]
      <3>1. [cur EXCEPT !.status = "running"] \in Delegate
        BY <1>0, DelegateTypes DEF Status
      <3>2. Spawn("ubp", [cur EXCEPT !.status = "running"])
        BY <1>3 DEF MarkRunning
      <3> QED
        BY <3>1, <3>2, SpawnTypes DEF TaskPc
    <2>2. cur.key \in Key /\ cur.gen \in Nat
      BY <1>0, DelegateTypes
    <2>3. rows' \in [Key -> Delegate]
      <3>1. [rows[cur.key] EXCEPT !.status = "running"] \in Delegate
        BY <1>0, <2>2, DelegateTypes DEF Status
      <3> QED
        BY <1>0, <1>3, <2>2, <3>1 DEF MarkRunning, UpdateDelegateStatus
    <2>4. DbTypeOK' /\ HistoryTypeOK'
      BY <1>0, <1>3, <2>2, <2>3 DEF MarkRunning, DbTypeOK, HistoryTypeOK
    <2>5. LoopInv'
      BY <1>0, <1>3, KeyTypes
      DEF MarkRunning, LoopInv, LoopTypeOK, LoopPc, chainVars, feedVars, Height
    <2> QED
      BY <1>3, <2>1, <2>4, <2>5, LoopStepTypes DEF MarkRunning
  <1>l. ASSUME UNCHANGED <<chainVars, alarm, blockNumber, goal, dsTodo, cur, monitors>>,
               monTodo' \subseteq monTodo, LeaveBlock
        PROVE  LoopInv'
    <2>1. blocks' = blocks /\ Height' = Height
      BY <1>l DEF chainVars, Height
    <2>2. /\ pc' \in {"skipped", "event", "idle"} /\ fed' \in {fed, goal}
          /\ pc' = "skipped" => blockNumber < goal
          /\ pc' = "event" => EventAt(goal)
      BY <1>l DEF LeaveBlock
    <2>3. LoopTypeOK'
      BY <1>0, <1>l, <2>1, <2>2 DEF LoopTypeOK, LoopPc
    <2>4. EventAt(goal)' <=> EventAt(goal)
      BY <1>l, <2>1 DEF EventAt
    <2> QED
      BY <1>l, <2>2, <2>3, <2>4 DEF LoopInv
  <1>4. CASE BlockDone
    <2>1. DbTypeOK' /\ HistoryTypeOK'
      BY <1>0, <1>4 DEF BlockDone, DbTypeOK, HistoryTypeOK, LoopTypeOK, historyVars
    <2>2. LoopInv'
      BY <1>4, <1>l DEF BlockDone
    <2> QED
      BY <1>0, <1>4, <2>1, <2>2, LoopStepTypes DEF BlockDone
  <1>m. \A i \in monTodo : i \in DOMAIN monitors /\ monitors[i] \in Monitor
    BY <1>0, ElementOfSeq, LenProperties DEF LoopTypeOK
  <1>6. CASE MarkFails
    <2>1. cur.key \in Key /\ blockNumber \in Nat
      BY <1>0, DelegateTypes DEF LoopTypeOK
    <2>2. HistoryTypeOK'
      <3>1. dropped' \subseteq (Key \X Nat)
        BY <1>0, <1>6, <2>1 DEF MarkFails, HistoryTypeOK
      <3> QED
        BY <1>0, <1>6, <3>1, FaultTypes DEF MarkFails
    <2>3. DbTypeOK'
      BY <1>0, <1>6 DEF MarkFails, DbTypeOK, dbVars
    <2>4. LoopInv'
      BY <1>0, <1>6, KeyTypes
      DEF MarkFails, LoopInv, LoopTypeOK, LoopPc, chainVars, dbVars, feedVars, Height
    <2> QED
      BY <1>0, <1>6, <2>2, <2>3, <2>4, LoopStepTypes DEF MarkFails
  <1>7. CASE HandleBlockFails
    <2>1. HistoryTypeOK'
      <3>1. \A i \in monTodo : monitors[i].key \in Key
        BY <1>m DEF Monitor
      <3>2. blockNumber \in Nat /\ dropped \subseteq (Key \X Nat)
        BY <1>0 DEF LoopTypeOK, HistoryTypeOK
      <3>3. dropped' \subseteq (Key \X Nat)
        BY <1>7, <3>1, <3>2 DEF HandleBlockFails
      <3> QED
        BY <1>0, <1>7, <3>3, FaultTypes DEF HandleBlockFails
    <2>2. DbTypeOK'
      BY <1>0, <1>7 DEF HandleBlockFails, DbTypeOK, dbVars
    <2>3. LoopInv'
      BY <1>7, <1>l DEF HandleBlockFails, dbVars
    <2> QED
      BY <1>0, <1>7, <2>1, <2>2, <2>3, LoopStepTypes DEF HandleBlockFails
  <1>5. ASSUME NEW i \in monTodo, SkipMonitor(i) \/ SpawnMonitor(i) \/ ReadMonitored(i)
        PROVE  TypeInv'
    <2>1. i \in DOMAIN monitors /\ monitors[i] \in Monitor
      BY <1>m
    <2>2. monitors[i].key \in Key /\ rows[monitors[i].key] \in Delegate
      BY <1>0, <2>1 DEF Monitor
    <2>3. tasks' \in [TaskId -> Task]
      BY <1>0, <1>5, <2>2, SpawnTypes DEF SkipMonitor, SpawnMonitor, ReadMonitored, TaskPc
    <2>4. DbTypeOK' /\ HistoryTypeOK' /\ UNCHANGED <<chainVars, inflight>>
      BY <1>0, <1>5
      DEF SkipMonitor, SpawnMonitor, ReadMonitored, DbTypeOK, HistoryTypeOK, dbVars, historyVars
    <2>5. LoopInv'
      BY <1>0, <1>5, <2>2
      DEF SkipMonitor, SpawnMonitor, ReadMonitored, LoopInv, LoopTypeOK, LoopPc, chainVars,
          dbVars, feedVars, Height
    <2> QED
      BY <2>3, <2>4, <2>5, LoopStepTypes
  <1> QED
    BY <1>1, <1>2, <1>3, <1>4, <1>5, <1>6, <1>7

\* The steps of handleStateChange.
LEMMA EventStepInv ==
    ASSUME TypeInv,
           \/ HandleClosed \/ ReadSettleBlock \/ HandlerFails \/ AddClosedMonitor
           \/ \E d \in dsTodo : SaveClosed(d) \/ DeleteDelegate(d) \/ DeleteFails(d)
           \/ HandleBalanceProofUpdated \/ SaveByOther
           \/ HandleSettledOrWithdraw \/ IgnoreEvent
    PROVE  TypeInv'
  <1>0. /\ DbTypeOK /\ LoopInv /\ HistoryTypeOK /\ LoopTypeOK /\ ChainTypeOK
        /\ rows \in [Key -> Delegate] /\ monitors \in Seq(Monitor)
        /\ tasks \in [TaskId -> Task] /\ cur \in Delegate /\ dsTodo \subseteq Delegate
        /\ Height \in Nat
    <2>1. Height \in Nat
      BY LenProperties DEF TypeInv, ChainTypeOK, Height
    <2> QED
      BY <2>1 DEF TypeInv, DbTypeOK, LoopInv, LoopTypeOK, TaskTypeOK
  <1>e. ASSUME EventAt(goal) PROVE blocks[goal] \in Event
    <2>1. goal \in 1 .. Len(blocks)
      BY <1>0, <1>e DEF EventAt, LoopTypeOK, Height
    <2>2. blocks[goal] \in Event \cup {EmptyBlock}
      BY <1>0, <2>1, ElementOfSeq DEF ChainTypeOK
    <2> QED
      BY <1>e, <2>2 DEF EventAt, EmptyBlock
  <1>d. EventDelegates \subseteq Delegate
    BY <1>0 DEF EventDelegates, GetDelegateListByChannelIdentifier
  \* What each of these steps leaves alone, and may do to the loop.
  <1>l. ASSUME UNCHANGED <<chainVars, feedVars, goal, monTodo>>,
               DOMAIN monitors \subseteq DOMAIN monitors',
               pc' \in LoopPc, pc' # "skipped",
               pc' \in {"event", "rpc"} => EventAt(goal),
               dsTodo' \subseteq Delegate, cur' \in Delegate
        PROVE  LoopInv'
    <2>1. LoopTypeOK'
      BY <1>0, <1>l DEF LoopTypeOK, chainVars, feedVars, Height
    <2>2. EventAt(goal)' <=> EventAt(goal)
      BY <1>l DEF EventAt, chainVars
    <2> QED
      BY <1>l, <2>1, <2>2 DEF LoopInv
  <1>s. ASSUME UNCHANGED <<chainVars, dbVars, feedVars, goal, monTodo, tasks, inflight>>,
               HistoryTypeOK',
               pc' \in LoopPc, pc' # "skipped",
               pc' \in {"event", "rpc"} => EventAt(goal),
               dsTodo' \subseteq Delegate, cur' \in Delegate
        PROVE  TypeInv'
    <2>1. LoopInv'
      BY <1>l, <1>s DEF dbVars
    <2>2. DbTypeOK'
      BY <1>0, <1>s DEF DbTypeOK, dbVars
    <2> QED
      BY <1>0, <1>s, <2>1, <2>2, LoopStepTypes
  <1>h. UNCHANGED historyVars => HistoryTypeOK'
    BY <1>0 DEF HistoryTypeOK, historyVars
  <1>w. ASSUME UNCHANGED <<chainVars, latest, feedVars, goal, monTodo, tasks, inflight>>,
               HistoryTypeOK',
               rows' \in [Key -> Delegate],
               punishes' \subseteq punishes, disposes' \subseteq disposes,
               monitors' \in Seq(Monitor), DOMAIN monitors \subseteq DOMAIN monitors',
               pc' \in LoopPc, pc' \notin {"skipped", "event", "rpc"},
               dsTodo' \subseteq Delegate, cur' \in Delegate
        PROVE  TypeInv'
    <2>1. LoopInv'
      BY <1>l, <1>w
    <2>2. DbTypeOK'
      BY <1>0, <1>w DEF DbTypeOK
    <2> QED
      BY <1>0, <1>w, <2>1, <2>2, LoopStepTypes
  <1>1. CASE HandleClosed
    <2>1. EventAt(goal)
      BY <1>0, <1>1 DEF HandleClosed, LoopInv
    <2> QED
      BY <1>0, <1>1, <1>d, <1>h, <1>s, <2>1 DEF HandleClosed, LoopPc
  <1>2. CASE ReadSettleBlock
    <2>1. channel[blocks[goal].channel].settle \in Nat
      <3>1. blocks[goal].channel \in Channel
        BY <1>0, <1>2, <1>e DEF ReadSettleBlock, LoopInv, Event
      <3> QED
        BY <1>0, <3>1 DEF ChainTypeOK, ChannelInfo
    <2>2. dsTodo' \subseteq Delegate
      BY <1>0, <1>2, <2>1, DelegateTypes DEF ReadSettleBlock
    <2> QED
      BY <1>0, <1>2, <1>h, <1>s, <2>2 DEF ReadSettleBlock, LoopPc
  <1>3. CASE HandlerFails
    <2>1. HistoryTypeOK'
      BY <1>0, <1>3, FaultTypes DEF HandlerFails, HistoryTypeOK
    <2> QED
      BY <1>0, <1>3, <1>s, <2>1 DEF HandlerFails, LoopPc
  <1>4. CASE AddClosedMonitor
    <2>1. monitors' \in Seq(Monitor) /\ DOMAIN monitors \subseteq DOMAIN monitors'
      BY <1>0, <1>4, MonitorTypes DEF AddClosedMonitor
    <2> QED
      BY <1>0, <1>4, <1>h, <1>w, <2>1, KeyTypes DEF AddClosedMonitor, LoopPc
  <1>5. ASSUME NEW d \in dsTodo, SaveClosed(d) PROVE TypeInv'
    <2>1. rows' \in [Key -> Delegate]
      BY <1>0, <1>5, SavedRows DEF SaveClosed
    <2> QED
      BY <1>0, <1>5, <1>h, <1>w, <2>1 DEF SaveClosed, LoopPc
  <1>6. ASSUME NEW d \in dsTodo, DeleteDelegate(d) PROVE TypeInv'
    <2>1. d.key \in Key /\ NoDelegate(d.key) \in Delegate
      BY <1>0, DelegateTypes, KeyTypes
    <2>2. rows' \in [Key -> Delegate]
      BY <1>0, <1>6, <2>1 DEF DeleteDelegate
    <2> QED
      BY <1>0, <1>6, <1>h, <1>w, <2>2 DEF DeleteDelegate, DeleteLocks, LoopPc
  <1>11. ASSUME NEW d \in dsTodo, DeleteFails(d) PROVE TypeInv'
    <2>1. d.key \in Key /\ NoDelegate(d.key) \in Delegate
      BY <1>0, DelegateTypes, KeyTypes
    <2>2. rows' \in [Key -> Delegate]
      BY <1>0, <1>11, <2>1 DEF DeleteFails
    <2>3. punishes' \subseteq punishes /\ disposes' \subseteq disposes
      BY <1>11 DEF DeleteFails, DeleteLocks
    <2>4. HistoryTypeOK'
      BY <1>0, <1>11, FaultTypes DEF DeleteFails, HistoryTypeOK
    <2> QED
      BY <1>0, <1>11, <1>w, <2>2, <2>3, <2>4 DEF DeleteFails, LoopPc
  <1>7. CASE HandleBalanceProofUpdated
    <2> DEFINE k == [channel |-> blocks[goal].channel, delegator |-> blocks[goal].participant]
    <2>1. EventAt(goal)
      BY <1>0, <1>7 DEF HandleBalanceProofUpdated, LoopInv
    <2>2. k \in Key
      BY <1>e, <2>1 DEF Event, Key
    <2>3. cur' \in Delegate
      BY <1>0, <1>7, <2>2 DEF HandleBalanceProofUpdated
    <2> QED
      BY <1>0, <1>7, <1>h, <1>s, <2>3 DEF HandleBalanceProofUpdated, LoopPc
  <1>8. CASE SaveByOther
    <2>1. [cur EXCEPT !.status = "byOther"] \in Delegate
      BY <1>0, DelegateTypes DEF Status
    <2>2. rows' \in [Key -> Delegate]
      BY <1>0, <1>8, <2>1, SavedRows DEF SaveByOther
    <2> QED
      BY <1>0, <1>8, <1>h, <1>w, <2>2, KeyTypes DEF SaveByOther, LoopPc
  <1>9. CASE HandleSettledOrWithdraw
    BY <1>0, <1>9, <1>d, <1>h, <1>s DEF HandleSettledOrWithdraw, LoopPc
  <1>10. CASE IgnoreEvent
    BY <1>0, <1>10, <1>h, <1>s DEF IgnoreEvent, LoopPc
  <1> QED
    BY <1>1, <1>2, <1>3, <1>4, <1>5, <1>6, <1>7, <1>8, <1>9, <1>10, <1>11

-----------------------------------------------------------------------------
LEMMA InitTypeInv == Init => TypeInv
  <1> SUFFICES ASSUME Init PROVE TypeInv
    OBVIOUS
  <1> USE DEF Init
  <1>1. ChainTypeOK /\ Height = 1
    <2>1. PICK c \in Channel :
             blocks = << [type |-> "open", channel |-> c, participant |-> SomeParty] >>
      BY DEF ChainInit
    <2>2. [type |-> "open", channel |-> c, participant |-> SomeParty] \in Event
      BY PartyTypes DEF Event, EventType
    <2>3. blocks \in Seq(Event \cup {EmptyBlock}) /\ Len(blocks) = 1
      BY <2>1, <2>2
    <2>4. Opened(1) \in ChannelInfo
      BY DEF Opened, NoProof, ChannelInfo
    <2> QED
      BY <2>3, <2>4 DEF ChainTypeOK, ChainInit, Height
  <1>2. DbTypeOK
    BY KeyTypes, EmptySeq DEF DbTypeOK
  <1>3. LoopInv
    <2>1. alarm \in BOOLEAN
      BY Zenon
    <2> QED
      BY <1>1, <2>1, KeyTypes DEF LoopInv, LoopTypeOK, LoopPc
  <1>4. TaskTypeOK /\ HistoryTypeOK
    BY KeyTypes, BoundAssumption DEF TaskTypeOK, HistoryTypeOK
  <1> QED
    BY <1>1, <1>2, <1>3, <1>4 DEF TypeInv

LEMMA NextTypeInv == TypeInv /\ [Next]_vars => TypeInv'
  <1> SUFFICES ASSUME TypeInv, [Next]_vars PROVE TypeInv'
    OBVIOUS
  <1>0. ChainTypeOK /\ LoopInv /\ LoopTypeOK
    BY DEF TypeInv, LoopInv
  <1>s. ASSUME ServiceUnchanged, ChainGrows PROVE TypeInv'
    <2>1. DbTypeOK' /\ TaskTypeOK' /\ HistoryTypeOK'
      BY <1>s DEF ServiceUnchanged, TypeInv, DbTypeOK, TaskTypeOK, HistoryTypeOK, dbVars,
                  historyVars
    <2>2. LoopInv'
      BY <1>0, <1>s, LoopStays DEF ServiceUnchanged, dbVars
    <2> QED
      BY <1>s, <2>1, <2>2 DEF TypeInv, ChainGrows
  <1>1. CASE ChainStep
    BY <1>0, <1>1, <1>s, ChainNextGrows DEF ChainStep
  <1>2. CASE LoopStep \/ LoopFails
    BY <1>2, BlockStepInv, EventStepInv DEF LoopStep, LoopFails
  <1>3. ASSUME NEW t \in TaskId, TaskStep(t) PROVE TypeInv'
    BY <1>3, TaskStepInv
  <1>4. CASE \/ \E x \in Delegation : VerifyDelegate(x)
             \/ \E r \in inflight :
                   ReceiveFirst(r) \/ ReceiveAgain(r) \/ ReceiveFails(r) \/ ReceiveHalf(r)
    BY <1>4, RequestStepInv
  <1>5. CASE Crash
    <2>1. alarm' \in BOOLEAN
      BY <1>5, Zenon DEF Crash, Started
    <2>2. Len(blocks) \in Nat
      BY <1>0, LenProperties DEF ChainTypeOK
    <2>3. LoopInv'
      BY <1>0, <1>5, <2>1, <2>2, KeyTypes
      DEF Crash, Started, LoopInv, LoopTypeOK, LoopPc, chainVars, Height
    <2>4. TaskTypeOK'
      BY <1>5, KeyTypes DEF Crash, Started, TaskTypeOK
    <2>5. DbTypeOK' /\ HistoryTypeOK' /\ ChainTypeOK'
      BY <1>0, <1>5, BoundAssumption
      DEF Crash, TypeInv, DbTypeOK, HistoryTypeOK, ChainTypeOK, chainVars, dbVars
    <2> QED
      BY <2>3, <2>4, <2>5 DEF TypeInv
  <1>6. CASE AlarmFails
    <2>1. alarm' \in BOOLEAN
      BY <1>6, Zenon DEF AlarmFails
    <2>2. LoopInv'
      BY <1>0, <1>6, <2>1
      DEF AlarmFails, LoopInv, LoopTypeOK, EventAt, chainVars, dbVars, loopVars, Height
    <2>3. DbTypeOK' /\ HistoryTypeOK' /\ ChainTypeOK' /\ TaskTypeOK'
      BY <1>0, <1>6, BoundAssumption
      DEF AlarmFails, Fault, TypeInv, DbTypeOK, HistoryTypeOK, ChainTypeOK, TaskTypeOK,
          chainVars, dbVars
    <2> QED
      BY <2>2, <2>3 DEF TypeInv
  <1>7. CASE UNCHANGED vars
    <2>1. ChainGrows
      BY <1>0, <1>7, UnchangedGrows DEF vars
    <2> QED
      BY <1>7, <1>s, <2>1 DEF vars, ServiceUnchanged
  <1> QED
    BY <1>1, <1>2, <1>3, <1>4, <1>5, <1>6, <1>7 DEF Next

LEMMA SpecTypeInv == Spec => []TypeInv
  <1> QED
    BY InitTypeInv, NextTypeInv, PTL DEF Spec

\* Every variable keeps its type, and the loop never handles, or takes as delivered,
\* a block that the chain does not have: handleBlockNumber's catching up ends at the
\* notified block, restarts and failed calls included.
THEOREM TypeCorrect == Spec => []TypeOK
  <1>1. TypeInv => TypeOK
    BY DEF TypeInv, LoopInv, TypeOK
  <1> QED
    BY <1>1, SpecTypeInv, PTL
=============================================================================
