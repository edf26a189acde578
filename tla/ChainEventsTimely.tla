------------------------- MODULE ChainEventsTimely --------------------------
(***************************************************************************)
(* Updates are started when they are due, and reach the contract in the    *)
(* window it has for them, until the service is restarted and as long as   *)
(* the feed is not further behind than a reveal timeout.                   *)
(*                                                                         *)
(* The settle block of a channel is read at one time and acted on at       *)
(* another, and channels are settled and opened again in between.  Every   *)
(* settle block the service holds, in a row, a monitor, a copy or a        *)
(* request, is still the channel's, or its time is over: the feed is past  *)
(* the block at which it starts an update (Seen).  A settlement is mined   *)
(* only when the loop is that far, which is what the bound on the lag      *)
(* gives.  So a monitor of a block ahead of the feed is of the settle      *)
(* block the channel has, and what it starts, if it is of the life that    *)
(* lasts, is started at the right block; that life and its settle block    *)
(* then stay (LifeStays).                                                  *)
(***************************************************************************)
EXTENDS ChainEventsLives

InTime == crashes = 0 /\ MaxLag <= RevealTimeout

\* Settle block s is mined, and the feed is past the block of its update.
Over(s) == s <= Height /\ s - RevealTimeout <= fed

\* What the service may hold as the settle block of channel c.
Seen(c, s) == s = 0 \/ channel[c].settle = s \/ Over(s)

SeenRows(table) == \A k \in Key : Seen(k.channel, table[k].settle)
SeenMonitors(table) ==
    \A i \in DOMAIN table :
        table[i].type = "update" => Seen(table[i].key.channel, table[i].block + RevealTimeout)
SeenTasks(ts) == \A t \in TaskId : Seen(ts[t].d.key.channel, ts[t].d.settle)
SeenCopies(S) == \A x \in S : Seen(x.key.channel, x.settle)

SettlesInv ==
    InTime =>
        /\ SeenRows(rows) /\ SeenMonitors(monitors) /\ SeenTasks(tasks)
        /\ SeenCopies(dsTodo) /\ SeenCopies({cur}) /\ SeenCopies(inflight)

\* The block that is handled is ahead of the feed, and its monitors are looked at.
PositionInv ==
    crashes = 0 =>
        /\ fed >= 0
        /\ pc \in {"skipped", "monitors", "mark"} => blockNumber > fed
        /\ pc \in {"monitors", "mark"} => \A i \in monTodo : monitors[i].block = blockNumber

\* The update of d is for a life that is over, or the channel is closed and it is time.
OnTime(d) ==
    LET info == channel[d.key.channel]
    IN  info.open = d.open => info.state = 2 /\ info.settle - RevealTimeout <= Height

\* An update that was started and is not sent yet was started in time.
SentOnTime(ts) == \A t \in TaskId : ts[t].pc \in {"ubp", "ubpTx"} => OnTime(ts[t].d)

LaunchInv == InTime => StartedOnTime /\ SentOnTime(tasks)

TimelyInv == SettlesInv /\ PositionInv /\ LaunchInv

-----------------------------------------------------------------------------
(* What the chain does to a settle block.                                  *)

\* What was seen stays seen.
SeenStays == \A c \in Channel, s \in Int : Seen(c, s) => Seen(c, s)'

\* Transactions that keep the settle block of every channel.
KeepsSettle == \A c \in Channel : channel'[c].settle = channel[c].settle

LEMMA KeptIsSeen ==
    ASSUME TypeInv, TypeInv', KeepsSettle, Height <= Height', fed <= fed'
    PROVE  SeenStays
  <1>0. /\ fed \in Int /\ fed' \in Int /\ Height \in Nat /\ Height' \in Nat
        /\ RevealTimeout \in Nat
    BY LoopTyped, RevealAssumption DEF TypeInv, LoopInv, LoopTypeOK, Height, ChainTypeOK
  <1>1. ASSUME NEW s \in Int, Over(s) PROVE Over(s)'
    BY <1>0, <1>1 DEF Over
  <1> QED
    BY <1>1 DEF SeenStays, Seen, KeepsSettle

LEMMA UnchangedKeeps == UNCHANGED channel => KeepsSettle
  BY DEF KeepsSettle

LEMMA ServiceKeepsSettle ==
    ASSUME ChainTypeOK, NEW c \in Channel, NEW p \in Participant, NEW o, NEW n \in Nat,
           \/ UpdateBalanceProofDelegate(c, p, o, n)
           \/ UnlockDelegate(c, p, o)
           \/ PunishObsoleteUnlock(c, p, o)
    PROVE  KeepsSettle
  <1>1. channel \in [Channel -> ChannelInfo] /\ channel[c] \in ChannelInfo
    BY DEF ChainTypeOK
  <1>2. \E info : /\ info.settle = channel[c].settle
                  /\ channel' = [channel EXCEPT ![c] = info]
    <2>1. CASE UpdateBalanceProofDelegate(c, p, o, n)
      <3> DEFINE info == [channel[c] EXCEPT !.nonce[Partner(p)] = n]
      <3>1. info.settle = channel[c].settle
        BY <1>1 DEF ChannelInfo
      <3> QED
        BY <2>1, <3>1 DEF UpdateBalanceProofDelegate, Transact
    <2>2. CASE UnlockDelegate(c, p, o)
      BY <2>2 DEF UnlockDelegate, Transact
    <2>3. CASE PunishObsoleteUnlock(c, p, o)
      <3> DEFINE info == [channel[c] EXCEPT !.nonce[p] = MaxUint64]
      <3>1. info.settle = channel[c].settle
        BY <1>1 DEF ChannelInfo
      <3> QED
        BY <2>3, <3>1 DEF PunishObsoleteUnlock, Transact
    <2> QED
      BY <2>1, <2>2, <2>3
  <1> QED
    BY <1>1, <1>2 DEF KeepsSettle

\* One channel changes: it keeps its settle block, or had none, or is settled and its
\* settle block is over.
LEMMA ChangedIsSeen ==
    ASSUME TypeInv, TypeInv', InTime, fed' = fed, Height <= Height',
           NEW c \in Channel, NEW info \in ChannelInfo,
           channel' = [channel EXCEPT ![c] = info],
           info.settle = channel[c].settle \/ channel[c].settle = 0 \/ Over(channel[c].settle)
    PROVE  SeenStays
  <1>0. /\ fed \in Int /\ Height \in Nat /\ Height' \in Nat /\ RevealTimeout \in Nat
        /\ channel \in [Channel -> ChannelInfo] /\ \A x \in Channel : channel[x].settle \in Nat
        /\ info.settle \in Nat
    BY LoopTyped, RevealAssumption
       DEF TypeInv, LoopInv, LoopTypeOK, Height, ChainTypeOK, ChannelInfo
  <1>1. \A x \in Channel : channel'[x] = IF x = c THEN info ELSE channel[x]
    BY <1>0
  <1>2. ASSUME NEW s \in Int, Over(s) PROVE Over(s)'
    BY <1>0, <1>2 DEF Over
  <1>3. ASSUME NEW x \in Channel, NEW s \in Int, Seen(x, s) PROVE Seen(x, s)'
    BY <1>0, <1>1, <1>2, <1>3 DEF Seen
  <1> QED
    BY <1>3 DEF SeenStays

LEMMA ChainKeepsSeen ==
    ASSUME TypeInv, TypeInv', ClosedInv, ChainStep
    PROVE  (InTime => SeenStays) /\ Height <= Height'
  <1>0. /\ fed \in Int /\ Height \in Nat /\ RevealTimeout \in Nat /\ MaxLag \in Nat
        /\ SettleTimeout \in Nat /\ PunishBlocks \in Nat /\ MaxNonce \in Nat
        /\ ChainTypeOK /\ \A c \in Channel : channel[c] \in ChannelInfo
        /\ \A c \in Channel : channel[c].settle \in Nat
    BY LoopTyped, RevealAssumption, BoundAssumption, ContractAssumption
       DEF TypeInv, ChainTypeOK, ChannelInfo
  <1>1. fed' = fed /\ ChainNext /\ Height - fed <= MaxLag
    BY DEF ChainStep, ServiceUnchanged, feedVars
  <1>2. Height <= Height'
    BY <1>0, <1>1, ChainNextGrows DEF ChainGrows, Height
  \* A transaction that only changes other parts of a channel's record.
  <1>k. ASSUME NEW c \in Channel, NEW info \in ChannelInfo, info.settle = channel[c].settle,
               channel' = [channel EXCEPT ![c] = info]
        PROVE  InTime => SeenStays
    BY <1>1, <1>2, <1>k, ChangedIsSeen
  <1>3. CASE Mine
    BY <1>0, <1>1, <1>2, <1>3, UnchangedKeeps, KeptIsSeen DEF Mine
  <1>4. ASSUME NEW c \in Channel, Deposit(c) PROVE InTime => SeenStays
    <2>1. Opened(Height + 1) \in ChannelInfo /\ channel[c].settle = 0
      BY <1>0, <1>4 DEF Opened, NoProof, ChannelInfo, Deposit, ClosedInv
    <2>2. channel' = [channel EXCEPT ![c] = Opened(Height + 1)]
      BY <1>4 DEF Deposit, Transact
    <2> QED
      BY <1>1, <1>2, <2>1, <2>2, ChangedIsSeen
  <1>5. ASSUME NEW c \in Channel, WithDraw(c) PROVE InTime => SeenStays
    <2> DEFINE info == [channel[c] EXCEPT !.open = Height + 1]
    <2>1. info \in ChannelInfo /\ info.settle = channel[c].settle
      BY <1>0 DEF ChannelInfo
    <2>2. channel' = [channel EXCEPT ![c] = info]
      BY <1>5 DEF WithDraw, Transact
    <2> HIDE DEF info
    <2> QED
      BY <1>k, <2>1, <2>2
  <1>6. ASSUME NEW c \in Channel, CooperativeSettle(c) \/ Settle(c)
        PROVE  InTime => SeenStays
    <2>1. Deleted \in ChannelInfo
      BY DEF Deleted, NoProof, ChannelInfo
    <2>2. channel' = [channel EXCEPT ![c] = Deleted]
      BY <1>6 DEF CooperativeSettle, Settle, Transact
    <2>3. CASE CooperativeSettle(c)
      <3>1. channel[c].settle = 0
        BY <2>3 DEF CooperativeSettle, ClosedInv
      <3> QED
        BY <1>1, <1>2, <2>1, <2>2, <3>1, ChangedIsSeen
    <2>4. CASE Settle(c)
      <3>1. InTime => Over(channel[c].settle)
        BY <1>0, <1>1, <2>4 DEF InTime, Over, Settle
      <3> QED
        BY <1>1, <1>2, <2>1, <2>2, <3>1, ChangedIsSeen
    <2> QED
      BY <1>6, <2>3, <2>4
  <1>7. ASSUME NEW c \in Channel, NEW p \in Participant, NEW n \in 0 .. MaxNonce,
               PrepareSettle(c, p, n)
        PROVE  InTime => SeenStays
    <2> DEFINE b == [channel[c] EXCEPT !.state = 2, !.settle = SettleTimeout + Height + 1]
               info == [channel[c] EXCEPT !.state = 2,
                                          !.settle = SettleTimeout + Height + 1,
                                          !.nonce[Partner(p)] = n]
    <2>1. b \in ChannelInfo /\ info = [b EXCEPT !.nonce[Partner(p)] = n]
      <3>1. SettleTimeout + Height + 1 \in Nat
        BY <1>0
      <3> QED
        BY <1>0, <3>1 DEF ChannelInfo
    <2>2. n \in Nat /\ Partner(p) \in Participant
      BY <1>0, PartyTypes
    <2>3. channel' = [channel EXCEPT ![c] = info] /\ channel[c].settle = 0
      BY <1>7 DEF PrepareSettle, Transact, ClosedInv
    <2> HIDE DEF b, info
    <2>4. info \in ChannelInfo
      BY <2>1, <2>2, NonceTypes
    <2> QED
      BY <1>1, <1>2, <2>3, <2>4, ChangedIsSeen
  <1>8. ASSUME NEW c \in Channel, NEW p \in Participant, NEW n \in 1 .. MaxNonce,
               UpdateBalanceProof(c, p, n)
        PROVE  InTime => SeenStays
    <2> DEFINE info == [channel[c] EXCEPT !.nonce[Partner(p)] = n]
    <2>1. n \in Nat /\ Partner(p) \in Participant
      BY <1>0, PartyTypes
    <2>2. info \in ChannelInfo
      BY <1>0, <2>1, NonceTypes
    <2>3. info.settle = channel[c].settle
      BY <1>0 DEF ChannelInfo
    <2>4. channel' = [channel EXCEPT ![c] = info]
      BY <1>8 DEF UpdateBalanceProof, Transact
    <2> HIDE DEF info
    <2> QED
      BY <1>k, <2>2, <2>3, <2>4
  <1> QED
    BY <1>1, <1>2, <1>3, <1>4, <1>5, <1>6, <1>7, <1>8 DEF ChainNext

-----------------------------------------------------------------------------
(* What steps have in common.                                              *)

LEMMA AddedMonitors ==
    ASSUME NEW table \in Seq(Monitor), NEW d \in Delegate, NEW h \in Nat, NEW new,
           \/ new = table \/ new = AddUpdateMonitor(table, d, h)
           \/ new = AddDelegateMonitor(table, d, h) \/ new = FirstMonitor(table, d, h)
    PROVE  /\ \A i \in DOMAIN table : i \in DOMAIN new /\ new[i] = table[i]
           /\ \A i \in DOMAIN new :
                 \/ i \in DOMAIN table
                 \/ new[i].key = d.key /\ (new[i].type = "update" =>
                                              new[i].block = d.settle - RevealTimeout)
  <1> DEFINE at(type, n) == [key |-> d.key, type |-> type, block |-> n,
                             gen |-> d.gen, due |-> n > h]
             m1 == at("update", d.settle - RevealTimeout)
             m2 == at("punish", d.settle)
             both == << m1, m2 >>
             added == AddDelegateMonitor(table, d, h)
  <1>1. d.settle \in Int /\ d.settle - RevealTimeout \in Int
    BY RevealAssumption DEF Delegate
  <1>2. \A type \in MonitorType, n \in Int : at(type, n) \in Monitor
    BY DEF Monitor, Delegate
  <1>3. m1 \in Monitor /\ m2 \in Monitor
    BY <1>1, <1>2 DEF MonitorType
  <1>4. /\ m1.key = d.key /\ m1.block = d.settle - RevealTimeout
        /\ m2.key = d.key /\ m2.type = "punish"
    OBVIOUS
  <1>5. added = table \o both
    BY DEF AddDelegateMonitor
  <1>6. new = added \/ new = table \/ new = AddUpdateMonitor(table, d, h)
    BY DEF FirstMonitor
  <1> HIDE DEF m1, m2, added
  <1>7. both \in Seq(Monitor) /\ Len(both) = 2 /\ both[1] = m1 /\ both[2] = m2
    BY <1>3
  <1> HIDE DEF both
  <1>8. Len(table) \in Nat /\ DOMAIN table = 1 .. Len(table)
    BY LenProperties
  <1>9. /\ added \in Seq(Monitor) /\ Len(added) = Len(table) + 2
        /\ \A i \in 1 .. Len(table) + 2 :
              added[i] = IF i <= Len(table) THEN table[i] ELSE both[i - Len(table)]
    <2>1. /\ table \o both \in Seq(Monitor)
          /\ Len(table \o both) = Len(table) + Len(both)
          /\ \A i \in 1 .. Len(table) + Len(both) :
                (table \o both)[i] = IF i <= Len(table) THEN table[i] ELSE both[i - Len(table)]
      BY <1>7, ConcatProperties
    <2> QED
      BY <1>5, <1>7, <2>1
  <1>10. DOMAIN added = 1 .. Len(table) + 2
    BY <1>9, LenProperties
  <1>11. \A i \in DOMAIN table : i \in DOMAIN added /\ added[i] = table[i]
    BY <1>8, <1>9, <1>10
  <1>12. ASSUME NEW i \in DOMAIN added, i \notin DOMAIN table
         PROVE  added[i] = m1 \/ added[i] = m2
    <2>1. ~(i <= Len(table)) /\ (i - Len(table) = 1 \/ i - Len(table) = 2)
      BY <1>8, <1>10, <1>12
    <2> QED
      BY <1>7, <1>9, <1>10, <1>12, <2>1
  <1>13. AddUpdateMonitor(table, d, h) = Append(table, m1)
    <2>1. added[Len(table) + 1] = m1
      BY <1>7, <1>8, <1>9
    <2>2. AddUpdateMonitor(table, d, h) = Append(table, added[Len(table) + 1])
      BY DEF AddUpdateMonitor, added
    <2> QED
      BY <2>1, <2>2
  <1>14. CASE new = Append(table, m1)
    <2>1. /\ new \in Seq(Monitor) /\ Len(new) = Len(table) + 1
          /\ \A j \in 1 .. Len(table) : new[j] = table[j]
          /\ new[Len(table) + 1] = m1
      BY <1>3, <1>14, AppendProperties
    <2>2. DOMAIN new = 1 .. Len(table) + 1
      BY <2>1, LenProperties
    <2>3. \A i \in DOMAIN new : i \in DOMAIN table \/ i = Len(table) + 1
      BY <1>8, <2>2
    <2>4. \A i \in DOMAIN table : i \in DOMAIN new /\ new[i] = table[i]
      BY <1>8, <2>1, <2>2
    <2> QED
      BY <1>4, <2>1, <2>3, <2>4
  <1> QED
    BY <1>4, <1>6, <1>11, <1>12, <1>13, <1>14

\* Everything a step writes was seen.
LEMMA WritesSeen ==
    ASSUME TypeInv', crashes' = crashes, InTime => SeenStays,
           InTime => /\ SeenRows(rows') /\ SeenMonitors(monitors') /\ SeenTasks(tasks')
                     /\ SeenCopies(dsTodo') /\ SeenCopies({cur'}) /\ SeenCopies(inflight')
    PROVE  SettlesInv'
  <1> SUFFICES ASSUME InTime
               PROVE  /\ SeenRows(rows)' /\ SeenMonitors(monitors)' /\ SeenTasks(tasks)'
                      /\ SeenCopies(dsTodo)' /\ SeenCopies({cur})' /\ SeenCopies(inflight)'
    BY DEF SettlesInv, InTime
  <1>0. \A c \in Channel, s \in Int : Seen(c, s) => Seen(c, s)'
    BY DEF SeenStays
  <1>1. SeenRows(rows)'
    <2>1. rows' \in [Key -> Delegate]
      BY DEF TypeInv, DbTypeOK
    <2>2. \A k \in Key : k.channel \in Channel /\ rows'[k].settle \in Int
      BY <2>1, KeyTypes DEF Delegate
    <2> QED
      BY <1>0, <2>2 DEF SeenRows
  <1>2. SeenMonitors(monitors)'
    <2>1. monitors' \in Seq(Monitor)
      BY DEF TypeInv, DbTypeOK
    <2>2. ASSUME NEW i \in DOMAIN monitors'
          PROVE  monitors'[i].key.channel \in Channel
                 /\ monitors'[i].block + RevealTimeout \in Int
      <3>1. monitors'[i] \in Monitor
        BY <2>1, ElementOfSeq, LenProperties
      <3> QED
        BY <3>1, KeyTypes, RevealAssumption DEF Monitor
    <2> QED
      BY <1>0, <2>2 DEF SeenMonitors
  <1>3. SeenTasks(tasks)'
    <2>1. \A t \in TaskId : tasks'[t].d \in Delegate
      BY DEF TypeInv, TaskTypeOK, Task
    <2>2. \A t \in TaskId : tasks'[t].d.key.channel \in Channel /\ tasks'[t].d.settle \in Int
      BY <2>1, DelegateTypes DEF Delegate
    <2> QED
      BY <1>0, <2>2 DEF SeenTasks
  <1>4. SeenCopies(dsTodo)' /\ SeenCopies({cur})'
    <2>1. dsTodo' \subseteq Delegate /\ cur' \in Delegate
      BY DEF TypeInv, LoopInv, LoopTypeOK
    <2>2. \A d \in Delegate : d.key.channel \in Channel /\ d.settle \in Int
      BY DelegateTypes DEF Delegate
    <2> QED
      BY <1>0, <2>1, <2>2 DEF SeenCopies
  <1>5. SeenCopies(inflight)'
    <2>1. \A r \in inflight' : r \in Request
      BY DEF TypeInv, TaskTypeOK
    <2>2. \A r \in Request : r.key.channel \in Channel /\ r.settle \in Int
      BY KeyTypes DEF Request
    <2> QED
      BY <1>0, <2>1, <2>2 DEF SeenCopies
  <1> QED
    BY <1>1, <1>2, <1>3, <1>4, <1>5

\* The settle blocks the service holds, when TimelyInv is known.
LEMMA HeldAreSeen ==
    ASSUME SettlesInv, InTime
    PROVE  /\ SeenRows(rows) /\ SeenMonitors(monitors) /\ SeenTasks(tasks)
           /\ SeenCopies(dsTodo) /\ SeenCopies({cur}) /\ SeenCopies(inflight)
  BY DEF SettlesInv

\* Goroutines that are about to send an update go on with the row they have.
TasksGoOn ==
    \A t \in TaskId : tasks'[t].pc \in {"ubp", "ubpTx"} =>
        tasks[t].pc \in {"ubp", "ubpTx"} /\ tasks'[t].d = tasks[t].d

\* Steps of others than the loop.
LEMMA OthersKeepTimely ==
    ASSUME TypeInv, TypeInv', HeldInv, TimelyInv, LifeStays, InTime => SeenStays,
           Height <= Height',
           UNCHANGED <<fed, blockNumber, loopVars, crashes>>, TasksGoOn,
           \A i \in DOMAIN monitors : monitors'[i] = monitors[i],
           InTime => /\ SeenRows(rows') /\ SeenMonitors(monitors') /\ SeenTasks(tasks')
                     /\ SeenCopies(inflight')
    PROVE  TimelyInv'
  <1>0. /\ Height \in Nat /\ Height' \in Nat /\ RevealTimeout \in Nat
        /\ cur.settle \in Nat /\ cur.key.channel \in Channel /\ monTodo \subseteq DOMAIN monitors
        /\ UNCHANGED <<pc, goal, monTodo, dsTodo, cur, blockNumber, crashes>>
        /\ SettlesInv /\ PositionInv /\ LaunchInv
    BY LoopTyped, TypedCounts, Typed, KeyTypes, RevealAssumption
       DEF loopVars, TimelyInv, TypeInv, LoopInv, LoopTypeOK, Height
  <1>1. SettlesInv'
    BY <1>0, WritesSeen DEF SettlesInv
  <1>2. PositionInv'
    BY <1>0 DEF PositionInv
  <1>3. ASSUME InTime PROVE StartedOnTime'
    <2> SUFFICES ASSUME pc = "mark", channel'[cur.key.channel].open = cur.open
                 PROVE  /\ channel'[cur.key.channel].state = 2
                        /\ blockNumber = channel'[cur.key.channel].settle - RevealTimeout
      BY <1>0, <1>3 DEF LaunchInv, StartedOnTime
    <2>1. cur.open \in 1 .. Height
      BY <1>0, HeldTyped DEF HeldInv, LivedCur, Lived
    <2> QED
      BY <1>0, <1>3, <2>1 DEF LifeStays, LaunchInv, InTime, StartedOnTime
  <1>4. ASSUME InTime PROVE SentOnTime(tasks)'
    <2> SUFFICES ASSUME NEW t \in TaskId, tasks'[t].pc \in {"ubp", "ubpTx"},
                        channel'[tasks'[t].d.key.channel].open = tasks'[t].d.open
                 PROVE  /\ channel'[tasks'[t].d.key.channel].state = 2
                        /\ channel'[tasks'[t].d.key.channel].settle - RevealTimeout <= Height'
      BY DEF SentOnTime, OnTime
    <2>1. tasks[t].pc \in {"ubp", "ubpTx"} /\ tasks'[t].d = tasks[t].d
      BY DEF TasksGoOn
    <2> DEFINE c == tasks[t].d.key.channel
    <2>2. tasks[t].d.open \in 1 .. Height /\ c \in Channel /\ channel[c].settle \in Nat
      BY <1>0, <2>1, HeldTyped, ChannelTyped DEF HeldInv, LivedTasks, Lived
    <2>3. OnTime(tasks[t].d)
      BY <1>0, <1>4, <2>1 DEF LaunchInv, SentOnTime
    <2> QED
      BY <1>0, <2>1, <2>2, <2>3 DEF LifeStays, OnTime
  <1>5. LaunchInv'
    BY <1>0, <1>3, <1>4 DEF LaunchInv, InTime
  <1> QED
    BY <1>1, <1>2, <1>5 DEF TimelyInv

-----------------------------------------------------------------------------
(* Goroutines and requests.                                                *)

LEMMA TaskGoesOn == ASSUME TypeInv, NEW t \in TaskId, TaskStep(t) PROVE TasksGoOn
  <1>0. tasks \in [TaskId -> Task] /\ tasks[t] \in Task
    BY Typed, TaskTypes
  <1>1. ASSUME NEW task, tasks' = [tasks EXCEPT ![t] = task],
               task.pc \notin {"ubp", "ubpTx"} \/ (tasks[t].pc = "ubp" /\ task.d = tasks[t].d)
        PROVE  TasksGoOn
    <2>1. \A u \in TaskId : tasks'[u] = IF u = t THEN task ELSE tasks[u]
      BY <1>0, <1>1
    <2> QED
      BY <1>1, <2>1 DEF TasksGoOn
  <1>2. ASSUME NEW at, Advance(t, at),
               at \notin {"ubp", "ubpTx"} \/ tasks[t].pc = "ubp"
        PROVE  TasksGoOn
    <2> DEFINE task == [tasks[t] EXCEPT !.pc = at]
    <2>1. tasks' = [tasks EXCEPT ![t] = task] /\ task.pc = at /\ task.d = tasks[t].d
      BY <1>0, <1>2 DEF Advance, Task
    <2> HIDE DEF task
    <2> QED
      BY <1>1, <1>2, <2>1
  <1>3. ASSUME NEW at, Fail(t, at), at \notin {"ubp", "ubpTx"} PROVE TasksGoOn
    <2> DEFINE task == [tasks[t] EXCEPT !.pc = at, !.d.status = "failed"]
    <2>1. tasks' = [tasks EXCEPT ![t] = task] /\ task.pc = at
      BY <1>0, <1>3 DEF Fail, Task
    <2> HIDE DEF task
    <2> QED
      BY <1>1, <1>3, <2>1
  <1>4. ASSUME Finish(t) PROVE TasksGoOn
    BY <1>1, <1>4 DEF Finish, IdleTask
  <1>5. CASE UbpLock(t) \/ UbpTx(t) \/ UbpSave(t)
    BY <1>2, <1>3, <1>5 DEF UbpLock, UbpTx, UbpSave
  <1>6. CASE UnlockLock(t)
    <2> DEFINE das == LocksOf(disposes, tasks[t].d.key)
               task == [tasks[t] EXCEPT !.pc = "unlockTx", !.das = das]
    <2>1. Finish(t) \/ tasks' = [tasks EXCEPT ![t].pc = "unlockTx", ![t].das = das]
      BY <1>6 DEF UnlockLock
    <2>2. Finish(t) \/ tasks' = [tasks EXCEPT ![t] = task]
      BY <1>0, <2>1 DEF Task
    <2>3. task.pc = "unlockTx"
      BY <1>0 DEF Task
    <2> HIDE DEF task
    <2> QED
      BY <1>1, <1>4, <2>2, <2>3
  <1>7. CASE UnlockTx(t)
    <2>1. PICK st : tasks' = [tasks EXCEPT ![t].pc = "unlockSave", ![t].d.status = st]
      BY <1>7 DEF UnlockTx
    <2> DEFINE task == [tasks[t] EXCEPT !.pc = "unlockSave", !.d.status = st]
    <2>2. tasks' = [tasks EXCEPT ![t] = task] /\ task.pc = "unlockSave"
      BY <1>0, <2>1 DEF Task
    <2> HIDE DEF task
    <2> QED
      BY <1>1, <2>2
  <1>8. CASE UnlockSave(t) \/ PunishLock(t) \/ PunishTx(t) \/ PunishSave(t)
    BY <1>2, <1>3, <1>4, <1>8 DEF UnlockSave, PunishLock, PunishTx, PunishSave
  <1> QED
    BY <1>5, <1>6, <1>7, <1>8 DEF TaskStep

LEMMA TaskKeepsTimely ==
    ASSUME TypeInv, TypeInv', StartInv, LivesInv, TimelyInv, NEW t \in TaskId, TaskStep(t)
    PROVE  TimelyInv'
  <1> DEFINE d == tasks[t].d
  <1>0. /\ rows \in [Key -> Delegate] /\ ChainTypeOK /\ d \in Delegate
        /\ d.key.channel \in Channel /\ d.key.delegator \in Participant /\ d.nonce \in Nat
        /\ fed \in Int /\ TaskFrame
    BY Typed, TaskTypes, LoopTyped, TaskRows DEF TypeInv
  <1>1. UNCHANGED <<monitors, fed, blockNumber, loopVars, crashes, inflight>>
    BY <1>0 DEF TaskFrame, feedVars, historyVars
  <1>2. Height <= Height'
    BY TaskGrows DEF ChainGrows, Height
  <1>3. KeepsSettle /\ LifeStays
    <2>1. \/ UNCHANGED chainVars
          \/ UpdateBalanceProofDelegate(d.key.channel, d.key.delegator, d.open, d.nonce)
          \/ UnlockDelegate(d.key.channel, d.key.delegator, d.open)
          \/ PunishObsoleteUnlock(d.key.channel, d.key.delegator, d.open)
      BY DEF TaskStep, UbpLock, UbpTx, UbpSave, UnlockLock, UnlockTx, UnlockSave, PunishLock,
             PunishTx, PunishSave
    <2> HIDE DEF d
    <2> QED
      BY <1>0, <2>1, UnchangedKeeps, ServiceKeepsSettle, SameChainKeepsLives,
         ServiceKeepsLives DEF chainVars, LivesInv
  <1>4. SeenStays
    BY <1>0, <1>1, <1>2, <1>3, KeptIsSeen
  <1>5. ASSUME InTime PROVE SeenTasks(tasks')
    <2>1. SeenTasks(tasks)
      BY <1>5, HeldAreSeen DEF TimelyInv
    <2> QED
      BY <2>1, TaskCopies DEF SeenTasks, Seen
  <1>6. ASSUME InTime PROVE SeenRows(rows')
    <2>0. SeenRows(rows) /\ Seen(d.key.channel, d.settle)
      BY <1>6, HeldAreSeen DEF TimelyInv, SeenTasks
    <2>1. CASE UNCHANGED rows
      BY <2>0, <2>1
    <2>2. ASSUME NEW e \in Delegate, UpdateObject(e), e.key = d.key, e.settle = d.settle
          PROVE  SeenRows(rows')
      <3>1. e.key \in Key /\ rows' = [rows EXCEPT ![e.key] = e]
        BY <2>2, DelegateTypes DEF UpdateObject
      <3>2. \A k \in Key : rows'[k] = IF k = e.key THEN e ELSE rows[k]
        BY <1>0, <3>1
      <3> QED
        BY <2>0, <2>2, <3>2 DEF SeenRows
    <2> QED
      BY <2>1, <2>2, TaskCopies
  <1>7. ASSUME InTime PROVE SeenMonitors(monitors') /\ SeenCopies(inflight')
    BY <1>1, <1>7, HeldAreSeen DEF TimelyInv
  <1> QED
    BY <1>1, <1>2, <1>3, <1>4, <1>5, <1>6, <1>7, TaskGoesOn, OthersKeepTimely DEF LivesInv

LEMMA RequestKeepsTimely ==
    ASSUME TypeInv, TypeInv', LivesInv, TimelyInv,
           \/ \E x \in Delegation : VerifyDelegate(x)
           \/ \E r \in inflight :
                 ReceiveFirst(r) \/ ReceiveAgain(r) \/ ReceiveFails(r) \/ ReceiveHalf(r)
    PROVE  TimelyInv'
  <1>0. /\ rows \in [Key -> Delegate] /\ inflight \subseteq Request /\ ChainTypeOK
        /\ monitors \in Seq(Monitor) /\ gen \in [Key -> Nat] /\ Height \in Nat
        /\ fed \in Int /\ RevealTimeout \in Nat
    BY Typed, LoopTyped, RevealAssumption DEF TypeInv
  <1>1. /\ UNCHANGED <<fed, blockNumber, loopVars, crashes, tasks>>
        /\ UNCHANGED chainVars /\ Height' = Height
    BY DEF VerifyDelegate, ReceiveFirst, ReceiveAgain, ReceiveFails, ReceiveHalf, feedVars,
           historyVars, chainVars, Height
  <1>2. SeenStays /\ LifeStays
    BY <1>0, <1>1, UnchangedKeeps, KeptIsSeen, SameChainKeepsLives DEF LivesInv, chainVars
  <1>3. TasksGoOn
    BY <1>1 DEF TasksGoOn
  <1>k. ASSUME \A i \in DOMAIN monitors : monitors'[i] = monitors[i],
               InTime => /\ SeenRows(rows') /\ SeenMonitors(monitors')
                         /\ SeenCopies(inflight')
        PROVE  TimelyInv'
    <2>1. InTime => SeenTasks(tasks')
      BY <1>1, HeldAreSeen DEF TimelyInv
    <2> QED
      BY <1>0, <1>1, <1>2, <1>3, <1>k, <2>1, OthersKeepTimely DEF LivesInv
  <1>h. ASSUME InTime PROVE SeenRows(rows) /\ SeenMonitors(monitors) /\ SeenCopies(inflight)
    BY <1>h, HeldAreSeen DEF TimelyInv
  \* VerifyDelegate reads the settle block the channel has now.
  <1>4. ASSUME NEW x \in Delegation, VerifyDelegate(x) PROVE TimelyInv'
    <2> DEFINE r == [key |-> x.key, open |-> channel[x.key.channel].open,
                     settle |-> channel[x.key.channel].settle,
                     nonce |-> x.nonce, unlocks |-> x.unlocks,
                     punishes |-> x.punishes, disposes |-> x.disposes]
    <2>1. inflight' = inflight \cup {r} /\ UNCHANGED <<rows, monitors>>
      BY <1>4 DEF VerifyDelegate, dbVars
    <2>2. Seen(r.key.channel, r.settle)
      BY DEF Seen
    <2> HIDE DEF r
    <2>3. InTime => SeenCopies(inflight')
      BY <1>h, <2>1, <2>2 DEF SeenCopies
    <2> QED
      BY <1>h, <1>k, <2>1, <2>3
  <1>5. ASSUME NEW r \in inflight, ReceiveAgain(r) PROVE TimelyInv'
    <2>1. r.key \in Key /\ rows[r.key] \in Delegate
      BY <1>0, RequestTypes
    <2> DEFINE e == Redelegate(rows[r.key], r)
    <2>2. e.settle = rows[r.key].settle
      BY <2>1 DEF Redelegate, Delegate
    <2> HIDE DEF e
    <2>3. /\ rows' = rows \/ rows' = [rows EXCEPT ![r.key] = e]
          /\ UNCHANGED monitors /\ inflight' \subseteq inflight
      BY <1>5 DEF ReceiveAgain, e
    <2>4. \A k \in Key : rows'[k].settle = rows[k].settle
      BY <1>0, <2>1, <2>2, <2>3
    <2>5. InTime => SeenRows(rows') /\ SeenCopies(inflight')
      BY <1>h, <2>3, <2>4 DEF SeenRows, SeenCopies
    <2> QED
      BY <1>h, <1>k, <2>3, <2>5
  <1>6. ASSUME NEW r \in inflight, ReceiveFirst(r) PROVE TimelyInv'
    <2> DEFINE d == FirstDelegate(r, gen[r.key] + 1)
    <2>1. r.key \in Key /\ gen[r.key] \in Nat /\ d \in Delegate
      BY <1>0, RequestTypes
    <2>2. /\ rows' = [rows EXCEPT ![r.key] = d]
          /\ monitors' = FirstMonitor(monitors, d, Height) /\ inflight' \subseteq inflight
      BY <1>6 DEF ReceiveFirst
    <2>3. d.key = r.key /\ d.settle = r.settle /\ d.settle \in Nat
      BY <2>1 DEF FirstDelegate, Delegate
    <2> HIDE DEF d
    <2>4. /\ \A i \in DOMAIN monitors : i \in DOMAIN monitors' /\ monitors'[i] = monitors[i]
          /\ \A i \in DOMAIN monitors' :
                \/ i \in DOMAIN monitors
                \/ monitors'[i].key = d.key /\ (monitors'[i].type = "update" =>
                                          monitors'[i].block = d.settle - RevealTimeout)
      BY <1>0, <2>1, <2>2, AddedMonitors
    <2>5. InTime => Seen(d.key.channel, d.settle)
      BY <1>h, <2>3 DEF SeenCopies
    <2>6. InTime => SeenRows(rows')
      <3>1. \A k \in Key : rows'[k] = IF k = r.key THEN d ELSE rows[k]
        BY <1>0, <2>1, <2>2
      <3> QED
        BY <1>h, <2>3, <2>5, <3>1 DEF SeenRows
    <2>7. InTime => SeenMonitors(monitors')
      <3>1. (d.settle - RevealTimeout) + RevealTimeout = d.settle
        BY <1>0, <2>3
      <3> QED
        BY <1>h, <2>4, <2>5, <3>1 DEF SeenMonitors
    <2>8. InTime => SeenCopies(inflight')
      BY <1>h, <2>2 DEF SeenCopies
    <2> QED
      BY <1>k, <2>4, <2>6, <2>7, <2>8
  <1>7. ASSUME NEW r \in inflight, ReceiveFails(r) \/ ReceiveHalf(r) PROVE TimelyInv'
    <2> DEFINE d == FirstDelegate(r, 0)
    <2>1. r.key \in Key /\ 0 \in Nat /\ d \in Delegate
      BY <1>0, RequestTypes
    <2>2. /\ UNCHANGED rows /\ inflight' \subseteq inflight
          /\ monitors' = monitors \/ monitors' = AddUpdateMonitor(monitors, d, Height)
      BY <1>7 DEF ReceiveFails, ReceiveHalf, dbVars
    <2>3. d.key = r.key /\ d.settle = r.settle /\ d.settle \in Nat
      BY <2>1 DEF FirstDelegate, Delegate
    <2> HIDE DEF d
    <2>4. /\ \A i \in DOMAIN monitors : i \in DOMAIN monitors' /\ monitors'[i] = monitors[i]
          /\ \A i \in DOMAIN monitors' :
                \/ i \in DOMAIN monitors
                \/ monitors'[i].key = d.key /\ (monitors'[i].type = "update" =>
                                          monitors'[i].block = d.settle - RevealTimeout)
      BY <1>0, <2>1, <2>2, AddedMonitors
    <2>5. InTime => Seen(d.key.channel, d.settle)
      BY <1>h, <2>3 DEF SeenCopies
    <2>6. InTime => SeenMonitors(monitors')
      <3>1. (d.settle - RevealTimeout) + RevealTimeout = d.settle
        BY <1>0, <2>3
      <3> QED
        BY <1>h, <2>4, <2>5, <3>1 DEF SeenMonitors
    <2>7. InTime => SeenRows(rows') /\ SeenCopies(inflight')
      BY <1>h, <2>2 DEF SeenCopies
    <2> QED
      BY <1>k, <2>4, <2>6, <2>7
  <1> QED
    BY <1>4, <1>5, <1>6, <1>7

-----------------------------------------------------------------------------
(* Steps of the loop.                                                      *)

LEMMA LoopKeepsTimely ==
    ASSUME TypeInv, TypeInv', TimelyInv, UNCHANGED <<chainVars, crashes, inflight>>,
           crashes = 0 => fed <= fed', PositionInv',
           InTime => /\ SeenRows(rows') /\ SeenMonitors(monitors') /\ SeenTasks(tasks')
                     /\ SeenCopies(dsTodo') /\ SeenCopies({cur'})
                     /\ StartedOnTime' /\ SentOnTime(tasks')
    PROVE  TimelyInv'
  <1>1. KeepsSettle /\ Height' = Height /\ UNCHANGED channel
    BY UnchangedKeeps DEF chainVars, Height
  <1>3. ASSUME InTime PROVE SeenStays
    <2>1. fed <= fed' /\ Height <= Height'
      BY <1>1, <1>3, LoopTyped DEF InTime
    <2> QED
      BY <1>1, <2>1, KeptIsSeen
  <1>4. InTime => SeenCopies(inflight')
    BY HeldAreSeen DEF TimelyInv
  <1>5. SettlesInv'
    BY <1>3, <1>4, WritesSeen
  <1>6. LaunchInv'
    BY <1>1 DEF LaunchInv, InTime, SentOnTime, OnTime
  <1> QED
    BY <1>5, <1>6 DEF TimelyInv

LEMMA SpawnedSeen ==
    ASSUME TypeInv, NEW at, NEW d, Spawn(at, d)
    PROVE  /\ SeenTasks(tasks) /\ Seen(d.key.channel, d.settle) => SeenTasks(tasks')
           /\ SentOnTime(tasks) /\ (at \in {"ubp", "ubpTx"} => OnTime(d)) => SentOnTime(tasks')
  <1> DEFINE free == {t \in TaskId : tasks[t].pc = "free"}
             s == CHOOSE t \in free : TRUE
             task == [pc |-> at, d |-> d, das |-> {}]
  <1>1. s \in TaskId /\ tasks' = [tasks EXCEPT ![s] = task]
    BY DEF Spawn
  <1>2. task.d = d /\ task.pc = at /\ tasks \in [TaskId -> Task]
    BY Typed
  <1> HIDE DEF s, task
  <1>3. \A t \in TaskId : tasks'[t] = IF t = s THEN task ELSE tasks[t]
    BY <1>1, <1>2
  <1>4. SeenTasks(tasks) /\ Seen(d.key.channel, d.settle) => SeenTasks(tasks')
    BY <1>2, <1>3 DEF SeenTasks
  <1>5. SentOnTime(tasks) /\ (at \in {"ubp", "ubpTx"} => OnTime(d)) => SentOnTime(tasks')
    BY <1>2, <1>3 DEF SentOnTime
  <1> QED
    BY <1>4, <1>5

\* The monitors of a block ahead of the feed are of the settle block the channel has:
\* a row that is read for one of them is due now, or its time is over.
LEMMA ReadOnTime ==
    ASSUME TypeInv, StartInv, ClosedInv, TimelyInv, InTime, NEW i \in monTodo,
           ReadMonitored(i)
    PROVE  StartedOnTime'
  <1> DEFINE m == monitors[i]
             k == m.key
             c == k.channel
  <1>0. /\ rows \in [Key -> Delegate] /\ i \in DOMAIN monitors /\ k \in Key /\ c \in Channel
        /\ m.block \in Int /\ fed \in Int /\ blockNumber \in Nat /\ RevealTimeout \in Nat
        /\ rows[k].key = k /\ rows[k].settle \in Nat
    BY Typed, LoopTyped, TypedCounts, KeyTypes, RevealAssumption DEF StartInv, RowsInv
  <1>1. /\ pc = "monitors" /\ m.type = "update" /\ cur' = rows[k] /\ UNCHANGED <<blockNumber, channel>>
    BY DEF ReadMonitored, chainVars, feedVars
  <1>2. fed >= 0 /\ blockNumber > fed /\ m.block = blockNumber
    BY <1>1 DEF TimelyInv, PositionInv, InTime
  <1>3. Seen(c, m.block + RevealTimeout) /\ Seen(c, rows[k].settle)
    BY <1>0, <1>1, HeldAreSeen DEF TimelyInv, SeenMonitors, SeenRows
  <1>4. channel[c].settle = blockNumber + RevealTimeout
    BY <1>0, <1>2, <1>3 DEF Seen, Over
  <1>5. rows[k].settle = channel[c].settle \/ rows[k].settle - RevealTimeout <= blockNumber
    BY <1>0, <1>2, <1>3 DEF Seen, Over
  <1>6. /\ blockNumber >= rows[k].settle - RevealTimeout
        /\ blockNumber = channel[c].settle - RevealTimeout /\ channel[c].settle # 0
    BY <1>0, <1>2, <1>4, <1>5
  <1>7. channel[c].state = 2
    BY <1>0, <1>6 DEF ClosedInv
  <1> QED
    BY <1>0, <1>1, <1>6, <1>7 DEF StartedOnTime

LEMMA BlockKeepsTimely ==
    ASSUME TypeInv, TypeInv', StartInv, FeedInv, ClosedInv, TimelyInv,
           \/ ReceiveBlock \/ HandleSkipped \/ MarkRunning \/ MarkFails
           \/ BlockDone \/ HandleBlockFails
           \/ \E i \in monTodo : SkipMonitor(i) \/ SpawnMonitor(i) \/ ReadMonitored(i)
    PROVE  TimelyInv'
  <1>0. /\ rows \in [Key -> Delegate] /\ fed \in Int /\ goal \in Nat /\ Height \in Nat
        /\ blockNumber \in Nat /\ blockNumber <= Height /\ RevealTimeout \in Nat
        /\ \A i \in monTodo : i \in DOMAIN monitors /\ monitors[i].key \in Key
        /\ \A k \in Key : rows[k].key = k /\ rows[k] \in Delegate
        /\ cur \in Delegate /\ cur.key \in Key /\ cur.settle \in Nat
        /\ PositionInv /\ LaunchInv
    BY Typed, LoopTyped, TypedCounts, DelegateTypes, RevealAssumption
       DEF StartInv, RowsInv, TimelyInv
  <1>u. UNCHANGED <<chainVars, monitors, dsTodo, crashes, inflight>>
    BY DEF ReceiveBlock, HandleSkipped, HandleBlock, MarkRunning, MarkFails, BlockDone,
           HandleBlockFails, SkipMonitor, SpawnMonitor, ReadMonitored, dbVars, historyVars
  <1>h. ASSUME InTime
        PROVE  /\ SeenRows(rows) /\ SeenTasks(tasks) /\ SeenCopies({cur}) /\ SentOnTime(tasks)
               /\ SeenMonitors(monitors') /\ SeenCopies(dsTodo')
    BY <1>0, <1>u, <1>h, HeldAreSeen DEF TimelyInv, LaunchInv, SentOnTime
  <1>k. ASSUME crashes = 0 => fed <= fed', PositionInv',
               InTime => /\ SeenRows(rows') /\ SeenTasks(tasks') /\ SeenCopies({cur'})
                         /\ StartedOnTime' /\ SentOnTime(tasks')
        PROVE  TimelyInv'
    BY <1>h, <1>k, <1>u, LoopKeepsTimely
  <1>b. ASSUME NEW n \in Nat, HandleBlock(n), crashes = 0 => n > fed /\ n # 0
        PROVE  TimelyInv'
    <2>1. /\ blockNumber' = n /\ monTodo' = GetDelegateMonitorList(monitors, n)
          /\ pc' = "monitors" /\ UNCHANGED <<rows, fed, cur, tasks>>
      BY <1>b DEF HandleBlock, dbVars
    <2>2. PositionInv'
      BY <1>0, <1>b, <1>u, <2>1 DEF PositionInv, GetDelegateMonitorList
    <2>3. StartedOnTime'
      BY <2>1 DEF StartedOnTime
    <2> QED
      BY <1>0, <1>h, <1>k, <2>1, <2>2, <2>3
  <1>1. CASE ReceiveBlock
    <2>1. PICK n \in 0 .. Height : NextNotified(n) /\ HandleBlock(FirstToHandle(n))
      BY <1>1 DEF ReceiveBlock
    <2>2. FirstToHandle(n) \in Nat /\ (FirstToHandle(n) = n \/ FirstToHandle(n) = blockNumber + 1)
      BY <1>0 DEF FirstToHandle
    <2>3. ASSUME crashes = 0 PROVE fed = blockNumber /\ fed < n
      BY <1>0, <1>1, <2>1, <2>3 DEF PositionInv, FeedInv, NextNotified, ReceiveBlock
    <2>4. crashes = 0 => FirstToHandle(n) > fed /\ FirstToHandle(n) # 0
      BY <1>0, <2>2, <2>3
    <2> QED
      BY <1>b, <2>1, <2>2, <2>4
  <1>2. CASE HandleSkipped
    <2>1. pc = "skipped" /\ HandleBlock(blockNumber + 1)
      BY <1>2 DEF HandleSkipped
    <2>2. blockNumber + 1 \in Nat /\ (crashes = 0 => blockNumber + 1 > fed /\ blockNumber + 1 # 0)
      BY <1>0, <2>1 DEF PositionInv
    <2> QED
      BY <1>b, <2>1, <2>2
  <1>3. ASSUME NEW i \in monTodo, SkipMonitor(i) \/ SpawnMonitor(i) PROVE TimelyInv'
    <2>1. /\ pc = "monitors" /\ pc' = pc /\ monTodo' = monTodo \ {i}
          /\ UNCHANGED <<rows, fed, cur, blockNumber>>
      BY <1>3 DEF SkipMonitor, SpawnMonitor, dbVars, feedVars
    <2>2. PositionInv' /\ StartedOnTime'
      BY <1>0, <1>u, <2>1 DEF PositionInv, StartedOnTime
    <2>3. UNCHANGED tasks \/ \E at \in {"punish", "unlock"} : Spawn(at, rows[monitors[i].key])
      BY <1>3 DEF SkipMonitor, SpawnMonitor
    <2>4. ASSUME InTime PROVE SeenTasks(tasks') /\ SentOnTime(tasks')
      <3>1. Seen(rows[monitors[i].key].key.channel, rows[monitors[i].key].settle)
        BY <1>0, <1>h, <2>4 DEF SeenRows
      <3> QED
        BY <1>h, <2>3, <2>4, <3>1, SpawnedSeen
    <2> QED
      BY <1>0, <1>h, <1>k, <2>1, <2>2, <2>4
  <1>4. ASSUME NEW i \in monTodo, ReadMonitored(i) PROVE TimelyInv'
    <2>1. /\ pc = "monitors" /\ pc' = "mark" /\ monTodo' = monTodo \ {i}
          /\ cur' = rows[monitors[i].key] /\ UNCHANGED <<rows, fed, tasks, blockNumber>>
      BY <1>4 DEF ReadMonitored, dbVars, feedVars
    <2>2. PositionInv'
      BY <1>0, <1>u, <2>1 DEF PositionInv
    <2>3. InTime => StartedOnTime'
      BY <1>4, ReadOnTime
    <2>4. InTime => SeenCopies({cur'})
      BY <1>0, <1>h, <2>1 DEF SeenRows, SeenCopies
    <2> QED
      BY <1>0, <1>h, <1>k, <2>1, <2>2, <2>3, <2>4
  <1>5. CASE MarkRunning
    <2> DEFINE d == [cur EXCEPT !.status = "running"]
    <2>1. /\ pc = "mark" /\ pc' = "monitors" /\ Spawn("ubp", d)
          /\ rows' = UpdateDelegateStatus(rows, cur.key, "running")
          /\ cur' = NoDelegate(SomeKey) /\ UNCHANGED <<fed, blockNumber, monTodo>>
      BY <1>5 DEF MarkRunning, feedVars
    <2>2. d.key = cur.key /\ d.settle = cur.settle /\ d.open = cur.open
      BY <1>0 DEF Delegate
    <2> HIDE DEF d
    <2>3. PositionInv' /\ StartedOnTime'
      BY <1>0, <1>u, <2>1 DEF PositionInv, StartedOnTime
    <2>4. \A k \in Key : rows'[k].settle = rows[k].settle
      <3>1. rows[cur.key] \in Delegate
        BY <1>0
      <3> QED
        BY <1>0, <2>1, <3>1 DEF UpdateDelegateStatus, Delegate
    <2>5. ASSUME InTime
          PROVE  SeenRows(rows') /\ SeenCopies({cur'}) /\ SeenTasks(tasks') /\ SentOnTime(tasks')
      <3>1. SeenRows(rows')
        BY <1>h, <2>4, <2>5 DEF SeenRows
      <3>2. SeenCopies({cur'})
        BY <2>1 DEF SeenCopies, Seen, NoDelegate
      <3>3. Seen(d.key.channel, d.settle)
        BY <1>h, <2>2, <2>5 DEF SeenCopies
      <3>4. OnTime(d)
        <4> DEFINE info == channel[cur.key.channel]
        <4>1. info.open = cur.open =>
                  info.state = 2 /\ blockNumber = info.settle - RevealTimeout
          BY <1>0, <2>1, <2>5 DEF LaunchInv, StartedOnTime, InTime
        <4> QED
          BY <1>0, <2>2, <4>1 DEF OnTime
      <3> QED
        BY <1>h, <2>1, <2>5, <3>1, <3>2, <3>3, <3>4, SpawnedSeen
    <2> QED
      BY <1>0, <1>k, <2>1, <2>3, <2>5
  <1>6. CASE BlockDone \/ HandleBlockFails
    <2>1. /\ pc = "monitors" /\ pc' \in {"skipped", "idle", "event"}
          /\ pc' = "skipped" => fed' = fed
          /\ fed' = fed \/ fed' = goal
          /\ UNCHANGED <<rows, blockNumber, cur, tasks>>
      BY <1>6 DEF BlockDone, HandleBlockFails, LeaveBlock, dbVars
    <2>2. crashes = 0 => fed <= fed' /\ fed' >= 0
      BY <1>0, <2>1 DEF PositionInv, FeedInv
    <2>3. PositionInv' /\ StartedOnTime'
      BY <1>0, <1>u, <2>1, <2>2 DEF PositionInv, StartedOnTime
    <2> QED
      BY <1>h, <1>k, <2>1, <2>2, <2>3
  <1>7. CASE MarkFails
    <2>1. /\ pc = "mark" /\ pc' = "monitors" /\ cur' = NoDelegate(SomeKey)
          /\ UNCHANGED <<rows, fed, blockNumber, tasks, monTodo>>
      BY <1>7 DEF MarkFails, dbVars, feedVars
    <2>2. PositionInv' /\ StartedOnTime'
      BY <1>0, <1>u, <2>1 DEF PositionInv, StartedOnTime
    <2>3. SeenCopies({cur'})
      BY <2>1 DEF SeenCopies, Seen, NoDelegate
    <2> QED
      BY <1>0, <1>h, <1>k, <2>1, <2>2, <2>3
  <1> QED
    BY <1>1, <1>2, <1>3, <1>4, <1>5, <1>6, <1>7

LEMMA EventKeepsTimely ==
    ASSUME TypeInv, TypeInv', StartInv, EventInv, TimelyInv,
           \/ HandleClosed \/ ReadSettleBlock \/ HandlerFails \/ AddClosedMonitor
           \/ \E d \in dsTodo : SaveClosed(d) \/ DeleteDelegate(d) \/ DeleteFails(d)
           \/ HandleBalanceProofUpdated \/ SaveByOther
           \/ HandleSettledOrWithdraw \/ IgnoreEvent
    PROVE  TimelyInv'
  <1>0. /\ rows \in [Key -> Delegate] /\ fed \in Int /\ Height \in Nat /\ RevealTimeout \in Nat
        /\ monitors \in Seq(Monitor) /\ dsTodo \subseteq Delegate
        /\ \A k \in Key : rows[k].key = k /\ rows[k] \in Delegate
        /\ cur \in Delegate /\ cur.key \in Key /\ cur.settle \in Nat
        /\ PositionInv /\ LaunchInv
    BY Typed, LoopTyped, TypedCounts, DelegateTypes, RevealAssumption
       DEF StartInv, RowsInv, TimelyInv
  <1>u. /\ pc' \in {"idle", "rpc", "save", "addMonitor", "byOther", "delete"}
        /\ UNCHANGED <<chainVars, fed, tasks, crashes, inflight>>
    <2>1. UNCHANGED <<chainVars, fed, tasks, crashes, inflight>>
      BY DEF HandleClosed, ReadSettleBlock, HandlerFails, AddClosedMonitor, SaveClosed,
             DeleteDelegate, DeleteFails, HandleBalanceProofUpdated, SaveByOther,
             HandleSettledOrWithdraw, IgnoreEvent, feedVars, historyVars
    <2>2. pc' \in {"idle", "rpc", "save", "addMonitor", "byOther", "delete"}
      BY DEF HandleClosed, ReadSettleBlock, HandlerFails, AddClosedMonitor, SaveClosed,
             DeleteDelegate, DeleteFails, HandleBalanceProofUpdated, SaveByOther,
             HandleSettledOrWithdraw, IgnoreEvent
    <2> QED
      BY <2>1, <2>2
  <1>h. ASSUME InTime
        PROVE  /\ SeenRows(rows) /\ SeenMonitors(monitors) /\ SeenCopies(dsTodo)
               /\ SeenCopies({cur}) /\ SeenTasks(tasks') /\ SentOnTime(tasks')
    BY <1>0, <1>u, <1>h, HeldAreSeen DEF TimelyInv, LaunchInv, SentOnTime
  <1>k. ASSUME InTime => /\ SeenRows(rows') /\ SeenMonitors(monitors')
                         /\ SeenCopies(dsTodo') /\ SeenCopies({cur'})
        PROVE  TimelyInv'
    <2>1. PositionInv' /\ StartedOnTime'
      BY <1>0, <1>u DEF PositionInv, StartedOnTime
    <2> QED
      BY <1>0, <1>h, <1>k, <1>u, <2>1, LoopKeepsTimely
  \* A row that is read, a row that is saved, a copy that is dropped.
  <1>r. ASSUME NEW k \in Key, InTime PROVE SeenCopies({rows[k]})
    BY <1>0, <1>h, <1>r DEF SeenRows, SeenCopies
  <1>s. ASSUME NEW e \in Delegate, rows' = [rows EXCEPT ![e.key] = e], InTime,
               Seen(e.key.channel, e.settle)
        PROVE  SeenRows(rows')
    <2>1. \A k \in Key : rows'[k] = IF k = e.key THEN e ELSE rows[k]
      BY <1>0, <1>s, DelegateTypes
    <2> QED
      BY <1>h, <1>s, <2>1 DEF SeenRows
  <1>n. SeenCopies({NoDelegate(SomeKey)})
    BY DEF SeenCopies, Seen, NoDelegate
  <1>1. CASE HandleClosed \/ HandleSettledOrWithdraw
    <2>1. UNCHANGED <<rows, monitors, cur>> /\ dsTodo' = EventDelegates
      BY <1>1 DEF HandleClosed, HandleSettledOrWithdraw, dbVars
    <2>2. \A e \in EventDelegates : \E k \in Key : e = rows[k]
      BY DEF EventDelegates, GetDelegateListByChannelIdentifier
    <2>3. InTime => SeenCopies(dsTodo')
      BY <1>r, <2>1, <2>2 DEF SeenCopies
    <2> QED
      BY <1>h, <1>k, <2>1, <2>3
  \* The settle block the channel has now; the copies are of the event's channel.
  <1>2. CASE ReadSettleBlock
    <2> DEFINE n == channel[blocks[goal].channel].settle
    <2>1. /\ pc = "rpc" /\ UNCHANGED <<rows, monitors, cur>>
          /\ dsTodo' = {WithSettleBlock(d, n) : d \in dsTodo}
      BY <1>2 DEF ReadSettleBlock, dbVars
    <2>2. \A d \in dsTodo : d.key.channel = blocks[goal].channel
      BY <2>1 DEF EventInv
    <2>3. ASSUME NEW d \in dsTodo
          PROVE  WithSettleBlock(d, n).key = d.key /\ WithSettleBlock(d, n).settle = n
      BY <1>0 DEF WithSettleBlock, Delegate
    <2>4. \A d \in dsTodo : Seen(d.key.channel, n)
      BY <2>2 DEF Seen
    <2> HIDE DEF n
    <2>5. SeenCopies(dsTodo')
      BY <2>1, <2>3, <2>4 DEF SeenCopies
    <2> QED
      BY <1>h, <1>k, <2>1, <2>5
  <1>3. CASE HandlerFails \/ IgnoreEvent
    <2>1. UNCHANGED <<rows, monitors, cur>> /\ dsTodo' \subseteq dsTodo
      BY <1>3 DEF HandlerFails, IgnoreEvent, dbVars
    <2>2. InTime => SeenCopies(dsTodo')
      BY <1>h, <2>1 DEF SeenCopies
    <2> QED
      BY <1>h, <1>k, <2>1, <2>2
  <1>4. CASE HandleBalanceProofUpdated
    <2> DEFINE k == [channel |-> blocks[goal].channel, delegator |-> blocks[goal].participant]
    <2>1. /\ pc = "event" /\ blocks[goal].type = "update"
          /\ cur' = cur \/ cur' = rows[k]
          /\ UNCHANGED <<rows, monitors, dsTodo>>
      BY <1>4 DEF HandleBalanceProofUpdated, dbVars
    <2>2. k \in Key
      <3>1. EventAt(goal) /\ goal \in Nat /\ goal <= Height
        BY <2>1, TypedCounts DEF EventInv
      <3>2. blocks \in Seq(Event \cup {EmptyBlock}) /\ goal \in 1 .. Len(blocks)
        BY <1>0, <3>1 DEF TypeInv, ChainTypeOK, Height, EventAt
      <3>3. blocks[goal] \in Event \cup {EmptyBlock}
        BY <3>2, ElementOfSeq
      <3>4. blocks[goal] \in Event
        BY <2>1, <3>3 DEF EmptyBlock
      <3> QED
        BY <3>4 DEF Event, Key
    <2> HIDE DEF k
    <2>3. InTime => SeenCopies({cur'})
      BY <1>h, <1>r, <2>1, <2>2
    <2> QED
      BY <1>h, <1>k, <2>1, <2>3
  <1>5. ASSUME NEW d \in dsTodo, SaveClosed(d) PROVE TimelyInv'
    <2>1. /\ rows' = [rows EXCEPT ![d.key] = d] /\ cur' = d /\ dsTodo' \subseteq dsTodo
          /\ UNCHANGED monitors
      BY <1>5 DEF SaveClosed, UpdateObject
    <2>2. InTime => Seen(d.key.channel, d.settle)
      BY <1>h DEF SeenCopies
    <2>3. InTime => SeenRows(rows')
      BY <1>0, <1>s, <2>1, <2>2
    <2>4. InTime => SeenCopies(dsTodo') /\ SeenCopies({cur'})
      BY <1>h, <2>1, <2>2 DEF SeenCopies
    <2> QED
      BY <1>h, <1>k, <2>1, <2>3, <2>4
  <1>6. CASE AddClosedMonitor
    <2>1. /\ monitors' = AddDelegateMonitor(monitors, cur, Height)
          /\ cur' = NoDelegate(SomeKey) /\ UNCHANGED <<rows, dsTodo>>
      BY <1>6 DEF AddClosedMonitor
    <2>2. /\ \A i \in DOMAIN monitors : i \in DOMAIN monitors' /\ monitors'[i] = monitors[i]
          /\ \A i \in DOMAIN monitors' :
                \/ i \in DOMAIN monitors
                \/ monitors'[i].key = cur.key /\ (monitors'[i].type = "update" =>
                                          monitors'[i].block = cur.settle - RevealTimeout)
      BY <1>0, <2>1, AddedMonitors
    <2>3. (cur.settle - RevealTimeout) + RevealTimeout = cur.settle
      BY <1>0
    <2>4. InTime => Seen(cur.key.channel, cur.settle)
      BY <1>h DEF SeenCopies
    <2>5. InTime => SeenMonitors(monitors')
      BY <1>h, <2>2, <2>3, <2>4 DEF SeenMonitors
    <2> QED
      BY <1>h, <1>k, <1>n, <2>1, <2>5
  <1>7. CASE SaveByOther
    <2> DEFINE d == [cur EXCEPT !.status = "byOther"]
    <2>1. /\ rows' = [rows EXCEPT ![d.key] = d] /\ cur' = NoDelegate(SomeKey)
          /\ UNCHANGED <<monitors, dsTodo>>
      BY <1>7 DEF SaveByOther, UpdateObject
    <2>2. d \in Delegate /\ d.key = cur.key /\ d.settle = cur.settle
      <3>1. d \in Delegate
        BY <1>0, DelegateTypes DEF Status
      <3> QED
        BY <1>0, <3>1 DEF Delegate
    <2> HIDE DEF d
    <2>3. InTime => Seen(d.key.channel, d.settle)
      BY <1>h, <2>2 DEF SeenCopies
    <2>4. InTime => SeenRows(rows')
      BY <1>s, <2>1, <2>2, <2>3
    <2> QED
      BY <1>h, <1>k, <1>n, <2>1, <2>4
  <1>8. ASSUME NEW d \in dsTodo, DeleteDelegate(d) \/ DeleteFails(d) PROVE TimelyInv'
    <2> DEFINE e == NoDelegate(d.key)
    <2>1. /\ rows' = rows \/ rows' = [rows EXCEPT ![d.key] = e]
          /\ dsTodo' \subseteq dsTodo /\ UNCHANGED <<monitors, cur>>
      BY <1>8 DEF DeleteDelegate, DeleteFails
    <2>2. e \in Delegate /\ e.key = d.key /\ e.settle = 0
      <3>1. d.key \in Key
        BY <1>0, DelegateTypes
      <3>2. e \in Delegate
        BY <3>1, KeyTypes
      <3> QED
        BY <3>2 DEF NoDelegate
    <2> HIDE DEF e
    <2>3. InTime => SeenRows(rows')
      BY <1>h, <1>s, <2>1, <2>2 DEF Seen
    <2>4. InTime => SeenCopies(dsTodo')
      BY <1>h, <2>1 DEF SeenCopies
    <2> QED
      BY <1>h, <1>k, <2>1, <2>3, <2>4
  <1> QED
    BY <1>1, <1>2, <1>3, <1>4, <1>5, <1>6, <1>7, <1>8

-----------------------------------------------------------------------------
LEMMA InitTimely == Init => TimelyInv
  <1> SUFFICES ASSUME Init PROVE TimelyInv
    OBVIOUS
  <1>1. SettlesInv
    <2>1. SeenRows(rows)
      BY DEF Init, NoDelegate, SeenRows, Seen
    <2>2. SeenTasks(tasks)
      BY DEF Init, IdleTask, NoDelegate, SeenTasks, Seen
    <2>3. SeenMonitors(monitors) /\ SeenCopies(dsTodo) /\ SeenCopies(inflight)
      BY DEF Init, SeenMonitors, SeenCopies
    <2>4. SeenCopies({cur})
      BY DEF Init, NoDelegate, SeenCopies, Seen
    <2> QED
      BY <2>1, <2>2, <2>3, <2>4 DEF SettlesInv
  <1>2. PositionInv
    BY DEF Init, PositionInv
  <1>3. LaunchInv
    BY DEF Init, IdleTask, LaunchInv, StartedOnTime, SentOnTime
  <1> QED
    BY <1>1, <1>2, <1>3 DEF TimelyInv

LEMMA NextTimely ==
    /\ TypeInv /\ TypeInv' /\ StartInv /\ TriggersInv /\ MonitoredInv /\ LivesInv /\ TimelyInv
    /\ [Next]_vars
    => TimelyInv'
  <1> SUFFICES ASSUME TypeInv, TypeInv', StartInv, TriggersInv, MonitoredInv, LivesInv,
                      TimelyInv, [Next]_vars
               PROVE  TimelyInv'
    OBVIOUS
  <1>0. /\ crashes \in Nat /\ fed \in Int /\ Height \in Nat
        /\ FeedInv /\ EventInv /\ ChannelsInv /\ ClosedInv /\ HeldInv
    BY TypedCounts, LoopTyped DEF TriggersInv, MonitoredInv, LivesInv, ChannelsInv
  <1>s. ASSUME LifeStays, InTime => SeenStays, Height <= Height',
               UNCHANGED <<rows, monitors, tasks, inflight, fed, blockNumber, loopVars, crashes>>
        PROVE  TimelyInv'
    <2>1. TasksGoOn
      BY <1>s DEF TasksGoOn
    <2>2. InTime => /\ SeenRows(rows') /\ SeenMonitors(monitors') /\ SeenTasks(tasks')
                    /\ SeenCopies(inflight')
      BY <1>s, HeldAreSeen DEF TimelyInv
    <2> QED
      BY <1>0, <1>s, <2>1, <2>2, OthersKeepTimely
  <1>1. CASE ChainStep
    <2>1. /\ UNCHANGED <<rows, monitors, tasks, inflight, fed, blockNumber, loopVars, crashes>>
          /\ ChainNext
      BY <1>1 DEF ChainStep, ServiceUnchanged, dbVars, feedVars, historyVars
    <2> QED
      BY <1>0, <1>1, <1>s, <2>1, ChainKeepsSeen, ChainKeepsLives
  <1>2. CASE AlarmFails \/ UNCHANGED vars
    <2>1. UNCHANGED <<chainVars, rows, monitors, tasks, inflight, fed, blockNumber, loopVars,
                      crashes>>
      BY <1>2 DEF AlarmFails, vars, dbVars, feedVars, historyVars
    <2>2. Height' = Height /\ UNCHANGED channel
      BY <2>1 DEF Height, chainVars
    <2>3. LifeStays /\ SeenStays
      BY <1>0, <2>1, <2>2, UnchangedKeeps, KeptIsSeen, SameChainKeepsLives
    <2> QED
      BY <1>0, <1>s, <2>1, <2>2, <2>3
  <1>3. CASE LoopStep \/ LoopFails
    BY <1>0, <1>3, BlockKeepsTimely, EventKeepsTimely DEF LoopStep, LoopFails
  <1>4. ASSUME NEW t \in TaskId, TaskStep(t) PROVE TimelyInv'
    BY <1>4, TaskKeepsTimely
  <1>5. CASE \/ \E x \in Delegation : VerifyDelegate(x)
             \/ \E r \in inflight :
                   ReceiveFirst(r) \/ ReceiveAgain(r) \/ ReceiveFails(r) \/ ReceiveHalf(r)
    BY <1>5, RequestKeepsTimely
  <1>6. CASE Crash
    <2>1. crashes' # 0
      BY <1>0, <1>6 DEF Crash
    <2> QED
      BY <2>1 DEF TimelyInv, SettlesInv, PositionInv, LaunchInv, InTime
  <1> QED
    BY <1>1, <1>2, <1>3, <1>4, <1>5, <1>6 DEF Next

LEMMA TimelyIsEnough == TypeInv /\ TimelyInv => StartedOnTime /\ SentInWindow
  <1> SUFFICES ASSUME TypeInv, TimelyInv PROVE StartedOnTime /\ SentInWindow
    OBVIOUS
  <1>1. StartedOnTime
    BY DEF TimelyInv, LaunchInv, InTime, StartedOnTime
  <1>2. SentInWindow
    <2> DEFINE half == SettleTimeout \div 2
    <2>0. half \in Int
      BY ContractAssumption
    <2> HIDE DEF half
    <2> SUFFICES ASSUME NEW t \in TaskId, tasks[t].pc = "ubpTx", crashes = 0,
                        MaxLag <= RevealTimeout, RevealTimeout <= half + 1,
                        channel[tasks[t].d.key.channel].open = tasks[t].d.open
                 PROVE  /\ channel[tasks[t].d.key.channel].state = 2
                        /\ Height + 1 >= channel[tasks[t].d.key.channel].settle - half
      BY DEF SentInWindow, half
    <2> DEFINE c == tasks[t].d.key.channel
    <2>1. channel[c].state = 2 /\ channel[c].settle - RevealTimeout <= Height
      BY DEF TimelyInv, LaunchInv, InTime, SentOnTime, OnTime
    <2>2. channel[c].settle \in Nat /\ Height \in Nat /\ RevealTimeout \in Nat
      BY HeldTyped, ChannelTyped, RevealAssumption
    <2> QED
      BY <2>0, <2>1, <2>2
  <1> QED
    BY <1>1, <1>2

LEMMA SpecTimely == Spec => [](TypeInv /\ TimelyInv)
  <1> QED
    BY SpecTypeInv, InitStart, NextStart, InitTriggers, NextTriggers, InitMonitored,
       NextMonitored, InitLives, NextLives, InitTimely, NextTimely, PTL DEF Spec

\* handleBlockNumber starts an update when it is due: whatever channels are settled and
\* opened again, whatever rows, monitors and requests of an earlier life are left, until
\* a restart and while the feed is not further behind than RevealTimeout, an update is
\* never started before RevealTimeout blocks before the settle block of its row, and an
\* update for the life that lasts is started only when the channel is closed, exactly
\* RevealTimeout blocks before its settle block.
THEOREM UpdatesStartOnTime == Spec => []StartedOnTime
  <1> QED
    BY SpecTimely, TimelyIsEnough, PTL

\* doUpdateBalanceProof sends no update too early: under the same conditions, and if
\* RevealTimeout fits into the second half of the settlement window, the channel is
\* closed and the contract's window for delegated updates has begun when the transaction
\* is sent for the life that lasts.
THEOREM UpdatesAreSentInWindow == Spec => []SentInWindow
  <1> QED
    BY SpecTimely, TimelyIsEnough, PTL
=============================================================================
