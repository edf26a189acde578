------------------------ MODULE ChainEventsTriggers -------------------------
(***************************************************************************)
(* handleBlockNumber misses no trigger but those whose own statements      *)
(* fail, for every chain, every lag of the feed, every number of channels, *)
(* delegations, restarts, failed calls and failed statements.              *)
(*                                                                         *)
(* A monitor belongs to one block.  The invariant follows it: while the    *)
(* block is handled, a monitor of the block is still to be looked at, or   *)
(* the loop is about to start its delegate, or the delegate is not armed;  *)
(* afterwards no row and no copy that may be saved over one is armed.      *)
(* FeedInv says that the loop reaches every block one by one: it needs     *)
(* that the first block of the chain has an event, because the service     *)
(* does not count up from block 0.                                         *)
(***************************************************************************)
EXTENDS ChainEventsProofs

\* A monitor made before its block was mined, which starts an update, and is not
\* given up on a failed statement.
Due(m) ==
    /\ m.type = "update" /\ m.due /\ m.block > 0
    /\ <<m.key, m.block>> \notin dropped

\* No copy of the loop would arm a delegate whose block is past.
CopiesNotMissed ==
    \A i \in DOMAIN monitors, d \in dsTodo :
        /\ Due(monitors[i]) /\ Past(monitors[i].block)
        /\ d.key = monitors[i].key /\ d.gen = monitors[i].gen
        => d.status # "init"

\* The monitors of the block that is being handled.
BlockTriggersInv ==
    pc \in {"monitors", "mark"} =>
        \A i \in DOMAIN monitors :
            LET m == monitors[i]
            IN  /\ Due(m) /\ m.block = blockNumber
                /\ rows[m.key].gen = m.gen /\ rows[m.key].status = "init"
                => i \in monTodo \/ (pc = "mark" /\ cur.key = m.key)

\* A monitor is of a delegation that was made.
MonitorsKnown == \A i \in DOMAIN monitors : monitors[i].gen <= gen[monitors[i].key]

\* Where the loop is relative to the feed; the chain starts with an event.
FeedInv ==
    /\ pc = "idle" => fed = blockNumber \/ (fed = -1 /\ blockNumber = 0)
    /\ pc \notin {"idle", "skipped", "monitors", "mark"} => fed = blockNumber
    /\ pc \in {"monitors", "mark"} => blockNumber <= goal
    /\ Height >= 1 /\ EventAt(1)

TriggersInv ==
    /\ NoMissedTrigger
    /\ CopiesNotMissed
    /\ BlockTriggersInv
    /\ MonitorsKnown
    /\ FeedInv
-----------------------------------------------------------------------------
(* Facts about the state and about monitors.                               *)

LEMMA LoopTyped ==
    ASSUME TypeInv
    PROVE  /\ blockNumber \in Nat /\ goal \in Nat /\ fed \in Int
           /\ Height \in Nat /\ blockNumber <= Height /\ pc \in LoopPc
           /\ \A i \in DOMAIN monitors :
                 /\ monitors[i].block \in Int /\ monitors[i].key \in Key
                 /\ monitors[i].gen \in Nat
  <1>1. Height \in Nat
    BY LenProperties DEF TypeInv, ChainTypeOK, Height
  <1>2. /\ blockNumber \in Nat /\ goal \in Nat /\ fed \in Int
        /\ blockNumber <= Height /\ pc \in LoopPc
    BY <1>1 DEF TypeInv, LoopInv, LoopTypeOK
  <1>3. ASSUME NEW i \in DOMAIN monitors PROVE monitors[i] \in Monitor
    BY Typed, ElementOfSeq, LenProperties
  <1> QED
    BY <1>1, <1>2, <1>3 DEF Monitor

\* The monitor is in the table already, or is a new one of d that is not past.
KeptOrNew(table, i, m, d, h) ==
    \/ i \in DOMAIN table /\ m = table[i]
    \/ m.key = d.key /\ m.gen = d.gen /\ (m.due => m.block > h)

LEMMA MonitorsAdded ==
    ASSUME NEW table \in Seq(Monitor), NEW d \in Delegate, NEW h \in Nat
    PROVE  /\ \A i \in DOMAIN AddDelegateMonitor(table, d, h) :
                 KeptOrNew(table, i, AddDelegateMonitor(table, d, h)[i], d, h)
           /\ \A i \in DOMAIN FirstMonitor(table, d, h) :
                 KeptOrNew(table, i, FirstMonitor(table, d, h)[i], d, h)
           /\ \A i \in DOMAIN AddUpdateMonitor(table, d, h) :
                 KeptOrNew(table, i, AddUpdateMonitor(table, d, h)[i], d, h)
  <1> DEFINE at(type, n) == [key |-> d.key, type |-> type, block |-> n,
                             gen |-> d.gen, due |-> n > h]
             m1 == at("update", d.settle - RevealTimeout)
             m2 == at("punish", d.settle)
             both == << m1, m2 >>
  <1>1. d.settle \in Int /\ d.settle - RevealTimeout \in Int
    BY RevealAssumption DEF Delegate
  <1>2. \A type \in MonitorType, n \in Int : at(type, n) \in Monitor
    BY DEF Monitor, Delegate
  <1>3. m1 \in Monitor /\ m2 \in Monitor
    BY <1>1, <1>2 DEF MonitorType
  <1>4. /\ m1.key = d.key /\ m1.gen = d.gen /\ (m1.due => m1.block > h)
        /\ m2.key = d.key /\ m2.gen = d.gen /\ (m2.due => m2.block > h)
    OBVIOUS
  <1>5. AddDelegateMonitor(table, d, h) = table \o both
    BY DEF AddDelegateMonitor
  <1> HIDE DEF m1, m2
  <1>6. both \in Seq(Monitor) /\ Len(both) = 2 /\ both[1] = m1 /\ both[2] = m2
    BY <1>3
  <1> HIDE DEF both
  <1>7. /\ Len(table) \in Nat /\ DOMAIN table = 1 .. Len(table)
        /\ table \o both \in Seq(Monitor)
        /\ Len(table \o both) = Len(table) + 2
        /\ DOMAIN (table \o both) = 1 .. Len(table \o both)
        /\ \A i \in 1 .. Len(table) + 2 :
              (table \o both)[i] = IF i <= Len(table) THEN table[i] ELSE both[i - Len(table)]
    <2>1. Len(table) \in Nat /\ DOMAIN table = 1 .. Len(table)
      BY LenProperties
    <2>2. /\ table \o both \in Seq(Monitor)
          /\ Len(table \o both) = Len(table) + Len(both)
          /\ \A i \in 1 .. Len(table) + Len(both) :
                (table \o both)[i] = IF i <= Len(table) THEN table[i] ELSE both[i - Len(table)]
      BY <1>6, ConcatProperties
    <2>3. DOMAIN (table \o both) = 1 .. Len(table \o both)
      BY <2>2, LenProperties
    <2> QED
      BY <1>6, <2>1, <2>2, <2>3
  <1>8. ASSUME NEW i \in DOMAIN (table \o both)
        PROVE  KeptOrNew(table, i, (table \o both)[i], d, h)
    <2>1. i \in 1 .. Len(table) + 2
      BY <1>7
    <2>2. CASE i <= Len(table)
      BY <1>7, <2>1, <2>2 DEF KeptOrNew
    <2>3. CASE ~(i <= Len(table))
      <3>1. i - Len(table) = 1 \/ i - Len(table) = 2
        BY <1>7, <2>1, <2>3
      <3>2. (table \o both)[i] = m1 \/ (table \o both)[i] = m2
        BY <1>6, <1>7, <2>1, <2>3, <3>1
      <3> QED
        BY <1>4, <3>2 DEF KeptOrNew
    <2> QED
      BY <2>2, <2>3
  <1>9. \A i \in DOMAIN AddDelegateMonitor(table, d, h) :
           KeptOrNew(table, i, AddDelegateMonitor(table, d, h)[i], d, h)
    BY <1>5, <1>8
  <1>10. ASSUME NEW i \in DOMAIN FirstMonitor(table, d, h)
         PROVE  KeptOrNew(table, i, FirstMonitor(table, d, h)[i], d, h)
    <2>1. FirstMonitor(table, d, h) \in {table, AddDelegateMonitor(table, d, h)}
      BY DEF FirstMonitor
    <2> QED
      BY <1>9, <2>1 DEF KeptOrNew
  <1>11. ASSUME NEW i \in DOMAIN AddUpdateMonitor(table, d, h)
         PROVE  KeptOrNew(table, i, AddUpdateMonitor(table, d, h)[i], d, h)
    <2>1. AddUpdateMonitor(table, d, h) = Append(table, m1)
      <3>1. (table \o both)[Len(table) + 1] = m1
        BY <1>6, <1>7
      <3> QED
        BY <1>5, <3>1 DEF AddUpdateMonitor
    <2>2. /\ Append(table, m1) \in Seq(Monitor)
          /\ Len(Append(table, m1)) = Len(table) + 1
          /\ \A j \in 1 .. Len(table) : Append(table, m1)[j] = table[j]
          /\ Append(table, m1)[Len(table) + 1] = m1
      BY <1>3, AppendProperties
    <2>3. i \in 1 .. Len(table) + 1
      BY <2>1, <2>2, LenProperties
    <2>4. CASE i \in 1 .. Len(table)
      BY <1>7, <2>1, <2>2, <2>4 DEF KeptOrNew
    <2>5. CASE i = Len(table) + 1
      BY <1>4, <2>1, <2>2, <2>5 DEF KeptOrNew
    <2> QED
      BY <1>7, <2>3, <2>4, <2>5
  <1> QED
    BY <1>9, <1>10, <1>11

\* The chain only grows, whoever sends the transaction.
LEMMA TaskGrows ==
    ASSUME TypeInv, NEW t \in TaskId, TaskStep(t)
    PROVE  ChainGrows
  <1> DEFINE d == tasks[t].d
  <1>0. /\ d.key.channel \in Channel /\ d.key.delegator \in Participant /\ d.nonce \in Nat
        /\ ChainTypeOK
    BY TaskTypes DEF TypeInv
  <1>1. \/ UNCHANGED chainVars
        \/ UpdateBalanceProofDelegate(d.key.channel, d.key.delegator, d.open, d.nonce)
        \/ UnlockDelegate(d.key.channel, d.key.delegator, d.open)
        \/ PunishObsoleteUnlock(d.key.channel, d.key.delegator, d.open)
    BY DEF TaskStep, UbpLock, UbpTx, UbpSave, UnlockLock, UnlockTx, UnlockSave, PunishLock,
           PunishTx, PunishSave
  <1> QED
    BY <1>0, <1>1, UnchangedGrows, ServiceGrows

LEMMA FirstEventStays ==
    ASSUME ChainGrows, Height >= 1, EventAt(1)
    PROVE  Height' >= 1 /\ EventAt(1)'
  <1>1. 1 \in 1 .. Len(blocks) /\ Len(blocks) \in Nat /\ Len(blocks') \in Nat
        /\ Len(blocks) <= Len(blocks')
    BY DEF ChainGrows, Height
  <1>2. blocks'[1] = blocks[1]
    BY <1>1 DEF ChainGrows
  <1> QED
    BY <1>1, <1>2 DEF EventAt, Height

-----------------------------------------------------------------------------
(* Steps of others than the loop.                                          *)

\* No row is armed that was not armed with the same delegation before.
ArmsNothing ==
    \A k \in Key : rows'[k].status = "init" =>
        rows[k].status = "init" /\ rows'[k].gen = rows[k].gen

LEMMA OthersKeepTriggers ==
    ASSUME TypeInv, TriggersInv, ArmsNothing, ChainGrows,
           UNCHANGED <<fed, blockNumber, loopVars, monitors, gen, dropped>>
    PROVE  TriggersInv'
  <1>0. \A i \in DOMAIN monitors : monitors[i].key \in Key
    BY LoopTyped
  <1>1. NoMissedTrigger'
    BY <1>0 DEF TriggersInv, NoMissedTrigger, Past, ArmsNothing, loopVars
  <1>2. CopiesNotMissed'
    BY DEF TriggersInv, CopiesNotMissed, Due, Past, loopVars
  <1>3. BlockTriggersInv'
    BY <1>0 DEF TriggersInv, BlockTriggersInv, Due, ArmsNothing, loopVars
  <1>4. MonitorsKnown'
    BY DEF TriggersInv, MonitorsKnown
  <1>5. FeedInv'
    BY FirstEventStays DEF TriggersInv, FeedInv, loopVars
  <1> QED
    BY <1>1, <1>2, <1>3, <1>4, <1>5 DEF TriggersInv

LEMMA SavedArmsNothing ==
    ASSUME TypeInv, UNCHANGED rows \/ SavesFinished
    PROVE  ArmsNothing
  BY SavedFinished DEF ArmsNothing

\* The first delegation of a key: it has a number no monitor has yet, and its own
\* monitors are not past.
LEMMA FirstKeepsTriggers ==
    ASSUME TypeInv, TriggersInv, NEW r \in inflight, ReceiveFirst(r)
    PROVE  TriggersInv'
  <1> DEFINE k == r.key
             d == FirstDelegate(r, gen[k] + 1)
  <1>0. /\ rows \in [Key -> Delegate] /\ gen \in [Key -> Nat] /\ r \in Request
        /\ monitors \in Seq(Monitor) /\ ChainTypeOK
    BY Typed DEF TypeInv
  <1>1. k \in Key /\ gen[k] \in Nat /\ d \in Delegate
    BY <1>0, RequestTypes
  <1>2. /\ rows' = [rows EXCEPT ![k] = d] /\ gen' = [gen EXCEPT ![k] = gen[k] + 1]
        /\ monitors' = FirstMonitor(monitors, d, Height)
        /\ UNCHANGED <<chainVars, feedVars, loopVars, dropped>>
    BY DEF ReceiveFirst
  <1>3. d.key = k /\ d.gen = gen[k] + 1
    BY DEF FirstDelegate
  <1> HIDE DEF k, d
  <1>4. /\ rows'[k] = d /\ gen'[k] = gen[k] + 1
        /\ \A j \in Key : j # k => rows'[j] = rows[j] /\ gen'[j] = gen[j]
    BY <1>0, <1>1, <1>2
  <1>5. ASSUME NEW i \in DOMAIN monitors'
        PROVE  \/ i \in DOMAIN monitors /\ monitors'[i] = monitors[i]
               \/ /\ monitors'[i].key = k /\ monitors'[i].gen = gen[k] + 1
                  /\ monitors'[i].due => monitors'[i].block > Height
    BY <1>0, <1>1, <1>2, <1>3, LoopTyped, MonitorsAdded DEF KeptOrNew
  <1>6. /\ \A i \in DOMAIN monitors : /\ monitors[i].block \in Int /\ monitors[i].key \in Key
                                       /\ monitors[i].gen \in Nat
                                       /\ monitors[i].gen <= gen[monitors[i].key]
        /\ blockNumber \in Nat /\ Height \in Nat /\ blockNumber <= Height
    BY LoopTyped DEF TriggersInv, MonitorsKnown
  <1>t. ASSUME NEW i \in DOMAIN monitors' PROVE monitors'[i].block \in Int
    <2>1. monitors' \in Seq(Monitor)
      BY <1>0, <1>1, <1>2, <1>6, MonitorTypes
    <2>2. monitors'[i] \in Monitor
      BY <2>1, ElementOfSeq, LenProperties
    <2> QED
      BY <2>2 DEF Monitor
  <1>7. ASSUME NEW i \in DOMAIN monitors', Due(monitors'[i]), monitors'[i].block <= blockNumber
        PROVE  /\ i \in DOMAIN monitors /\ monitors'[i] = monitors[i]
               /\ rows'[monitors[i].key].gen = monitors[i].gen
                  => rows'[monitors[i].key] = rows[monitors[i].key]
    <2>1. monitors'[i].block \in Int
      BY <1>t
    <2>2. i \in DOMAIN monitors /\ monitors'[i] = monitors[i]
      BY <1>5, <1>6, <1>7, <2>1 DEF Due
    <2>3. monitors[i].key = k => monitors[i].gen # gen[k] + 1
      BY <1>1, <1>6, <2>2
    <2> QED
      BY <1>3, <1>4, <1>6, <2>2, <2>3
  <1>8. \A n \in Int : Past(n) => n <= blockNumber
    BY <1>6 DEF Past
  <1>10. NoMissedTrigger'
    <2> SUFFICES ASSUME NEW i \in DOMAIN monitors', Due(monitors'[i]), Past(monitors[i].block)',
                        rows'[monitors'[i].key].gen = monitors'[i].gen
                 PROVE  rows'[monitors'[i].key].status # "init"
      BY <1>2 DEF NoMissedTrigger, Due
    <2>1. Past(monitors'[i].block) /\ monitors'[i].block <= blockNumber
      <3>1. Past(monitors'[i].block)
        BY <1>2 DEF Past, feedVars, loopVars
      <3> QED
        BY <1>8, <1>t, <3>1
    <2>2. /\ i \in DOMAIN monitors /\ monitors'[i] = monitors[i]
          /\ rows'[monitors[i].key] = rows[monitors[i].key]
      BY <1>7, <2>1
    <2> QED
      BY <2>1, <2>2 DEF TriggersInv, NoMissedTrigger, Due
  <1>11. CopiesNotMissed'
    <2> SUFFICES ASSUME NEW i \in DOMAIN monitors', NEW e \in dsTodo',
                        Due(monitors'[i]), Past(monitors[i].block)',
                        e.key = monitors'[i].key, e.gen = monitors'[i].gen
                 PROVE  e.status # "init"
      BY <1>2 DEF CopiesNotMissed, Due
    <2>1. Past(monitors'[i].block) /\ monitors'[i].block <= blockNumber /\ e \in dsTodo
      <3>1. Past(monitors'[i].block) /\ e \in dsTodo
        BY <1>2 DEF Past, feedVars, loopVars
      <3> QED
        BY <1>8, <1>t, <3>1
    <2>2. i \in DOMAIN monitors /\ monitors'[i] = monitors[i]
      BY <1>7, <2>1
    <2> QED
      BY <2>1, <2>2 DEF TriggersInv, CopiesNotMissed, Due
  <1>12. BlockTriggersInv'
    <2>0. /\ blockNumber' = blockNumber /\ pc' = pc /\ monTodo' = monTodo /\ cur' = cur
          /\ dropped' = dropped
      BY <1>2 DEF feedVars, loopVars
    <2> SUFFICES ASSUME pc \in {"monitors", "mark"}, NEW i \in DOMAIN monitors',
                        Due(monitors'[i]), monitors'[i].block = blockNumber,
                        rows'[monitors'[i].key].gen = monitors'[i].gen,
                        rows'[monitors'[i].key].status = "init"
                 PROVE  i \in monTodo \/ (pc = "mark" /\ cur.key = monitors'[i].key)
      BY <2>0 DEF BlockTriggersInv, Due
    <2>1. /\ i \in DOMAIN monitors /\ monitors'[i] = monitors[i]
          /\ rows'[monitors[i].key] = rows[monitors[i].key]
      BY <1>6, <1>7
    <2> QED
      BY <2>1 DEF TriggersInv, BlockTriggersInv, Due
  <1>13. MonitorsKnown'
    <2>1. ASSUME NEW i \in DOMAIN monitors' PROVE monitors'[i].gen <= gen'[monitors'[i].key]
      BY <1>1, <1>4, <1>5, <1>6
    <2> QED
      BY <2>1 DEF MonitorsKnown
  <1>14. FeedInv'
    BY <1>0, <1>2, UnchangedGrows, FirstEventStays DEF TriggersInv, FeedInv, feedVars, loopVars
  <1> QED
    BY <1>10, <1>11, <1>12, <1>13, <1>14 DEF TriggersInv

\* A delegation that is half stored may leave a monitor, not past, of no delegate.
LEMMA HalfKeepsTriggers ==
    ASSUME TypeInv, TriggersInv, NEW r \in inflight, ReceiveHalf(r)
    PROVE  TriggersInv'
  <1> DEFINE d == FirstDelegate(r, 0)
  <1>0. /\ rows \in [Key -> Delegate] /\ gen \in [Key -> Nat] /\ r \in Request
        /\ monitors \in Seq(Monitor) /\ ChainTypeOK
        /\ blockNumber \in Nat /\ Height \in Nat /\ blockNumber <= Height
    BY Typed, LoopTyped DEF TypeInv
  <1>1. d \in Delegate /\ d.key \in Key /\ d.gen = 0
    BY <1>0, RequestTypes DEF FirstDelegate
  <1>2. /\ monitors' = monitors \/ monitors' = AddUpdateMonitor(monitors, d, Height)
        /\ UNCHANGED <<chainVars, rows, fed, blockNumber, loopVars, gen, dropped>>
    BY DEF ReceiveHalf, feedVars
  <1> HIDE DEF d
  <1>3. ASSUME NEW i \in DOMAIN monitors'
        PROVE  KeptOrNew(monitors, i, monitors'[i], d, Height)
    <2>1. CASE monitors' = monitors
      BY <2>1 DEF KeptOrNew
    <2>2. CASE monitors' = AddUpdateMonitor(monitors, d, Height)
      BY <1>0, <1>1, <2>2, MonitorsAdded
    <2> QED
      BY <1>2, <2>1, <2>2
  <1>4. ASSUME NEW i \in DOMAIN monitors' PROVE monitors'[i].block \in Int
    <2>0. AddUpdateMonitor(monitors, d, Height) \in Seq(Monitor)
      BY <1>0, <1>1, MonitorTypes
    <2>1. monitors' \in Seq(Monitor)
      BY <1>0, <1>2, <2>0
    <2>2. monitors'[i] \in Monitor
      BY <2>1, ElementOfSeq, LenProperties
    <2> QED
      BY <2>2 DEF Monitor
  <1>5. ASSUME NEW i \in DOMAIN monitors', monitors'[i].due, monitors'[i].block <= blockNumber
        PROVE  i \in DOMAIN monitors /\ monitors'[i] = monitors[i]
    BY <1>0, <1>3, <1>4, <1>5 DEF KeptOrNew
  <1>6. ASSUME NEW i \in DOMAIN monitors', Due(monitors[i])', Past(monitors[i].block)'
        PROVE  /\ i \in DOMAIN monitors /\ monitors'[i] = monitors[i]
               /\ Due(monitors[i]) /\ Past(monitors[i].block)
    <2>1. monitors'[i].due /\ monitors'[i].block <= blockNumber
      BY <1>0, <1>2, <1>4, <1>6 DEF Due, Past
    <2>2. i \in DOMAIN monitors /\ monitors'[i] = monitors[i]
      BY <1>5, <2>1
    <2> QED
      BY <1>2, <1>6, <2>2 DEF Due, Past, loopVars
  <1>7. NoMissedTrigger'
    BY <1>2, <1>6 DEF TriggersInv, NoMissedTrigger, Due
  <1>8. CopiesNotMissed'
    BY <1>2, <1>6 DEF TriggersInv, CopiesNotMissed, loopVars
  <1>9. BlockTriggersInv'
    <2> SUFFICES ASSUME pc \in {"monitors", "mark"}, NEW i \in DOMAIN monitors',
                        Due(monitors'[i]), monitors'[i].block = blockNumber,
                        rows[monitors'[i].key].gen = monitors'[i].gen,
                        rows[monitors'[i].key].status = "init"
                 PROVE  i \in monTodo \/ (pc = "mark" /\ cur.key = monitors'[i].key)
      BY <1>2 DEF BlockTriggersInv, Due, loopVars
    <2>1. i \in DOMAIN monitors /\ monitors'[i] = monitors[i]
      BY <1>0, <1>5 DEF Due
    <2> QED
      BY <2>1 DEF TriggersInv, BlockTriggersInv
  <1>10. MonitorsKnown'
    <2>1. ASSUME NEW i \in DOMAIN monitors' PROVE monitors'[i].gen <= gen[monitors'[i].key]
      <3>1. CASE i \in DOMAIN monitors /\ monitors'[i] = monitors[i]
        BY <3>1 DEF TriggersInv, MonitorsKnown
      <3>2. CASE monitors'[i].key = d.key /\ monitors'[i].gen = d.gen
        BY <1>0, <1>1, <3>2
      <3> QED
        BY <1>3, <3>1, <3>2 DEF KeptOrNew
    <2> QED
      BY <1>2, <2>1 DEF MonitorsKnown
  <1>11. FeedInv'
    BY <1>0, <1>2, UnchangedGrows, FirstEventStays DEF TriggersInv, FeedInv, loopVars
  <1> QED
    BY <1>7, <1>8, <1>9, <1>10, <1>11 DEF TriggersInv

LEMMA RequestKeepsTriggers ==
    ASSUME TypeInv, TriggersInv,
           \/ \E x \in Delegation : VerifyDelegate(x)
           \/ \E r \in inflight :
                 ReceiveFirst(r) \/ ReceiveAgain(r) \/ ReceiveFails(r) \/ ReceiveHalf(r)
    PROVE  TriggersInv'
  <1>0. /\ rows \in [Key -> Delegate] /\ inflight \subseteq Request /\ ChainTypeOK
    BY Typed DEF TypeInv
  <1>1. ASSUME NEW x \in Delegation, VerifyDelegate(x) PROVE TriggersInv'
    <2>1. UNCHANGED <<chainVars, rows, fed, blockNumber, loopVars, monitors, gen, dropped>>
      BY <1>1 DEF VerifyDelegate, dbVars, feedVars, historyVars
    <2> QED
      BY <1>0, <2>1, UnchangedGrows, SavedArmsNothing, OthersKeepTriggers
  <1>2. ASSUME NEW r \in inflight, ReceiveAgain(r) PROVE TriggersInv'
    <2>1. r.key \in Key /\ rows[r.key] \in Delegate
      BY <1>0, RequestTypes
    <2> DEFINE e == Redelegate(rows[r.key], r)
    <2>2. e.gen = rows[r.key].gen /\ e.status = rows[r.key].status
      BY <2>1 DEF Redelegate, Delegate
    <2> HIDE DEF e
    <2>3. /\ rows' = rows \/ rows' = [rows EXCEPT ![r.key] = e]
          /\ UNCHANGED <<chainVars, fed, blockNumber, loopVars, monitors, gen, dropped>>
      BY <1>2 DEF ReceiveAgain, e, feedVars, historyVars
    <2>4. ArmsNothing
      BY <1>0, <2>1, <2>2, <2>3 DEF ArmsNothing
    <2> QED
      BY <1>0, <2>3, <2>4, UnchangedGrows, OthersKeepTriggers
  <1>3. ASSUME NEW r \in inflight, ReceiveFails(r) PROVE TriggersInv'
    <2>1. UNCHANGED <<chainVars, rows, fed, blockNumber, loopVars, monitors, gen, dropped>>
      BY <1>3 DEF ReceiveFails, dbVars, feedVars
    <2> QED
      BY <1>0, <2>1, UnchangedGrows, SavedArmsNothing, OthersKeepTriggers
  <1> QED
    BY <1>1, <1>2, <1>3, FirstKeepsTriggers, HalfKeepsTriggers

-----------------------------------------------------------------------------
(* handleBlockNumber.                                                      *)

\* The loop goes to the next block, or handles block 0 after a start.
LEMMA HandleBlockTriggers ==
    ASSUME TypeInv, TriggersInv, NEW n \in Nat, HandleBlock(n),
           pc \in {"idle", "skipped"}, n = blockNumber + 1 \/ n = 0, n <= goal'
    PROVE  TriggersInv'
  <1>0. /\ blockNumber \in Nat
        /\ \A i \in DOMAIN monitors : monitors[i].block \in Int /\ monitors[i].key \in Key
    BY LoopTyped
  <1>1. /\ blockNumber' = n /\ pc' = "monitors"
        /\ monTodo' = GetDelegateMonitorList(monitors, n)
        /\ UNCHANGED <<blocks, rows, monitors, gen, dropped, dsTodo, cur>>
    BY DEF HandleBlock, chainVars, dbVars, historyVars
  <1>3. ASSUME NEW i \in DOMAIN monitors, Due(monitors[i]), Past(monitors[i].block)'
        PROVE  Past(monitors[i].block)
    BY <1>0, <1>1, <1>3 DEF Past, Due
  <1>4. NoMissedTrigger'
    BY <1>1, <1>3 DEF TriggersInv, NoMissedTrigger, Due
  <1>5. CopiesNotMissed'
    BY <1>1, <1>3 DEF TriggersInv, CopiesNotMissed, Due
  <1>6. BlockTriggersInv'
    BY <1>1 DEF BlockTriggersInv, GetDelegateMonitorList
  <1>7. MonitorsKnown'
    BY <1>1 DEF TriggersInv, MonitorsKnown
  <1>8. FeedInv'
    BY <1>1 DEF TriggersInv, FeedInv, EventAt, Height
  <1> QED
    BY <1>4, <1>5, <1>6, <1>7, <1>8 DEF TriggersInv

\* What ReceiveBlock handles first is the block after the last one, or block 0.
LEMMA FirstIsNext ==
    ASSUME TypeInv, FeedInv, pc = "idle", NEW n \in 0 .. Height, NextNotified(n)
    PROVE  LET f == FirstToHandle(n)
           IN  f \in Nat /\ f <= n /\ (f = blockNumber + 1 \/ f = 0)
  <1>0. blockNumber \in Nat /\ n \in Nat /\ fed \in Int
    BY LoopTyped
  <1>1. CASE fed = -1 /\ blockNumber = 0
    BY <1>0, <1>1 DEF NextNotified, FirstToHandle
  <1>2. CASE fed = blockNumber
    <2>1. blockNumber < n /\ \A m \in blockNumber + 1 .. n - 1 : ~EventAt(m)
      BY <1>0, <1>2 DEF NextNotified
    <2>2. CASE blockNumber = 0
      <3>1. n = 1
        <4>1. EventAt(1)
          BY DEF FeedInv
        <4> QED
          BY <1>0, <2>1, <2>2, <4>1
      <3> QED
        BY <1>0, <2>2, <3>1 DEF FirstToHandle
    <2>3. CASE blockNumber # 0
      BY <1>0, <2>1, <2>3 DEF FirstToHandle
    <2> QED
      BY <2>2, <2>3
  <1> QED
    BY <1>1, <1>2 DEF FeedInv

LEMMA BlockKeepsTriggers ==
    ASSUME TypeInv, StartInv, TriggersInv,
           \/ ReceiveBlock \/ HandleSkipped \/ MarkRunning \/ MarkFails
           \/ BlockDone \/ HandleBlockFails
           \/ \E i \in monTodo : SkipMonitor(i) \/ SpawnMonitor(i) \/ ReadMonitored(i)
    PROVE  TriggersInv'
  <1>0. /\ blockNumber \in Nat /\ goal \in Nat
        /\ \A i \in DOMAIN monitors : monitors[i].block \in Int /\ monitors[i].key \in Key
        /\ rows \in [Key -> Delegate] /\ cur.key \in Key /\ monTodo \subseteq DOMAIN monitors
        /\ \A k \in Key : rows[k].key = k
    BY LoopTyped, Typed, DelegateTypes DEF StartInv, RowsInv
  <1>1. CASE ReceiveBlock
    <2>1. PICK n \in 0 .. Height :
             NextNotified(n) /\ goal' = n /\ HandleBlock(FirstToHandle(n))
      BY <1>1 DEF ReceiveBlock
    <2>2. pc = "idle"
      BY <1>1 DEF ReceiveBlock
    <2>3. LET f == FirstToHandle(n)
          IN  f \in Nat /\ f <= n /\ (f = blockNumber + 1 \/ f = 0)
      BY <2>1, <2>2, FirstIsNext DEF TriggersInv
    <2> QED
      BY <2>1, <2>2, <2>3, HandleBlockTriggers
  <1>2. CASE HandleSkipped
    <2>1. pc = "skipped" /\ HandleBlock(blockNumber + 1) /\ goal' = goal /\ blockNumber < goal
      BY <1>2 DEF HandleSkipped, TypeInv, LoopInv
    <2> QED
      BY <1>0, <2>1, HandleBlockTriggers
  \* While a block is handled, only the monitors of the block are left to follow.
  <1>k. ASSUME pc \in {"monitors", "mark"}, pc' \in {"monitors", "mark"}, ArmsNothing,
               UNCHANGED <<blocks, fed, blockNumber, goal, dsTodo, monitors, gen>>,
               dropped \subseteq dropped', BlockTriggersInv'
        PROVE  TriggersInv'
    <2>1. NoMissedTrigger'
      BY <1>0, <1>k DEF TriggersInv, NoMissedTrigger, Past, ArmsNothing
    <2>2. CopiesNotMissed'
      BY <1>k DEF TriggersInv, CopiesNotMissed, Due, Past
    <2>3. MonitorsKnown' /\ FeedInv'
      BY <1>k DEF TriggersInv, MonitorsKnown, FeedInv, EventAt, Height
    <2> QED
      BY <1>k, <2>1, <2>2, <2>3 DEF TriggersInv
  <1>3. ASSUME NEW i \in monTodo, SkipMonitor(i) \/ SpawnMonitor(i) PROVE TriggersInv'
    <2>1. /\ pc = "monitors" /\ pc' = pc /\ monTodo' = monTodo \ {i}
          /\ UNCHANGED <<rows, blocks, fed, blockNumber, goal, dsTodo, monitors, gen, dropped>>
      BY <1>3 DEF SkipMonitor, SpawnMonitor, chainVars, dbVars, feedVars, historyVars
    <2>2. monitors[i].type = "update" => rows[monitors[i].key].status # "init"
      BY <1>3 DEF SkipMonitor, SpawnMonitor, Exists
    <2>3. BlockTriggersInv'
      BY <2>1, <2>2 DEF TriggersInv, BlockTriggersInv, Due
    <2> QED
      BY <1>k, <2>1, <2>3 DEF ArmsNothing
  <1>4. ASSUME NEW i \in monTodo, ReadMonitored(i) PROVE TriggersInv'
    <2>1. /\ pc = "monitors" /\ pc' = "mark" /\ monTodo' = monTodo \ {i}
          /\ cur' = rows[monitors[i].key]
          /\ UNCHANGED <<rows, blocks, fed, blockNumber, goal, dsTodo, monitors, gen, dropped>>
      BY <1>4 DEF ReadMonitored, chainVars, dbVars, feedVars, historyVars
    <2>2. cur'.key = monitors[i].key
      BY <1>0, <2>1
    <2>3. BlockTriggersInv'
      BY <2>1, <2>2 DEF TriggersInv, BlockTriggersInv, Due
    <2> QED
      BY <1>k, <2>1, <2>3 DEF ArmsNothing
  <1>5. CASE MarkRunning
    <2>1. /\ pc = "mark" /\ pc' = "monitors"
          /\ rows' = UpdateDelegateStatus(rows, cur.key, "running")
          /\ UNCHANGED <<blocks, fed, blockNumber, goal, dsTodo, monitors, gen, dropped, monTodo>>
      BY <1>5 DEF MarkRunning, chainVars, feedVars
    <2>2. ASSUME NEW k \in Key
          PROVE  rows'[k].status = "init" => k # cur.key /\ rows'[k] = rows[k]
      <3>1. rows[k] \in Delegate /\ rows[cur.key] \in Delegate
        BY <1>0
      <3> QED
        BY <1>0, <2>1, <3>1 DEF UpdateDelegateStatus, Exists, Delegate
    <2>3. BlockTriggersInv'
      BY <1>0, <2>1, <2>2 DEF TriggersInv, BlockTriggersInv, Due
    <2> QED
      BY <1>k, <2>1, <2>2, <2>3 DEF ArmsNothing
  <1>7. CASE MarkFails
    <2>1. /\ pc = "mark" /\ pc' = "monitors"
          /\ dropped' = dropped \cup {<<cur.key, blockNumber>>}
          /\ UNCHANGED <<rows, blocks, fed, blockNumber, goal, dsTodo, monitors, gen, monTodo>>
      BY <1>7 DEF MarkFails, chainVars, dbVars, feedVars
    <2>2. BlockTriggersInv'
      BY <2>1 DEF TriggersInv, BlockTriggersInv, Due
    <2> QED
      BY <1>k, <2>1, <2>2 DEF ArmsNothing
  <1>6. CASE BlockDone \/ HandleBlockFails
    <2>0. pc = "monitors" /\ UNCHANGED <<rows, blocks, blockNumber, goal, dsTodo, monitors, gen>>
      BY <1>6 DEF BlockDone, HandleBlockFails, chainVars, dbVars, historyVars
    <2>1. /\ pc' \in {"skipped", "idle", "event"}
          /\ pc' # "skipped" => fed' = goal /\ ~(blockNumber < goal)
      BY <1>6 DEF BlockDone, HandleBlockFails, LeaveBlock
    <2>2. /\ dropped \subseteq dropped'
          /\ \A i \in monTodo : <<monitors[i].key, blockNumber>> \in dropped'
      <3>1. CASE BlockDone
        BY <3>1 DEF BlockDone, historyVars
      <3>2. CASE HandleBlockFails
        BY <3>2 DEF HandleBlockFails
      <3> QED
        BY <1>6, <3>1, <3>2
    <2>3. ASSUME NEW i \in DOMAIN monitors, Due(monitors[i])', Past(monitors[i].block)'
          PROVE  /\ Due(monitors[i])
                 /\ Past(monitors[i].block) \/ (monitors[i].block = blockNumber /\ i \notin monTodo)
      <3>1. Due(monitors[i])
        BY <2>0, <2>2, <2>3 DEF Due
      <3>2. Past(monitors[i].block) \/ monitors[i].block = blockNumber
        BY <1>0, <2>0, <2>3 DEF Past
      <3>3. monitors[i].block = blockNumber => i \notin monTodo
        BY <2>0, <2>2, <2>3 DEF Due
      <3> QED
        BY <3>1, <3>2, <3>3
    <2>4. NoMissedTrigger'
      <3> SUFFICES ASSUME NEW i \in DOMAIN monitors, Due(monitors[i])', Past(monitors[i].block)',
                          rows[monitors[i].key].gen = monitors[i].gen
                   PROVE  rows[monitors[i].key].status # "init"
        BY <2>0 DEF NoMissedTrigger, Due
      <3> QED
        BY <2>0, <2>3 DEF TriggersInv, NoMissedTrigger, BlockTriggersInv, Due
    <2>5. CopiesNotMissed'
      BY <2>0 DEF StartInv, CopiesInv, CopiesNotMissed
    <2>6. BlockTriggersInv'
      BY <2>1 DEF BlockTriggersInv
    <2>7. MonitorsKnown'
      BY <2>0 DEF TriggersInv, MonitorsKnown
    <2>8. FeedInv'
      <3>1. pc' # "skipped" => fed' = blockNumber
        BY <1>0, <2>0, <2>1 DEF TriggersInv, FeedInv
      <3> QED
        BY <2>0, <2>1, <3>1 DEF TriggersInv, FeedInv, EventAt, Height
    <2> QED
      BY <2>4, <2>5, <2>6, <2>7, <2>8 DEF TriggersInv
  <1> QED
    BY <1>1, <1>2, <1>3, <1>4, <1>5, <1>6, <1>7

-----------------------------------------------------------------------------
(* handleStateChange.                                                      *)

LEMMA EventKeepsTriggers ==
    ASSUME TypeInv, StartInv, TriggersInv,
           \/ HandleClosed \/ ReadSettleBlock \/ HandlerFails \/ AddClosedMonitor
           \/ \E d \in dsTodo : SaveClosed(d) \/ DeleteDelegate(d) \/ DeleteFails(d)
           \/ HandleBalanceProofUpdated \/ SaveByOther
           \/ HandleSettledOrWithdraw \/ IgnoreEvent
    PROVE  TriggersInv'
  <1>0. /\ blockNumber \in Nat /\ Height \in Nat /\ blockNumber <= Height
        /\ \A i \in DOMAIN monitors : monitors[i].block \in Int /\ monitors[i].key \in Key
        /\ rows \in [Key -> Delegate] /\ dsTodo \subseteq Delegate
        /\ monitors \in Seq(Monitor) /\ cur \in Delegate /\ gen \in [Key -> Nat]
        /\ \A k \in Key : rows[k].key = k
        /\ NoMissedTrigger /\ CopiesNotMissed /\ MonitorsKnown
    BY LoopTyped, Typed DEF StartInv, RowsInv, TriggersInv
  <1>u. /\ pc \in {"event", "rpc", "save", "addMonitor", "byOther", "delete"}
        /\ pc' \in {"idle", "event", "rpc", "save", "addMonitor", "byOther", "delete"}
        /\ UNCHANGED <<blocks, fed, blockNumber, gen, dropped>>
    <2>1. UNCHANGED <<blocks, fed, blockNumber, gen, dropped>>
      BY DEF HandleClosed, ReadSettleBlock, HandlerFails, AddClosedMonitor, SaveClosed,
             DeleteDelegate, DeleteFails, HandleBalanceProofUpdated, SaveByOther, HandleSettledOrWithdraw,
             IgnoreEvent, chainVars, feedVars, historyVars
    <2>2. /\ pc \in {"event", "rpc", "save", "addMonitor", "byOther", "delete"}
          /\ pc' \in {"idle", "event", "rpc", "save", "addMonitor", "byOther", "delete"}
      BY DEF HandleClosed, ReadSettleBlock, HandlerFails, AddClosedMonitor, SaveClosed,
             DeleteDelegate, DeleteFails, HandleBalanceProofUpdated, SaveByOther, HandleSettledOrWithdraw,
             IgnoreEvent
    <2> QED
      BY <2>1, <2>2
  <1>p. \A n : Past(n)' <=> Past(n)
    BY <1>u DEF Past
  <1>k. ASSUME NoMissedTrigger', CopiesNotMissed', MonitorsKnown' PROVE TriggersInv'
    <2>1. BlockTriggersInv'
      BY <1>u DEF BlockTriggersInv
    <2>2. FeedInv'
      BY <1>u DEF TriggersInv, FeedInv, EventAt, Height
    <2> QED
      BY <1>k, <2>1, <2>2 DEF TriggersInv
  \* Rows are armed only by saving a copy; copies are only dropped.
  <1>r. ASSUME UNCHANGED monitors, dsTodo' \subseteq dsTodo,
               \A k \in Key : \/ rows'[k].status # "init" \/ rows'[k] = rows[k]
                              \/ rows'[k] \in dsTodo /\ rows'[k].key = k
        PROVE  TriggersInv'
    <2>1. NoMissedTrigger'
      <3> SUFFICES ASSUME NEW i \in DOMAIN monitors, Due(monitors[i]),
                          Past(monitors[i].block),
                          rows'[monitors[i].key].gen = monitors[i].gen
                   PROVE  rows'[monitors[i].key].status # "init"
        BY <1>p, <1>r, <1>u DEF NoMissedTrigger, Due, Past
      <3> QED
        BY <1>0, <1>r DEF NoMissedTrigger, CopiesNotMissed, Due
    <2>2. CopiesNotMissed'
      BY <1>0, <1>u, <1>r DEF CopiesNotMissed, Due, Past
    <2>3. MonitorsKnown'
      BY <1>0, <1>u, <1>r DEF MonitorsKnown
    <2> QED
      BY <1>k, <2>1, <2>2, <2>3
  \* Copies are read from the rows.
  <1>c. ASSUME UNCHANGED <<rows, monitors>>,
               \A e \in dsTodo' : \/ \E d \in dsTodo : /\ e.key = d.key /\ e.gen = d.gen
                                                       /\ e.status = d.status
                                  \/ \E k \in Key : e = rows[k]
        PROVE  TriggersInv'
    <2>1. NoMissedTrigger'
      BY <1>0, <1>u, <1>c DEF NoMissedTrigger, Past
    <2>2. CopiesNotMissed'
      <3> SUFFICES ASSUME NEW i \in DOMAIN monitors, NEW e \in dsTodo',
                          Due(monitors[i]), Past(monitors[i].block),
                          e.key = monitors[i].key, e.gen = monitors[i].gen
                   PROVE  e.status # "init"
        BY <1>u, <1>c DEF CopiesNotMissed, Due, Past
      <3>1. ASSUME NEW k \in Key, e = rows[k] PROVE e.status # "init"
        <4>1. k = monitors[i].key
          BY <1>0, <3>1
        <4> QED
          BY <1>0, <3>1, <4>1 DEF NoMissedTrigger, Due
      <3>2. ASSUME NEW d \in dsTodo, e.key = d.key, e.gen = d.gen, e.status = d.status
            PROVE  e.status # "init"
        BY <1>0, <3>2 DEF CopiesNotMissed
      <3> QED
        BY <1>c, <3>1, <3>2
    <2>3. MonitorsKnown'
      BY <1>0, <1>u, <1>c DEF MonitorsKnown
    <2> QED
      BY <1>k, <2>1, <2>2, <2>3
  <1>1. CASE HandleClosed \/ HandleSettledOrWithdraw
    <2>1. UNCHANGED <<rows, monitors>> /\ dsTodo' = EventDelegates
      BY <1>1 DEF HandleClosed, HandleSettledOrWithdraw, dbVars
    <2>2. \A e \in EventDelegates : \E k \in Key : e = rows[k]
      BY DEF EventDelegates, GetDelegateListByChannelIdentifier
    <2> QED
      BY <1>c, <2>1, <2>2
  <1>2. CASE ReadSettleBlock
    <2> DEFINE n == channel[blocks[goal].channel].settle
    <2>1. UNCHANGED <<rows, monitors>> /\ dsTodo' = {WithSettleBlock(d, n) : d \in dsTodo}
      BY <1>2 DEF ReadSettleBlock, dbVars
    <2> HIDE DEF n
    <2>2. ASSUME NEW d \in dsTodo
          PROVE  LET e == WithSettleBlock(d, n)
                 IN  e.key = d.key /\ e.gen = d.gen /\ e.status = d.status
      BY <1>0 DEF WithSettleBlock, Delegate
    <2>3. ASSUME NEW e \in dsTodo'
          PROVE  \E d \in dsTodo : e.key = d.key /\ e.gen = d.gen /\ e.status = d.status
      BY <2>1, <2>2
    <2> QED
      BY <1>c, <2>1, <2>3
  <1>3. CASE HandlerFails \/ HandleBalanceProofUpdated \/ IgnoreEvent
    <2>1. UNCHANGED <<rows, monitors>> /\ (dsTodo' = dsTodo \/ dsTodo' = {})
      BY <1>3 DEF HandlerFails, HandleBalanceProofUpdated, IgnoreEvent, dbVars
    <2> QED
      BY <1>r, <2>1
  <1>4. ASSUME NEW d \in dsTodo, SaveClosed(d) PROVE TriggersInv'
    <2>1. d.key \in Key
      BY <1>0, DelegateTypes
    <2>2. /\ rows' = [rows EXCEPT ![d.key] = d] /\ UNCHANGED monitors
          /\ dsTodo' \subseteq dsTodo
      BY <1>4 DEF SaveClosed, UpdateObject
    <2>3. rows'[d.key] = d /\ \A j \in Key : j # d.key => rows'[j] = rows[j]
      BY <1>0, <2>1, <2>2
    <2> QED
      BY <1>r, <2>2, <2>3
  <1>5. ASSUME NEW d \in dsTodo, DeleteDelegate(d) PROVE TriggersInv'
    <2>1. d.key \in Key
      BY <1>0, DelegateTypes
    <2>2. /\ rows' = [rows EXCEPT ![d.key] = NoDelegate(d.key)] /\ UNCHANGED monitors
          /\ dsTodo' \subseteq dsTodo
      BY <1>5 DEF DeleteDelegate
    <2>3. rows'[d.key].status # "init" /\ \A j \in Key : j # d.key => rows'[j] = rows[j]
      BY <1>0, <2>1, <2>2 DEF NoDelegate
    <2> QED
      BY <1>r, <2>2, <2>3
  <1>8. ASSUME NEW d \in dsTodo, DeleteFails(d) PROVE TriggersInv'
    <2>1. d.key \in Key
      BY <1>0, DelegateTypes
    <2>2. /\ rows' = rows \/ rows' = [rows EXCEPT ![d.key] = NoDelegate(d.key)]
          /\ UNCHANGED monitors /\ dsTodo' \subseteq dsTodo
      BY <1>8 DEF DeleteFails
    <2>3. \A j \in Key : rows'[j].status # "init" \/ rows'[j] = rows[j]
      BY <1>0, <2>1, <2>2 DEF NoDelegate
    <2> QED
      BY <1>r, <2>2, <2>3
  <1>6. CASE SaveByOther
    <2>1. UNCHANGED <<monitors, dsTodo>>
      BY <1>6 DEF SaveByOther
    <2>2. \A k \in Key : rows'[k].status # "init" \/ rows'[k] = rows[k]
      BY <1>6, ByOtherIsFinished, SavedFinished
    <2> QED
      BY <1>r, <2>1, <2>2
  <1>7. CASE AddClosedMonitor
    <2>1. /\ monitors' = AddDelegateMonitor(monitors, cur, Height)
          /\ UNCHANGED <<rows, dsTodo>>
      BY <1>7 DEF AddClosedMonitor
    <2>2. ASSUME NEW i \in DOMAIN monitors'
          PROVE  KeptOrNew(monitors, i, monitors'[i], cur, Height)
      BY <1>0, <2>1, MonitorsAdded
    <2>3. ASSUME NEW i \in DOMAIN monitors' PROVE monitors'[i].block \in Int
      <3>1. monitors' \in Seq(Monitor)
        BY <1>0, <2>1, MonitorTypes
      <3>2. monitors'[i] \in Monitor
        BY <3>1, ElementOfSeq, LenProperties
      <3> QED
        BY <3>2 DEF Monitor
    <2>4. ASSUME NEW i \in DOMAIN monitors', Due(monitors'[i]), Past(monitors[i].block)'
          PROVE  /\ i \in DOMAIN monitors /\ monitors'[i] = monitors[i]
                 /\ Past(monitors[i].block)
      <3>1. monitors'[i].block <= blockNumber
        BY <1>0, <1>u, <2>3, <2>4 DEF Past
      <3>2. i \in DOMAIN monitors /\ monitors'[i] = monitors[i]
        BY <1>0, <2>2, <2>3, <2>4, <3>1 DEF KeptOrNew, Due
      <3> QED
        BY <1>u, <2>4, <3>2 DEF Past
    <2>5. NoMissedTrigger'
      BY <1>0, <1>u, <2>1, <2>4 DEF NoMissedTrigger, Due
    <2>6. CopiesNotMissed'
      BY <1>0, <1>u, <2>1, <2>4 DEF CopiesNotMissed, Due
    <2>7. MonitorsKnown'
      <3>1. cur.gen <= gen[cur.key]
        BY DEF StartInv, CopiesInv, Known
      <3>2. ASSUME NEW i \in DOMAIN monitors' PROVE monitors'[i].gen <= gen[monitors'[i].key]
        BY <1>0, <2>2, <3>1 DEF KeptOrNew, MonitorsKnown
      <3> QED
        BY <1>u, <3>2 DEF MonitorsKnown
    <2> QED
      BY <1>k, <2>5, <2>6, <2>7
  <1> QED
    BY <1>1, <1>2, <1>3, <1>4, <1>5, <1>6, <1>7, <1>8

-----------------------------------------------------------------------------
LEMMA InitTriggers == Init => TriggersInv
  <1> SUFFICES ASSUME Init PROVE TriggersInv
    OBVIOUS
  <1>1. PICK c \in Channel :
           blocks = << [type |-> "open", channel |-> c, participant |-> SomeParty] >>
    BY DEF Init, ChainInit
  <1>2. Height = 1 /\ EventAt(1)
    BY <1>1 DEF Height, EventAt
  <1>3. FeedInv
    BY <1>2 DEF Init, FeedInv
  <1>4. DOMAIN monitors = {}
    BY DEF Init
  <1> QED
    BY <1>3, <1>4 DEF TriggersInv, NoMissedTrigger, CopiesNotMissed, BlockTriggersInv,
                      MonitorsKnown

LEMMA NextTriggers == TypeInv /\ StartInv /\ TriggersInv /\ [Next]_vars => TriggersInv'
  <1> SUFFICES ASSUME TypeInv, StartInv, TriggersInv, [Next]_vars PROVE TriggersInv'
    OBVIOUS
  <1>0. ChainTypeOK
    BY DEF TypeInv
  <1>1. CASE ChainStep
    BY <1>0, <1>1, ChainNextGrows, SavedArmsNothing, OthersKeepTriggers
       DEF ChainStep, ServiceUnchanged, dbVars, feedVars, historyVars
  <1>2. CASE AlarmFails \/ UNCHANGED vars
    <2>1. UNCHANGED <<chainVars, rows, fed, blockNumber, loopVars, monitors, gen, dropped>>
      BY <1>2 DEF AlarmFails, vars, dbVars, feedVars, historyVars
    <2> QED
      BY <1>0, <2>1, UnchangedGrows, SavedArmsNothing, OthersKeepTriggers
  <1>3. CASE LoopStep \/ LoopFails
    BY <1>3, BlockKeepsTriggers, EventKeepsTriggers DEF LoopStep, LoopFails
  <1>4. ASSUME NEW t \in TaskId, TaskStep(t) PROVE TriggersInv'
    BY <1>4, TaskRows, TaskGrows, SavedArmsNothing, OthersKeepTriggers
       DEF TaskFrame, feedVars, historyVars
  <1>5. CASE \/ \E x \in Delegation : VerifyDelegate(x)
             \/ \E r \in inflight :
                   ReceiveFirst(r) \/ ReceiveAgain(r) \/ ReceiveFails(r) \/ ReceiveHalf(r)
    BY <1>5, RequestKeepsTriggers
  <1>6. CASE Crash
    <2>1. /\ UNCHANGED <<blocks, rows, monitors, gen, dropped>> /\ dsTodo' = {} /\ pc' = "idle"
          /\ fed' = -1 /\ blockNumber' = 0
      BY <1>6 DEF Crash, Started, chainVars, dbVars
    <2>2. ASSUME NEW i \in DOMAIN monitors, Due(monitors[i]) PROVE ~Past(monitors[i].block)'
      <3>1. monitors[i].block \in Int
        BY LoopTyped
      <3> QED
        BY <2>1, <2>2, <3>1 DEF Past, Due
    <2>3. NoMissedTrigger'
      BY <2>1, <2>2 DEF NoMissedTrigger, Due
    <2>4. CopiesNotMissed' /\ BlockTriggersInv'
      BY <2>1 DEF CopiesNotMissed, BlockTriggersInv
    <2>5. MonitorsKnown' /\ FeedInv'
      BY <2>1 DEF TriggersInv, MonitorsKnown, FeedInv, EventAt, Height
    <2> QED
      BY <2>3, <2>4, <2>5 DEF TriggersInv
  <1> QED
    BY <1>1, <1>2, <1>3, <1>4, <1>5, <1>6 DEF Next

\* handleBlockNumber misses no trigger: whatever blocks the feed skips, however far it
\* is behind and whatever is replayed after a restart, an update monitor made in time
\* has its delegate started, or finds it finished, when its block has been handled,
\* and no row saved later arms the delegate again.  The only triggers it loses are
\* those of a block whose monitors or rows it fails to read, from the failure on, and
\* the one whose status it fails to write.
THEOREM NoTriggerIsMissed == Spec => []NoMissedTrigger
  <1>1. TriggersInv => NoMissedTrigger
    BY DEF TriggersInv
  <1> QED
    BY <1>1, SpecTypeInv, InitStart, NextStart, InitTriggers, NextTriggers, PTL DEF Spec
=============================================================================
