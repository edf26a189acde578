------------------------ MODULE DelegateSecretsProofs -----------------------
(***************************************************************************)
(* Proofs about DelegateSecrets, for any set of delegates, secrets and     *)
(* delegations and any number of blocks and restarts.                      *)
(***************************************************************************)
EXTENDS DelegateSecrets, TLAPS

\* The argument of doDelegateSecrets in the block being handled.
Argument == LastBlockNumber(blockNumber, goal, last)

\* Where the calls of handleBlockNumber stand.
CallInv ==
    /\ fresh => pc = "idle" /\ blockNumber = 0
    /\ pc # "idle" =>
          /\ blockNumber <= goal
          /\ last < blockNumber \/ (last = 0 /\ blockNumber = 0)
          /\ last = 0 => goal <= 1 /\ blockNumber = goal
    /\ pc = "skipped" => blockNumber < goal
    /\ pc \in {"idle", "skipped"} => todo = {}

\* An item that waits is stored.
StoredInv ==
    \A w \in untried : [secret |-> w.secret, at |-> w.at] \in secrets[w.key]

Same(w, e) == w.key = e.key /\ w.secret = e.secret /\ w.at = e.at

\* Nothing in the loop's hands is ahead of its block.
EarlyInv ==
    /\ pc # "idle" => \A e \in todo : e.at <= Argument
    /\ pc \in {"wait", "save"} => cur.at <= Argument

\* A waiting item is newer than the block, not due for it, or in the loop's hands.
HandsInv ==
    pc # "idle" =>
        \A w \in untried :
            \/ w.since >= blockNumber
            \/ w.at > Argument
            \/ \E e \in todo : Same(w, e)
            \/ pc \in {"wait", "save"} /\ Same(w, cur)

\* After a jump, the last skipped block was handled with the number before it.
JumpInv ==
    pc # "idle" /\ blockNumber = goal /\ blockNumber > last + 1 /\ last # 0 =>
        \A w \in untried : w.since >= blockNumber - 1 \/ w.at > blockNumber - 2

\* What the loop knows of the secret it registers: a transaction that succeeds is
\* the first, there is no record of the secret even if the query for one failed.
CurInv ==
    /\ pc = "wait" /\ receipt = "ok" =>
          registry[cur.secret] = "service" /\ records[cur.secret] = 0
    /\ pc = "save" /\ status = "success" =>
          registry[cur.secret] = "service" /\ records[cur.secret] = 0
    /\ pc = "wait" => status = "error"

LoopInv == CallInv /\ StoredInv /\ EarlyInv /\ HandsInv /\ JumpInv

IInv == TypeOK /\ LoopInv /\ TriedInTime /\ CurInv /\ ChargedForOwn

-----------------------------------------------------------------------------
(* Types.                                                                  *)

LEMMA SomeEntryType == SomeEntry \in Entry
  BY NonEmptyAssumption DEF SomeEntry, Entry

\* What a block is handled with is a set of entries.
LEMMA HandleBlockType ==
  ASSUME TypeOK, NEW n, NEW g, NEW l, HandleBlock(n, g, l)
  PROVE  todo' \subseteq Entry
  <1>1. SUFFICES ASSUME NEW k \in Key, NEW i \in secrets[k]
                 PROVE  EntryOf(k, i) \in Entry
    BY DEF HandleBlock
  <1>2. i \in Item
    BY DEF TypeOK
  <1> QED
    BY <1>2 DEF EntryOf, Entry, Item

\* Writing a row keeps the types of the secrets and of the items that wait.
LEMMA StoreType ==
  ASSUME TypeOK, NEW k \in Key, NEW items \in SUBSET Item, StoreSecrets(k, items)
  PROVE  secrets' \in [Key -> SUBSET Item] /\ untried' \subseteq Waiting
  <1>1. secrets' \in [Key -> SUBSET Item]
    BY DEF TypeOK, StoreSecrets
  <1>2. SUFFICES ASSUME NEW i \in items
                 PROVE  [key |-> k, secret |-> i.secret, at |-> i.at,
                         since |-> blockNumber] \in Waiting
    BY <1>1 DEF TypeOK, StoreSecrets
  <1>3. blockNumber \in Nat
    BY DEF TypeOK
  <1> QED
    BY <1>3 DEF Item, Waiting

LEMMA TriedType ==
  ASSUME TypeOK, NEW e, Tried(e) PROVE untried' \subseteq untried
  BY DEF Tried

\* Types are kept by every step; the loop does not run past the notified block.
LEMMA TypeStep ==
  ASSUME TypeOK, CallInv, [Next]_vars PROVE TypeOK'
  <1>1. CASE ReceiveBlock
    <2>1. PICK n \in 0 .. height : /\ NextNotified(n)
                                   /\ goal' = n
                                   /\ last' = blockNumber
                                   /\ HandleBlock(FirstToHandle(n), n, blockNumber)
      BY <1>1 DEF ReceiveBlock
    <2>2. todo' \subseteq Entry
      BY <2>1, HandleBlockType
    <2>3. FirstToHandle(n) \in 0 .. height
      BY SecretBoundAssumption DEF FirstToHandle, TypeOK
    <2> QED
      BY <1>1, <2>1, <2>2, <2>3 DEF TypeOK, ReceiveBlock, HandleBlock, chainVars, dbVars
  <1>2. CASE HandleSkipped
    <2>1. todo' \subseteq Entry
      BY <1>2, HandleBlockType DEF HandleSkipped
    <2>2. blockNumber + 1 \in 0 .. height
      BY <1>2 DEF TypeOK, HandleSkipped, CallInv
    <2>3. blockNumber' \in 0 .. height' /\ pc' = "secrets"
      BY <1>2, <2>2 DEF HandleSkipped, HandleBlock, chainVars
    <2> QED
      BY <1>2, <2>1, <2>3 DEF TypeOK, HandleSkipped, HandleBlock, chainVars, dbVars
  <1>3. CASE BlockDone
    BY <1>3 DEF TypeOK, BlockDone, chainVars, dbVars
  <1>4. ASSUME NEW e \in todo, SkipSecret(e) \/ RegisterSecret(e) PROVE TypeOK'
    BY <1>4, TriedType, SecretBoundAssumption
    DEF TypeOK, ExecuteStatus, SkipSecret, RegisterSecret, Fault, chainVars, dbVars
  <1>5. CASE ReceiveReceipt
    BY <1>5 DEF TypeOK, ExecuteStatus, ReceiveReceipt, ReceiptStatus, chainVars, dbVars
  <1>6. CASE WaitFails
    <2>1. cur.secret \in Secret
      BY DEF TypeOK, Entry
    <2> QED
      BY <1>6, <2>1 DEF TypeOK, WaitFails, Abandon, dbVars
  <1>7. CASE SaveDelegateExecuteRecord
    <2>1. records' \in [Secret -> Nat]
      BY <1>7 DEF TypeOK, SaveDelegateExecuteRecord, Entry
    <2> QED
      BY <1>7, <2>1, TriedType, SomeEntryType DEF TypeOK, ExecuteStatus, SaveDelegateExecuteRecord, chainVars
  <1>8. CASE MineRegister
    <2>1. registry' \in [Secret -> {"none", "service", "other"}]
      BY <1>8 DEF TypeOK, MineRegister, Registered
    <2> QED
      BY <1>8, <2>1 DEF TypeOK, MineRegister, dbVars
  <1>9. ASSUME NEW r \in Ask, ReceiveDelegate(r) PROVE TypeOK'
    <2>1. r.key \in Key /\ r.items \in SUBSET Item
      BY AskAssumption
    <2> QED
      BY <1>9, <2>1, StoreType DEF TypeOK, ReceiveDelegate, chainVars, loopVars
  <1>10. ASSUME NEW k \in Key, DeleteDelegate(k) PROVE TypeOK'
    BY <1>10, StoreType DEF TypeOK, DeleteDelegate, chainVars, loopVars
  <1>11. ASSUME NEW k \in Key, ReadRow(k) PROVE TypeOK'
    BY <1>11 DEF TypeOK, ReadRow, chainVars, dbVars, loopVars
  <1>12. ASSUME NEW r \in held, SaveRow(r) PROVE TypeOK'
    <2>1. r.key \in Key /\ r.items \in SUBSET Item
      BY DEF TypeOK
    <2> QED
      BY <1>12, <2>1, StoreType DEF TypeOK, SaveRow, chainVars, loopVars
  <1>13. CASE Mine
    BY <1>13, SecretBoundAssumption DEF TypeOK, Mine, dbVars, loopVars
  <1>14. ASSUME NEW s \in Secret, OtherRegisters(s) \/ MineAbandoned(s) PROVE TypeOK'
    <2>1. registry' \in [Secret -> {"none", "service", "other"}]
      BY <1>14 DEF TypeOK, OtherRegisters, MineAbandoned, Registered
    <2> QED
      BY <1>14, <2>1 DEF TypeOK, OtherRegisters, MineAbandoned, dbVars, loopVars
  <1>15. CASE Crash
    <2>1. cur.secret \in Secret
      BY DEF TypeOK, Entry
    <2> QED
      BY <1>15, <2>1, SomeEntryType, SecretBoundAssumption DEF TypeOK, ExecuteStatus, Crash, Started, Abandon, dbVars
  <1>16. CASE UNCHANGED vars
    BY <1>16 DEF TypeOK, vars, chainVars, dbVars, loopVars
  <1>17. CASE AlarmFails
    <2>1. alarm' \in BOOLEAN
      BY <1>17, Zenon DEF AlarmFails
    <2> QED
      BY <1>17, <2>1, SecretBoundAssumption DEF TypeOK, AlarmFails, Fault, chainVars, dbVars
  <1> QED
    BY <1>1, <1>2, <1>3, <1>4, <1>5, <1>6, <1>7, <1>8, <1>9, <1>10, <1>11, <1>12,
       <1>13, <1>14, <1>15, <1>16, <1>17 DEF Next, LoopStep

-----------------------------------------------------------------------------
(* The loop and the items that wait.                                       *)

\* A block is taken up: every item that waits and is due is in the loop's hands.
LEMMA HandleBlockInv ==
  ASSUME TypeOK, StoredInv, NEW n \in Nat, NEW g \in Nat, NEW l \in Nat,
         HandleBlock(n, g, l), goal' = g, last' = l
  PROVE  /\ StoredInv' /\ HandsInv'
         /\ \A e \in todo' : e.at <= Argument'
  <1>1. Argument' = LastBlockNumber(n, g, l)
    BY DEF HandleBlock, Argument, LastBlockNumber
  <1>2. \A e \in todo' : e.at <= Argument'
    BY <1>1 DEF HandleBlock, EntryOf
  <1>3. StoredInv'
    BY DEF HandleBlock, StoredInv, dbVars
  <1>4. ASSUME NEW w \in untried, ~(w.at > Argument') PROVE \E e \in todo' : Same(w, e)
    <2> DEFINE i == [secret |-> w.secret, at |-> w.at]
    <2>1. w \in Waiting /\ w.key \in Key /\ w.at \in Nat
      BY DEF TypeOK, Waiting
    <2>2. i \in secrets[w.key]
      BY DEF StoredInv
    <2>3. i.at <= LastBlockNumber(n, g, l)
      BY <1>1, <1>4, <2>1 DEF LastBlockNumber
    <2>4. EntryOf(w.key, i) \in todo'
      BY <2>1, <2>2, <2>3 DEF HandleBlock
    <2> QED
      BY <2>4 DEF EntryOf, Same
  <1> QED
    BY <1>2, <1>3, <1>4 DEF HandsInv, HandleBlock

\* A row is written: the new items are as new as the block the loop is at.
LEMMA StoreInv ==
  ASSUME TypeOK, LoopInv, TriedInTime, NEW k \in Key, NEW items \in SUBSET Item,
         StoreSecrets(k, items), UNCHANGED loopVars
  PROVE  LoopInv' /\ TriedInTime'
  <1>1. CallInv' /\ EarlyInv'
    BY DEF LoopInv, CallInv, EarlyInv, Argument, LastBlockNumber, loopVars
  <1>2. ASSUME NEW w \in untried'
        PROVE  /\ w \in untried \/ w.since = blockNumber
               /\ [secret |-> w.secret, at |-> w.at] \in secrets'[w.key]
    <2>1. CASE w \in untried /\ (w.key = k => [secret |-> w.secret, at |-> w.at] \in items)
      <3>1. w.key \in Key
        BY <2>1 DEF TypeOK, Waiting
      <3> QED
        BY <2>1, <3>1 DEF LoopInv, StoredInv, StoreSecrets, TypeOK
    <2>2. ASSUME NEW i \in items \ secrets[k],
                 w = [key |-> k, secret |-> i.secret, at |-> i.at, since |-> blockNumber]
          PROVE  w.since = blockNumber /\ [secret |-> w.secret, at |-> w.at] \in secrets'[w.key]
      <3>1. [secret |-> w.secret, at |-> w.at] = i
        BY <2>2 DEF Item
      <3> QED
        BY <2>2, <3>1 DEF StoreSecrets, TypeOK
    <2> QED
      BY <1>2, <2>1, <2>2 DEF StoreSecrets
  <1>3. StoredInv'
    BY <1>2 DEF StoredInv
  <1>4. blockNumber \in Nat /\ blockNumber' = blockNumber
    BY DEF TypeOK, loopVars
  <1>5. \A w \in untried' : w \in untried \/ w.since = blockNumber
    BY <1>2
  <1>6. HandsInv'
    <2>1. Argument' = Argument /\ UNCHANGED <<pc, todo, cur, blockNumber>>
      BY DEF Argument, LastBlockNumber, loopVars
    <2> QED
      BY <1>4, <1>5, <2>1 DEF LoopInv, HandsInv
  <1>7. JumpInv'
    BY <1>4, <1>5 DEF LoopInv, JumpInv, loopVars
  <1>8. TriedInTime'
    BY <1>4, <1>5 DEF TriedInTime, loopVars
  <1> QED
    BY <1>1, <1>3, <1>6, <1>7, <1>8 DEF LoopInv

\* One item leaves the loop's hands and is not waiting any more.
LEMMA TriedInv ==
  ASSUME TypeOK, LoopInv, TriedInTime, pc # "idle", pc' # "idle", NEW e, Tried(e),
         UNCHANGED <<secrets, fresh, blockNumber, goal, last>>,
         \A x \in todo : x \in todo' \/ x = e,
         pc \in {"wait", "save"} => cur = e
  PROVE  StoredInv' /\ HandsInv' /\ JumpInv' /\ TriedInTime'
  <1>1. \A w \in untried' : w \in untried /\ ~Same(w, e)
    BY DEF Tried, Same
  <1>2. StoredInv' /\ JumpInv' /\ TriedInTime'
    BY <1>1 DEF LoopInv, StoredInv, JumpInv, TriedInTime
  <1>3. Argument' = Argument
    BY DEF Argument, LastBlockNumber
  <1>4. HandsInv'
    BY <1>1, <1>3 DEF LoopInv, HandsInv
  <1> QED
    BY <1>2, <1>4

LEMMA ReceiveBlockInv ==
  ASSUME TypeOK, LoopInv, ReceiveBlock PROVE LoopInv' /\ TriedInTime'
  <1>1. PICK n \in 0 .. height : /\ NextNotified(n)
                                 /\ goal' = n
                                 /\ last' = blockNumber
                                 /\ HandleBlock(FirstToHandle(n), n, blockNumber)
    BY DEF ReceiveBlock
  <1>2. n \in Nat /\ blockNumber \in Nat /\ FirstToHandle(n) \in Nat
    BY DEF TypeOK, FirstToHandle
  <1>3. StoredInv' /\ HandsInv' /\ \A e \in todo' : e.at <= Argument'
    BY <1>1, <1>2, HandleBlockInv DEF LoopInv
  <1>4. blockNumber' = FirstToHandle(n) /\ pc' = "secrets" /\ fresh' = FALSE
    BY <1>1 DEF HandleBlock, ReceiveBlock
  <1>5. CallInv'
    BY <1>1, <1>2, <1>4 DEF LoopInv, CallInv, FirstToHandle, NextNotified
  <1>6. JumpInv'
    BY <1>1, <1>2, <1>4 DEF JumpInv, FirstToHandle
  <1>7. EarlyInv' /\ TriedInTime'
    BY <1>3, <1>4 DEF EarlyInv, TriedInTime
  <1> QED
    BY <1>3, <1>5, <1>6, <1>7 DEF LoopInv

LEMMA HandleSkippedInv ==
  ASSUME TypeOK, LoopInv, HandleSkipped PROVE LoopInv' /\ TriedInTime'
  <1>1. /\ pc = "skipped" /\ todo = {} /\ blockNumber < goal
        /\ blockNumber \in Nat /\ goal \in Nat /\ last \in Nat
        /\ blockNumber' = blockNumber + 1 /\ goal' = goal /\ last' = last
        /\ pc' = "secrets" /\ untried' = untried /\ fresh' = fresh
    BY DEF HandleSkipped, HandleBlock, LoopInv, CallInv, TypeOK
  <1>2. StoredInv' /\ HandsInv' /\ \A e \in todo' : e.at <= Argument'
    BY <1>1, HandleBlockInv DEF LoopInv, HandleSkipped
  <1>3. CallInv'
    BY <1>1 DEF LoopInv, CallInv
  <1>4. \A w \in untried : w.since >= blockNumber \/ w.at > blockNumber - 1
    BY <1>1 DEF LoopInv, HandsInv, Argument, LastBlockNumber
  <1>5. JumpInv'
    <2>1. \A w \in untried : w.since \in Nat /\ w.at \in Nat
      BY DEF TypeOK, Waiting
    <2> QED
      BY <1>1, <1>4, <2>1 DEF JumpInv
  <1>6. EarlyInv' /\ TriedInTime'
    BY <1>1, <1>2 DEF EarlyInv, TriedInTime
  <1> QED
    BY <1>2, <1>3, <1>5, <1>6 DEF LoopInv

LEMMA BlockDoneInv ==
  ASSUME TypeOK, LoopInv, BlockDone PROVE LoopInv' /\ TriedInTime'
  <1>1. /\ pc = "secrets" /\ todo = {} /\ todo' = {} /\ pc' \in {"idle", "skipped"}
        /\ blockNumber \in Nat /\ goal \in Nat /\ last \in Nat
        /\ pc' = "skipped" => blockNumber < goal
        /\ pc' = "idle" => ~(blockNumber < goal)
        /\ UNCHANGED <<fresh, blockNumber, goal, last, untried, secrets>>
    BY DEF BlockDone, TypeOK, dbVars
  <1>2. Argument' = Argument
    BY <1>1 DEF Argument, LastBlockNumber
  <1>3. CallInv' /\ StoredInv' /\ EarlyInv' /\ JumpInv'
    BY <1>1 DEF LoopInv, CallInv, StoredInv, EarlyInv, JumpInv
  <1>4. \A w \in untried : w.since >= blockNumber \/ w.at > Argument
    BY <1>1 DEF LoopInv, HandsInv
  <1>5. HandsInv'
    BY <1>1, <1>2, <1>4 DEF HandsInv
  <1>6. TriedInTime'
    <2> SUFFICES ASSUME pc' = "idle", NEW w \in untried
                 PROVE  w.since > blockNumber - 2 \/ w.at > blockNumber - 2
      BY <1>1 DEF TriedInTime
    <2>1. w.since \in Nat /\ w.at \in Nat
      BY DEF TypeOK, Waiting
    <2>2. blockNumber = goal /\ (last < blockNumber \/ (last = 0 /\ blockNumber = 0))
          /\ (last = 0 => goal <= 1)
      BY <1>1 DEF LoopInv, CallInv
    <2>3. CASE last = 0
      BY <1>1, <2>1, <2>2, <2>3
    <2>4. CASE last # 0 /\ blockNumber > last + 1
      BY <1>1, <2>1, <2>2, <2>4 DEF LoopInv, JumpInv
    <2>5. CASE last # 0 /\ blockNumber = last + 1
      BY <1>1, <1>4, <2>1, <2>2, <2>5 DEF Argument, LastBlockNumber
    <2> QED
      BY <1>1, <2>2, <2>3, <2>4, <2>5
  <1> QED
    BY <1>3, <1>5, <1>6 DEF LoopInv

\* Every step keeps the loop's invariant.
LEMMA LoopInvStep ==
  ASSUME TypeOK, LoopInv, TriedInTime, [Next]_vars PROVE LoopInv' /\ TriedInTime'
  <1>1. CASE ReceiveBlock
    BY <1>1, ReceiveBlockInv
  <1>2. CASE HandleSkipped
    BY <1>2, HandleSkippedInv
  <1>3. CASE BlockDone
    BY <1>3, BlockDoneInv
  <1>4. ASSUME NEW e \in todo, SkipSecret(e) PROVE LoopInv' /\ TriedInTime'
    <2>1. StoredInv' /\ HandsInv' /\ JumpInv' /\ TriedInTime'
      BY <1>4, TriedInv DEF SkipSecret, dbVars
    <2>2. CallInv' /\ EarlyInv'
      BY <1>4 DEF SkipSecret, LoopInv, CallInv, EarlyInv, Argument, LastBlockNumber
    <2> QED
      BY <2>1, <2>2 DEF LoopInv
  <1>5. ASSUME NEW e \in todo, RegisterSecret(e) PROVE LoopInv' /\ TriedInTime'
    <2>1. HandsInv'
      BY <1>5 DEF RegisterSecret, LoopInv, HandsInv, Argument, LastBlockNumber
    <2>2. CallInv' /\ EarlyInv'
      BY <1>5 DEF RegisterSecret, LoopInv, CallInv, EarlyInv, Argument, LastBlockNumber
    <2>3. StoredInv' /\ JumpInv' /\ TriedInTime'
      BY <1>5 DEF RegisterSecret, LoopInv, StoredInv, JumpInv, TriedInTime, dbVars
    <2> QED
      BY <2>1, <2>2, <2>3 DEF LoopInv
  <1>6. CASE ReceiveReceipt \/ WaitFails
    BY <1>6 DEF ReceiveReceipt, WaitFails, LoopInv, CallInv, StoredInv, EarlyInv, HandsInv,
                JumpInv, TriedInTime, Argument, LastBlockNumber, Same, dbVars
  <1>7. CASE SaveDelegateExecuteRecord
    <2>1. StoredInv' /\ HandsInv' /\ JumpInv' /\ TriedInTime'
      BY <1>7, TriedInv DEF SaveDelegateExecuteRecord
    <2>2. CallInv' /\ EarlyInv'
      BY <1>7 DEF SaveDelegateExecuteRecord, LoopInv, CallInv, EarlyInv, Argument,
                  LastBlockNumber
    <2> QED
      BY <2>1, <2>2 DEF LoopInv
  <1>8. ASSUME NEW r \in Ask, ReceiveDelegate(r) PROVE LoopInv' /\ TriedInTime'
    <2>1. r.key \in Key /\ r.items \in SUBSET Item
      BY AskAssumption
    <2> QED
      BY <1>8, <2>1, StoreInv DEF ReceiveDelegate
  <1>9. ASSUME NEW k \in Key, DeleteDelegate(k) PROVE LoopInv' /\ TriedInTime'
    BY <1>9, StoreInv DEF DeleteDelegate
  <1>10. ASSUME NEW r \in held, SaveRow(r) PROVE LoopInv' /\ TriedInTime'
    <2>1. r.key \in Key /\ r.items \in SUBSET Item
      BY DEF TypeOK
    <2> QED
      BY <1>10, <2>1, StoreInv DEF SaveRow
  <1>11. CASE Crash
    <2>1. \A w \in untried : w.since \in Nat
      BY DEF TypeOK, Waiting
    <2> QED
      BY <1>11, <2>1 DEF Crash, Started, LoopInv, CallInv, StoredInv, EarlyInv, HandsInv,
                         JumpInv, TriedInTime, dbVars
  <1>12. ASSUME UNCHANGED <<secrets, untried, fresh, blockNumber, goal, last, pc, todo, cur>>
         PROVE  LoopInv' /\ TriedInTime'
    BY <1>12 DEF LoopInv, CallInv, StoredInv, EarlyInv, HandsInv, JumpInv, TriedInTime,
                 Argument, LastBlockNumber, Same
  <1>13. ASSUME NEW k \in Key, ReadRow(k) PROVE LoopInv' /\ TriedInTime'
    BY <1>12, <1>13 DEF ReadRow, dbVars, loopVars
  <1>14. ASSUME NEW s \in Secret, OtherRegisters(s) \/ MineAbandoned(s)
         PROVE  LoopInv' /\ TriedInTime'
    BY <1>12, <1>14 DEF OtherRegisters, MineAbandoned, dbVars, loopVars
  <1>15. CASE Mine \/ AlarmFails \/ UNCHANGED vars
    BY <1>12, <1>15 DEF Mine, AlarmFails, vars, dbVars, loopVars
  <1>16. CASE MineRegister
    BY <1>16 DEF MineRegister, LoopInv, CallInv, StoredInv, EarlyInv, HandsInv, JumpInv,
                 TriedInTime, Argument, LastBlockNumber, Same, dbVars
  <1> QED
    BY <1>1, <1>2, <1>3, <1>4, <1>5, <1>6, <1>7, <1>8, <1>9, <1>10, <1>11, <1>13,
       <1>14, <1>15, <1>16 DEF Next, LoopStep

-----------------------------------------------------------------------------
(* The records and the registry.                                           *)

\* A registered secret stays registered by the one who did it.
LEMMA RegisteredStays ==
  ASSUME TypeOK, NEW s \in Secret, NEW who \in {"service", "other"}, Registered(s, who)
  PROVE  /\ \A x \in Secret : registry[x] # "none" => registry'[x] = registry[x]
         /\ registry[s] = "none" => registry'[s] = who
  BY DEF TypeOK, Registered

LEMMA ChargeStep ==
  ASSUME TypeOK, CurInv, ChargedForOwn, [Next]_vars PROVE CurInv' /\ ChargedForOwn'
  <1>1. cur \in Entry /\ cur.secret \in Secret
    BY DEF TypeOK, Entry
  <1>2. ASSUME UNCHANGED <<registry, records>>, UNCHANGED <<pc, cur, receipt, status>>
        PROVE  CurInv' /\ ChargedForOwn'
    BY <1>2 DEF CurInv, ChargedForOwn
  <1>3. ASSUME UNCHANGED <<registry, records>>, pc' \in {"idle", "skipped", "secrets"}
        PROVE  CurInv' /\ ChargedForOwn'
    BY <1>3 DEF CurInv, ChargedForOwn
  <1>4. CASE ReceiveBlock \/ HandleSkipped \/ BlockDone \/ Crash
    BY <1>3, <1>4 DEF ReceiveBlock, HandleSkipped, HandleBlock, BlockDone, Crash, Started,
                      chainVars, dbVars
  <1>5. ASSUME NEW e \in todo, SkipSecret(e) PROVE CurInv' /\ ChargedForOwn'
    BY <1>2, <1>5 DEF SkipSecret, chainVars, dbVars
  <1>6. ASSUME NEW e \in todo, RegisterSecret(e) PROVE CurInv' /\ ChargedForOwn'
    <2>1. e.secret \in Secret
      BY DEF TypeOK, Entry
    <2> QED
      BY <1>6, <2>1 DEF RegisterSecret, HasSecretAlreadyRegister, CurInv, ChargedForOwn, TypeOK,
                        chainVars, dbVars
  <1>7. CASE MineRegister
    <2>1. /\ \A x \in Secret : registry[x] # "none" => registry'[x] = registry[x]
          /\ registry[cur.secret] = "none" => registry'[cur.secret] = "service"
      BY <1>1, <1>7, RegisteredStays DEF MineRegister
    <2> QED
      BY <1>1, <1>7, <2>1 DEF TypeOK, MineRegister, CurInv, ChargedForOwn, dbVars
  <1>8. CASE ReceiveReceipt
    BY <1>8 DEF ReceiveReceipt, ReceiptStatus, CurInv, ChargedForOwn, chainVars, dbVars
  <1>9. CASE WaitFails
    BY <1>9 DEF WaitFails, CurInv, ChargedForOwn, dbVars
  <1>10. CASE SaveDelegateExecuteRecord
    <2>1. CurInv'
      BY <1>10 DEF SaveDelegateExecuteRecord, CurInv
    <2>2. ChargedForOwn'
      BY <1>1, <1>10 DEF SaveDelegateExecuteRecord, CurInv, ChargedForOwn, TypeOK, chainVars
    <2> QED
      BY <2>1, <2>2
  <1>11. ASSUME NEW r \in Ask, ReceiveDelegate(r) PROVE CurInv' /\ ChargedForOwn'
    BY <1>2, <1>11 DEF ReceiveDelegate, chainVars, loopVars
  <1>12. ASSUME NEW k \in Key, DeleteDelegate(k) \/ ReadRow(k) PROVE CurInv' /\ ChargedForOwn'
    BY <1>2, <1>12 DEF DeleteDelegate, ReadRow, chainVars, dbVars, loopVars
  <1>13. ASSUME NEW r \in held, SaveRow(r) PROVE CurInv' /\ ChargedForOwn'
    BY <1>2, <1>13 DEF SaveRow, chainVars, loopVars
  <1>14. CASE Mine \/ AlarmFails \/ UNCHANGED vars
    BY <1>2, <1>14 DEF Mine, AlarmFails, vars, chainVars, dbVars, loopVars
  <1>15. ASSUME NEW s \in Secret, OtherRegisters(s) \/ MineAbandoned(s)
         PROVE  CurInv' /\ ChargedForOwn'
    <2>1. \A x \in Secret : registry[x] # "none" => registry'[x] = registry[x]
      BY <1>15, RegisteredStays DEF OtherRegisters, MineAbandoned
    <2>2. UNCHANGED <<records, pc, cur, receipt, status>>
      BY <1>15 DEF OtherRegisters, MineAbandoned, dbVars, loopVars
    <2> QED
      BY <1>1, <2>1, <2>2 DEF CurInv, ChargedForOwn
  <1> QED
    BY <1>4, <1>5, <1>6, <1>7, <1>8, <1>9, <1>10, <1>11, <1>12, <1>13, <1>14, <1>15
    DEF Next, LoopStep

-----------------------------------------------------------------------------

LEMMA InitIInv == Init => IInv
  BY NonEmptyAssumption, SecretBoundAssumption, SomeEntryType
  DEF ExecuteStatus, Init, IInv, TypeOK, LoopInv, CallInv, StoredInv, EarlyInv, HandsInv, JumpInv,
      TriedInTime, CurInv, ChargedForOwn

LEMMA IInvStep == IInv /\ [Next]_vars => IInv'
  BY TypeStep, LoopInvStep, ChargeStep DEF IInv, LoopInv

LEMMA IInvAlways == Spec => []IInv
  BY InitIInv, IInvStep, PTL DEF Spec

\* Types, and: the loop never handles a block that the chain does not have.
THEOREM TypeCorrect == Spec => []TypeOK
  <1>1. IInv => TypeOK
    BY DEF IInv
  <1> QED
    BY <1>1, IInvAlways, PTL

\* Whatever blocks the feed skips, a due secret that stays stored is tried within
\* two blocks, after restarts too.
THEOREM NoSecretOverlooked == Spec => []TriedInTime
  <1>1. IInv => TriedInTime
    BY DEF IInv
  <1> QED
    BY <1>1, IInvAlways, PTL

\* A secret is published only when its register block is behind the loop.
THEOREM NothingPublishedEarly == Spec => []NeverTriedEarly
  <1>1. IInv => NeverTriedEarly
    <2> SUFFICES ASSUME IInv, pc \in {"wait", "save"}
                 PROVE  cur.at < blockNumber \/ cur.at = 0
      BY DEF NeverTriedEarly
    <2>1. cur.at \in Nat /\ blockNumber \in Nat /\ goal \in Nat /\ last \in Nat
      BY DEF IInv, TypeOK, Entry
    <2> QED
      BY <2>1 DEF IInv, LoopInv, CallInv, EarlyInv, Argument, LastBlockNumber
  <1> QED
    BY <1>1, IInvAlways, PTL

\* A secret is charged once at most, and only if the service registered it.
THEOREM OnlyOwnRegistrationCharged == Spec => []ChargedForOwn
  <1>1. IInv => ChargedForOwn
    BY DEF IInv
  <1> QED
    BY <1>1, IInvAlways, PTL
=============================================================================
