--------------------------- MODULE FeeAccountProofs --------------------------
(***************************************************************************)
(* What FeeAccount promises, for any delegates, fees, transfers, crashes:  *)
(* NoOvercharge, NoOvercredit and CommittedWithinDeposits.  They are not   *)
(* inductive: a stale row saved later must be sound too, and the deposit   *)
(* under way must fit on top of every row that may be saved.  A transfer   *)
(* without a record may still be credited.                                 *)
(***************************************************************************)
EXTENDS FeeAccount, TLAPS

\* A row stays within p, what may be charged, x, the deposit under way, and s,
\* what was deposited.
Within(a, p, x, s) == a.used <= p /\ a.total + x <= s /\ a.used + a.locked <= s

\* A row that may be saved at any time.
Sound(a) == Within(a, paid, poller.amount, deposited)

IInv ==
    /\ TypeOK
    /\ Sound(account)
    /\ \A w \in Worker : Sound(worker[w].read)
    /\ Sound(poller.read)
    /\ poller.pc = "idle" => poller.amount = 0
    /\ \A tr \in Transfer \ recorded : credits[tr] >= 1

\* The operations of an account keep its four amounts natural numbers.
LEMMA AmountsClosed ==
    ASSUME NEW a \in Amounts, NEW n \in Nat, NEW b \in Amounts
    PROVE  /\ NoAccount \in Amounts
           /\ CanLock(a, n) => AccountLockSmt(a, n) \in Amounts
           /\ CanSettle(a, n) => /\ AccountUnlockSmt(a, n) \in Amounts
                                 /\ AccountUseSmt(a, n) \in Amounts
           /\ AccountAddSmt(a, b, n) \in Amounts
  <1>1. NoAccount \in Amounts
    BY DEF Amounts, NoAccount
  <1>2. ASSUME CanLock(a, n) PROVE AccountLockSmt(a, n) \in Amounts
    <2>1. a.locked + n \in Nat /\ a.need - n \in Nat
      BY <1>2 DEF Amounts, CanLock
    <2> QED
      BY <2>1 DEF Amounts, AccountLockSmt
  <1>3. CanSettle(a, n) => AccountUnlockSmt(a, n) \in Amounts
    BY DEF Amounts, CanSettle, AccountUnlockSmt
  <1>4. ASSUME CanSettle(a, n) PROVE AccountUseSmt(a, n) \in Amounts
    <2>1. a.locked - n \in Nat /\ a.used + n \in Nat
      BY <1>4 DEF Amounts, CanSettle
    <2> QED
      BY <2>1 DEF Amounts, AccountUseSmt
  <1>5. AccountAddSmt(a, b, n) \in Amounts
    BY DEF Amounts, AccountAddSmt
  <1> QED
    BY <1>1, <1>2, <1>3, <1>4, <1>5

\* The operations of an account keep it within its bounds.
LEMMA OperationsSound ==
    ASSUME NEW a \in Amounts, NEW n \in Nat, NEW p \in Nat, NEW x \in Nat, NEW s \in Nat,
           Within(a, p, x, s)
    PROVE  /\ Within(NoAccount, p, x, s)
           /\ CanLock(a, n) => Within(AccountLockSmt(a, n), p, x, s)
           /\ CanSettle(a, n) => Within(AccountUnlockSmt(a, n), p, x, s)
           /\ CanSettle(a, n) => Within(AccountUseSmt(a, n), p + n, x, s)
  BY DEF Within, Amounts, NoAccount, CanLock, AccountAvailable, AccountLockSmt,
         CanSettle, AccountUnlockSmt, AccountUseSmt

\* A delegation changes NeedSmt only.
LEMMA UpdateAccountSMTFrame ==
    ASSUME NEW a \in Amounts, NEW old \in Nat, NEW new \in Nat
    PROVE  /\ UpdateAccountSMT(a, old, new) \in Amounts
           /\ UpdateAccountSMT(a, old, new).total = a.total
           /\ UpdateAccountSMT(a, old, new).used = a.used
           /\ UpdateAccountSMT(a, old, new).locked = a.locked
  BY DEF Amounts, UpdateAccountSMT, Magnitude

\* A row within its bounds stays so when more may be charged, or more is deposited.
LEMMA WithinMonotonic ==
    ASSUME NEW a \in Amounts, NEW p \in Nat, NEW x \in Nat, NEW s \in Nat,
           NEW q \in Nat, NEW y \in Nat, NEW t \in Nat,
           Within(a, p, x, s), p <= q, s <= t, y + s <= x + t
    PROVE  Within(a, q, y, t)
  BY DEF Within, Amounts

\* The values the steps of a worker are made of have their types.
LEMMA FeeTypes ==
    ASSUME TypeOK, NEW w \in Worker
    PROVE  /\ w[1] \in Delegate
           /\ w[2] \in {"secret", "update", "punish"}
           /\ worker[w] \in WorkerState
           /\ Fee[worker[w].job] \in Nat
           /\ Items(w) \in Nat
           /\ Amount(w) \in Nat
           /\ Fresh(w) \in WorkerState
           /\ Over(w) \in WorkerState
           /\ ItemDone(w) \in WorkerState
           /\ AfterRestart(w) \in WorkerState
  <1>1. w[1] \in Delegate /\ w[2] \in {"secret", "update", "punish"}
    BY DEF Worker
  <1>2. worker[w] \in WorkerState
    BY DEF TypeOK
  <1>3. Fee[worker[w].job] \in Nat
    BY <1>2, FeeAssumption DEF WorkerState
  <1>4. Items(w) \in Nat
    BY <1>1, <1>2 DEF TypeOK, Items, Content, WorkerState
  <1>5. Amount(w) \in Nat
    BY <1>3, <1>4 DEF Amount
  <1>6. Fresh(w) \in WorkerState
    BY <1>1 DEF Fresh, FirstJob, WorkerState, Work, NoAccount, Amounts
  <1>7. Over(w) \in WorkerState
    BY <1>2, <1>6 DEF Over, WorkerState, Work
  <1>8. ItemDone(w) \in WorkerState
    <2>1. CASE worker[w].left > 1
      <3>1. worker[w].left - 1 \in Nat
        BY <1>2, <2>1 DEF WorkerState
      <3>2. NoAccount \in Amounts
        BY DEF NoAccount, Amounts
      <3> QED
        BY <1>2, <2>1, <3>1, <3>2 DEF ItemDone, WorkerState
    <2>2. CASE ~(worker[w].left > 1)
      BY <1>7, <2>2 DEF ItemDone
    <2> QED
      BY <2>1, <2>2
  <1>9. AfterRestart(w) \in WorkerState
    BY <1>6 DEF AfterRestart, WorkerState, Work
  <1> QED
    BY <1>1, <1>2, <1>3, <1>4, <1>5, <1>6, <1>7, <1>8, <1>9

\* The rows a worker holds after each of its steps: none, or the one it read.
LEMMA FreshReads ==
    ASSUME TypeOK, NEW w \in Worker
    PROVE  /\ Fresh(w).read = NoAccount
           /\ Over(w).read = NoAccount
           /\ ItemDone(w).read = NoAccount
           /\ AfterRestart(w).read = NoAccount
  <1>1. worker[w] \in WorkerState
    BY FeeTypes
  <1> QED
    BY <1>1 DEF Fresh, Over, ItemDone, AfterRestart, WorkerState

LEMMA InitIInv == Init => IInv
  <1> SUFFICES ASSUME Init PROVE IInv
    OBVIOUS
  <1> USE DEF Init
  <1>1. NoAccount \in Amounts
    BY DEF NoAccount, Amounts
  <1>2. \A w \in Worker : Fresh(w) \in WorkerState /\ Fresh(w).read = NoAccount
    BY <1>1 DEF Worker, Fresh, FirstJob, WorkerState, Work
  <1>3. TypeOK
    <2>1. Nothing \in Content
      BY DEF Nothing, Content, Work
    <2>2. IdlePoller \in PollerState
      BY <1>1 DEF IdlePoller, PollerState
    <2>3. stored \in BOOLEAN
      BY Zenon
    <2>4. worker \in [Worker -> WorkerState]
      BY <1>2
    <2> QED
      BY <1>1, <2>1, <2>2, <2>3, <2>4, FeeBoundAssumption DEF TypeOK
  <1>4. Within(NoAccount, 0, 0, 0)
    BY DEF NoAccount, Within
  <1> QED
    BY <1>2, <1>3, <1>4 DEF IInv, Sound, IdlePoller

\* What a step leaves of the invariant to prove: only rows that are new, and the
\* bounds may only grow.
LEMMA RowsStaySound ==
    ASSUME IInv, TypeOK',
           paid <= paid', deposited <= deposited',
           poller.amount' + deposited <= poller.amount + deposited',
           Sound(account)' \/ account' = account,
           \A w \in Worker : Sound(worker[w].read)' \/ worker'[w].read = worker[w].read,
           Sound(poller.read)' \/ poller'.read = poller.read,
           poller'.pc = "idle" => poller'.amount = 0,
           \/ UNCHANGED <<recorded, credits>>
           \/ \A tr \in Transfer \ recorded' : credits'[tr] >= 1
    PROVE  IInv'
  <1>1. /\ paid \in Nat /\ deposited \in Nat /\ poller.amount \in Nat
        /\ paid' \in Nat /\ deposited' \in Nat /\ poller'.amount \in Nat
    BY DEF IInv, TypeOK, PollerState
  <1>2. \A a \in Amounts : Sound(a) => Within(a, paid', poller'.amount, deposited')
    BY <1>1, WithinMonotonic DEF Sound
  <1>3. Sound(account)'
    BY <1>2 DEF IInv, TypeOK, Sound
  <1>4. ASSUME NEW w \in Worker PROVE Sound(worker[w].read)'
    BY <1>2 DEF IInv, TypeOK, WorkerState, Sound
  <1>5. Sound(poller.read)'
    BY <1>2 DEF IInv, TypeOK, PollerState, Sound
  <1>6. \A tr \in Transfer \ recorded' : credits'[tr] >= 1
    BY DEF IInv
  <1> QED
    BY <1>3, <1>4, <1>5, <1>6 DEF IInv

\* Statements that fail are counted up to the bound.
LEMMA FaultsBounded ==
    ASSUME TypeOK, \/ \E n \in Nat : Fail(n)
                   \/ UNCHANGED faults
                   \/ \E a : Reads(a)
                   \/ \E a : Saves(a)
    PROVE  faults' \in 0 .. MaxFaults
  <1>1. ASSUME NEW n \in Nat, Fail(n) PROVE faults' \in 0 .. MaxFaults
    BY <1>1, FeeBoundAssumption DEF TypeOK, Fail
  <1> QED
    BY <1>1 DEF TypeOK, Reads, Saves

\* Both rows that may be read are sound.
LEMMA ReadsSound ==
    ASSUME IInv, NEW a \in {account, NoAccount}
    PROVE  a \in Amounts /\ Sound(a)
  <1>1. account \in Amounts /\ Sound(account)
    BY DEF IInv, TypeOK
  <1>2. paid \in Nat /\ deposited \in Nat /\ poller.amount \in Nat
    BY DEF IInv, TypeOK, PollerState
  <1>3. NoAccount \in Amounts
    BY DEF NoAccount, Amounts
  <1>4. Sound(NoAccount)
    BY <1>1, <1>2, OperationsSound DEF Sound
  <1> QED
    BY <1>1, <1>3, <1>4

\* A step of worker w that leaves the database and the bounds alone.
LEMMA WorkerMoves ==
    ASSUME IInv, NEW w \in Worker, NEW v \in WorkerState,
           worker' = [worker EXCEPT ![w] = v],
           Sound(v.read),
           UNCHANGED <<dbVars, poller, answer, historyVars>>,
           faults' \in 0 .. MaxFaults
    PROVE  IInv'
  <1>1. TypeOK'
    BY DEF IInv, TypeOK, dbVars, historyVars
  <1>2. \A u \in Worker : Sound(worker[u].read)' \/ worker'[u].read = worker[u].read
    BY DEF IInv, TypeOK, Sound, Within, historyVars
  <1>3. paid \in Nat /\ deposited \in Nat /\ poller.amount \in Nat
    BY DEF IInv, TypeOK, PollerState
  <1> QED
    BY <1>1, <1>2, <1>3, RowsStaySound DEF IInv, dbVars, historyVars

\* A step of worker w that saves the row it holds.
LEMMA WorkerSaves ==
    ASSUME IInv, NEW w \in Worker, NEW v \in WorkerState,
           worker' = [worker EXCEPT ![w] = v], v.read = NoAccount,
           account' = worker[w].read, stored' = TRUE,
           UNCHANGED <<asked, registered, recorded, poller, answer, historyVars>>,
           faults' \in 0 .. MaxFaults
    PROVE  IInv'
  <1>1. TypeOK'
    <2>1. stored' \in BOOLEAN
      BY Zenon
    <2>2. account' \in Amounts
      BY DEF IInv, TypeOK, WorkerState
    <2> QED
      BY <2>1, <2>2 DEF IInv, TypeOK, historyVars
  <1>2. paid \in Nat /\ deposited \in Nat /\ poller.amount \in Nat
    BY DEF IInv, TypeOK, PollerState
  <1>3. Sound(account)'
    BY DEF IInv, Sound, historyVars
  <1>4. Sound(NoAccount)
    BY <1>2, OperationsSound DEF IInv, TypeOK, Sound
  <1>5. \A u \in Worker : Sound(worker[u].read)' \/ worker'[u].read = worker[u].read
    BY <1>4 DEF IInv, TypeOK, Sound, historyVars
  <1> QED
    BY <1>1, <1>2, <1>3, <1>5, RowsStaySound DEF IInv, historyVars

\* The process starts again: nothing is held any more.
LEMMA RestartSound ==
    ASSUME IInv, Restart, UNCHANGED <<account, stored, asked, recorded, deposited, credits>>,
           registered' \subseteq Delegate,
           paid' \in Nat, paid <= paid',
           requests' \in 0 .. MaxRequests, crashes' \in 0 .. MaxCrashes,
           faults' \in 0 .. MaxFaults
    PROVE  IInv'
  <1>1. NoAccount \in Amounts
    BY DEF NoAccount, Amounts
  <1>2. \A w \in Worker : AfterRestart(w) \in WorkerState /\ AfterRestart(w).read = NoAccount
    BY FeeTypes, FreshReads DEF IInv
  <1>3. IdlePoller \in PollerState
    BY <1>1 DEF IdlePoller, PollerState
  <1>4. TypeOK'
    BY <1>2, <1>3 DEF IInv, TypeOK, Restart
  <1>5. /\ paid \in Nat /\ deposited \in Nat /\ poller.amount \in Nat
        /\ poller'.amount = 0 /\ poller'.read = NoAccount /\ poller'.pc = "idle"
    BY DEF IInv, TypeOK, PollerState, Restart, IdlePoller
  <1>6. Sound(NoAccount)'
    BY <1>5, OperationsSound, WithinMonotonic DEF IInv, TypeOK, Sound, Within, NoAccount
  <1>7. \A w \in Worker : Sound(worker[w].read)'
    BY <1>2, <1>6 DEF Restart, Sound
  <1>8. Sound(poller.read)'
    BY <1>5, <1>6 DEF Sound
  <1> QED
    BY <1>4, <1>5, <1>7, <1>8, RowsStaySound

LEMMA NextIInv == IInv /\ [Next]_vars => IInv'
  <1> SUFFICES ASSUME IInv, [Next]_vars PROVE IInv'
    OBVIOUS
  <1>0. /\ TypeOK
        /\ paid \in Nat /\ deposited \in Nat /\ poller.amount \in Nat
        /\ account \in Amounts /\ poller \in PollerState
        /\ requests \in 0 .. MaxRequests /\ crashes \in 0 .. MaxCrashes
    BY DEF IInv, TypeOK, PollerState
  <1>n. NoAccount \in Amounts /\ Sound(NoAccount)
    <2>1. NoAccount \in Amounts
      BY DEF NoAccount, Amounts
    <2> QED
      BY <1>0, <2>1, OperationsSound DEF IInv, Sound
  <1>f. (\E n \in Nat : Fail(n)) \/ UNCHANGED faults \/ (\E a : Reads(a)) \/ (\E a : Saves(a))
        => faults' \in 0 .. MaxFaults
    BY <1>0, FaultsBounded
  <1>s. ASSUME NEW d \in Delegate, NEW c \in Contents, StoreDelegation(d, c),
               account' \in Amounts, stored' \in BOOLEAN,
               answer' \in {"none", "pending", "enough"}, faults' \in 0 .. MaxFaults,
               Sound(account)' \/ account' = account
        PROVE  IInv'
    <2>1. c \in Content
      BY ContentsAssumption
    <2>2. TypeOK'
      BY <1>0, <1>s, <2>1, FeeBoundAssumption DEF TypeOK, StoreDelegation
    <2> QED
      BY <1>0, <1>s, <2>2, RowsStaySound DEF IInv, StoreDelegation
  <1>1. ASSUME NEW d \in Delegate, NEW c \in Contents, ReceiveDelegate(d, c) PROVE IInv'
    <2>0. /\ StoreDelegation(d, c)
          /\ answer' \in {"none", "pending", "enough"}
      BY <1>1 DEF ReceiveDelegate
    <2>1. CASE UNCHANGED <<account, stored, faults>>
      <3>1. stored' \in BOOLEAN /\ account' \in Amounts /\ faults' \in 0 .. MaxFaults
        BY <1>0, <2>1, <1>f DEF TypeOK
      <3> QED
        BY <1>s, <2>0, <2>1, <3>1
    <2>2. ASSUME NEW a \in {account, NoAccount}, Reads(a), stored' = TRUE,
                 account' = UpdateAccountSMT(a, NeedSMT(asked[d]), NeedSMT(c))
          PROVE  IInv'
      <3>1. c \in Content /\ asked[d] \in Content
        BY ContentsAssumption DEF IInv, TypeOK
      <3>2. \A x \in Content : NeedSMT(x) \in Nat
        BY FeeAssumption DEF NeedSMT, Content, Work
      <3>3. a \in Amounts /\ Sound(a)
        BY ReadsSound
      <3>4. /\ account' \in Amounts
            /\ account'.total = a.total /\ account'.used = a.used
            /\ account'.locked = a.locked
        BY <2>2, <3>1, <3>2, <3>3, UpdateAccountSMTFrame
      <3>5. Sound(account)'
        BY <2>0, <3>3, <3>4 DEF Sound, Within, StoreDelegation
      <3>6. stored' \in BOOLEAN
        BY <2>2, Zenon
      <3>7. faults' \in 0 .. MaxFaults
        BY <1>f, <2>2
      <3> QED
        BY <1>s, <2>0, <3>4, <3>5, <3>6, <3>7
    <2> QED
      BY <1>1, <2>1, <2>2 DEF ReceiveDelegate
  <1>u. ASSUME NEW d \in Delegate, NEW c \in Contents, ReceiveUncharged(d, c) PROVE IInv'
    <2>1. /\ StoreDelegation(d, c) /\ answer' = "none" /\ account' = account
          /\ stored' = stored /\ Fail(1)
      BY <1>u DEF ReceiveUncharged
    <2>2. stored' \in BOOLEAN /\ faults' \in 0 .. MaxFaults
      BY <1>0, <1>f, <2>1 DEF TypeOK
    <2> QED
      BY <1>0, <1>s, <2>1, <2>2
  <1>2. ASSUME NEW w \in Worker, NothingToDo(w) \/ RefuseLock(w) \/ SaveLockFails(w)
        PROVE  IInv'
    <2>1. Over(w) \in WorkerState /\ Over(w).read = NoAccount
      BY <1>0, FeeTypes, FreshReads
    <2>2. faults' \in 0 .. MaxFaults
      BY <1>2, <1>f DEF NothingToDo, RefuseLock, SaveLockFails
    <2> QED
      BY <1>2, <1>n, <2>1, <2>2, WorkerMoves DEF NothingToDo, RefuseLock, SaveLockFails
  <1>3. ASSUME NEW w \in Worker, ReadLock(w) PROVE IInv'
    <2>0. PICK a \in {account, NoAccount} :
             /\ Reads(a) /\ CanLock(a, Amount(w))
             /\ worker' = [worker EXCEPT ![w].pc = "lock", ![w].left = Items(w),
                                         ![w].read = AccountLockSmt(a, Amount(w))]
      BY <1>3 DEF ReadLock
    <2> DEFINE row == AccountLockSmt(a, Amount(w))
               v == [worker[w] EXCEPT !.pc = "lock", !.left = Items(w), !.read = row]
    <2>1. Amount(w) \in Nat /\ Items(w) \in Nat /\ worker[w] \in WorkerState
      BY <1>0, FeeTypes
    <2>a. a \in Amounts /\ Sound(a)
      BY ReadsSound
    <2>2. row \in Amounts
      BY <2>0, <2>a, <2>1, AmountsClosed
    <2>3. Sound(row)
      BY <1>0, <2>0, <2>a, <2>1, OperationsSound DEF Sound
    <2>5. worker' = [worker EXCEPT ![w] = v]
      BY <1>0, <2>0 DEF TypeOK
    <2> HIDE DEF row
    <2>4. v \in WorkerState /\ v.read = row
      BY <2>1, <2>2 DEF WorkerState
    <2>6. UNCHANGED <<dbVars, poller, answer, historyVars>>
      BY <1>3 DEF ReadLock
    <2>7. faults' \in 0 .. MaxFaults
      BY <1>f, <2>0
    <2> HIDE DEF v
    <2> QED
      BY <2>3, <2>4, <2>5, <2>6, <2>7, WorkerMoves
  <1>4. ASSUME NEW w \in Worker, SaveLock(w) PROVE IInv'
    <2> DEFINE v == [worker[w] EXCEPT !.pc = "tx", !.read = NoAccount]
    <2>1. v \in WorkerState /\ v.read = NoAccount
      BY <1>0, <1>n, FeeTypes DEF WorkerState
    <2>2. worker' = [worker EXCEPT ![w] = v]
      BY <1>0, <1>4 DEF SaveLock, TypeOK
    <2>3. faults' \in 0 .. MaxFaults
      BY <1>4, <1>f DEF SaveLock
    <2> HIDE DEF v
    <2> QED
      BY <1>4, <2>1, <2>2, <2>3, WorkerSaves DEF SaveLock
  <1>5. ASSUME NEW w \in Worker, SaveSettle(w) PROVE IInv'
    <2>1. ItemDone(w) \in WorkerState /\ ItemDone(w).read = NoAccount
      BY <1>0, FeeTypes, FreshReads
    <2>2. faults' \in 0 .. MaxFaults
      BY <1>5, <1>f DEF SaveSettle
    <2>3. CASE account' = worker[w].read /\ stored' = TRUE
      BY <1>5, <2>1, <2>2, <2>3, WorkerSaves DEF SaveSettle
    <2>4. CASE UNCHANGED <<account, stored>>
      BY <1>5, <1>n, <2>1, <2>2, <2>4, WorkerMoves DEF SaveSettle, dbVars
    <2> QED
      BY <1>5, <2>3, <2>4 DEF SaveSettle, Saves
  <1>r. ASSUME NEW w \in Worker, NEW ok \in BOOLEAN, Report(w, ok)
        PROVE  /\ paid' \in Nat /\ paid <= paid'
               /\ paid' = IF ok THEN paid + Fee[worker[w].job] ELSE paid
               /\ registered' \subseteq Delegate
    <2>1. Fee[worker[w].job] \in Nat /\ w[1] \in Delegate
      BY <1>0, FeeTypes
    <2> QED
      BY <1>0, <1>r, <2>1 DEF Report, TypeOK
  <1>6. ASSUME NEW w \in Worker, NEW ok \in BOOLEAN, ReadSettle(w, ok) PROVE IInv'
    <2>0. PICK a \in {account, NoAccount} :
             /\ Reads(a) /\ CanSettle(a, Fee[worker[w].job])
             /\ worker' = [worker EXCEPT ![w].pc = "settle", ![w].read = Settled(a, w, ok)]
      BY <1>6 DEF ReadSettle
    <2> DEFINE row == Settled(a, w, ok)
               v == [worker[w] EXCEPT !.pc = "settle", !.read = row]
    <2>1. Fee[worker[w].job] \in Nat /\ worker[w] \in WorkerState
      BY <1>0, FeeTypes
    <2>2. Report(w, ok)
      BY <1>6 DEF ReadSettle
    <2>a. a \in Amounts /\ Sound(a)
      BY ReadsSound
    <2>3. row \in Amounts
      BY <2>0, <2>1, <2>a, AmountsClosed DEF Settled
    <2>4. Within(row, paid', poller.amount, deposited)
      BY <1>0, <1>r, <2>0, <2>1, <2>2, <2>a, OperationsSound DEF Settled, Sound
    <2>6. worker' = [worker EXCEPT ![w] = v]
      BY <1>0, <2>0 DEF TypeOK
    <2> HIDE DEF row
    <2>5. v \in WorkerState /\ v.read = row
      BY <2>1, <2>3 DEF WorkerState
    <2>f. faults' \in 0 .. MaxFaults
      BY <1>f, <2>0
    <2> HIDE DEF v
    <2>7. TypeOK'
      BY <1>0, <1>6, <1>r, <2>2, <2>5, <2>6, <2>f DEF TypeOK, ReadSettle
    <2>8. \A u \in Worker : Sound(worker[u].read)' \/ worker'[u].read = worker[u].read
      BY <1>0, <1>6, <2>4, <2>5, <2>6 DEF TypeOK, Sound, ReadSettle
    <2>9. UNCHANGED <<account, poller, deposited, recorded, credits>> /\ paid' \in Nat /\ paid <= paid'
      BY <1>6, <1>r, <2>2 DEF ReadSettle
    <2>10. poller'.pc = "idle" => poller'.amount = 0
      BY <2>9 DEF IInv
    <2> QED
      BY <1>0, <2>7, <2>8, <2>9, <2>10, RowsStaySound
  <1>7. ASSUME NEW w \in Worker, NEW ok \in BOOLEAN, SettleFails(w, ok) PROVE IInv'
    <2>1. ItemDone(w) \in WorkerState /\ ItemDone(w).read = NoAccount
      BY <1>0, FeeTypes, FreshReads
    <2>2. Report(w, ok) /\ faults' \in 0 .. MaxFaults
      BY <1>7, <1>f DEF SettleFails
    <2>3. TypeOK'
      BY <1>0, <1>7, <1>r, <2>1, <2>2 DEF TypeOK, SettleFails
    <2>4. Within(NoAccount, paid', poller.amount, deposited)
      <3>1. paid' \in Nat /\ paid <= paid'
        BY <1>r, <2>2
      <3>2. Within(NoAccount, paid, poller.amount, deposited)
        BY <1>n DEF Sound
      <3>3. /\ deposited <= deposited
            /\ poller.amount + deposited <= poller.amount + deposited
        BY <1>0
      <3> QED
        BY <1>0, <1>n, <3>1, <3>2, <3>3, WithinMonotonic
    <2>5. \A u \in Worker : Sound(worker[u].read)' \/ worker'[u].read = worker[u].read
      BY <1>0, <1>7, <2>1, <2>4 DEF TypeOK, Sound, SettleFails
    <2> QED
      BY <1>0, <1>7, <1>r, <2>2, <2>3, <2>5, RowsStaySound DEF IInv, SettleFails
  <1>8. ASSUME NEW w \in Worker, NEW ok \in BOOLEAN, PanicInSettle(w, ok) PROVE IInv'
    <2>1. faults' \in 0 .. MaxFaults
      BY <1>8, <1>f DEF PanicInSettle
    <2> QED
      BY <1>0, <1>8, <1>r, <2>1, RestartSound DEF PanicInSettle
  <1>9. ASSUME NEW tr \in Transfer, NEW queried \in BOOLEAN, NEW saved \in BOOLEAN,
               RecordTransfer(tr, queried, saved)
        PROVE  IInv'
    <2> DEFINE failed == (IF queried THEN 0 ELSE 1) + (IF saved THEN 0 ELSE 1)
               allowed == credits[tr] + failed
    <2>0. /\ poller.pc = "idle" /\ IsNewTransfer(tr, queried) /\ Fail(failed)
          /\ recorded' = IF saved THEN recorded \cup {tr} ELSE recorded
          /\ deposited' = IF allowed > 0 THEN deposited + AmountOf[tr] ELSE deposited
          /\ credits' = [credits EXCEPT ![tr] = IF allowed > 0 THEN allowed - 1 ELSE 0]
          /\ poller' = [poller EXCEPT !.pc = "read", !.amount = AmountOf[tr]]
          /\ UNCHANGED <<account, stored, asked, registered, worker, answer, paid,
                         requests, crashes>>
      BY <1>9 DEF RecordTransfer
    <2>1. AmountOf[tr] \in Nat /\ credits \in [Transfer -> Nat] /\ credits[tr] \in Nat
      BY <1>0, TransferAssumption DEF TypeOK
    <2>2. /\ failed \in Nat /\ (~queried => failed > 0) /\ (~saved => failed > 0)
      OBVIOUS
    <2>3. allowed > 0 /\ allowed \in Nat /\ allowed - 1 \in Nat
      BY <2>0, <2>1, <2>2 DEF IsNewTransfer, IInv
    <2>4. poller.amount = 0
      BY <2>0 DEF IInv
    <2>5. poller' \in PollerState /\ poller'.amount = AmountOf[tr] /\ poller'.pc = "read"
          /\ poller'.read = poller.read
      BY <1>0, <2>0, <2>1 DEF PollerState
    <2>6. deposited' = deposited + AmountOf[tr]
      BY <2>0, <2>3
    <2>7. credits' \in [Transfer -> Nat] /\ credits'[tr] = allowed - 1
          /\ \A x \in Transfer : x # tr => credits'[x] = credits[x]
      BY <2>0, <2>1, <2>3
    <2>8. ASSUME NEW x \in Transfer \ recorded' PROVE credits'[x] >= 1
      <3>1. x \notin recorded /\ (x = tr => ~saved)
        BY <2>0
      <3>2. credits[x] >= 1
        BY <3>1 DEF IInv
      <3> QED
        BY <2>1, <2>2, <2>7, <3>1, <3>2
    <2>f. faults' \in 0 .. MaxFaults
      BY <1>f, <2>0, <2>2
    <2> HIDE DEF allowed, failed
    <2>9. TypeOK'
      BY <1>0, <2>0, <2>1, <2>5, <2>6, <2>7, <2>f DEF TypeOK
    <2>10. /\ paid <= paid' /\ deposited <= deposited'
           /\ poller'.amount + deposited <= poller.amount + deposited'
      BY <1>0, <2>0, <2>1, <2>4, <2>5, <2>6
    <2> QED
      BY <2>0, <2>5, <2>8, <2>9, <2>10, RowsStaySound
  <1>10. ASSUME ReadDeposit \/ ReadDepositFails PROVE IInv'
    <2>1. poller' \in PollerState /\ poller'.amount = poller.amount
          /\ poller'.read \in {account, NoAccount} /\ poller'.pc # "idle"
      BY <1>0, <1>10, <1>n DEF ReadDeposit, ReadDepositFails, PollerState
    <2>u. UNCHANGED <<dbVars, worker, answer, historyVars>> /\ faults' \in 0 .. MaxFaults
      BY <1>10, <1>f DEF ReadDeposit, ReadDepositFails
    <2>2. TypeOK'
      BY <1>0, <2>1, <2>u DEF TypeOK, dbVars, historyVars
    <2>3. Sound(poller.read)'
      BY <1>n, <2>u, <2>1 DEF IInv, Sound, historyVars
    <2> QED
      BY <1>0, <2>1, <2>2, <2>3, <2>u, RowsStaySound DEF dbVars, historyVars
  <1>11. ASSUME CreateAccount PROVE IInv'
    <2>1. poller' \in PollerState /\ poller'.amount = poller.amount
          /\ poller'.read = poller.read /\ poller'.pc # "idle"
      BY <1>0, <1>11 DEF CreateAccount, PollerState
    <2>2. stored' \in BOOLEAN
      <3>1. stored' = TRUE \/ stored' = stored
        BY <1>11 DEF CreateAccount, Saves
      <3> QED
        BY <1>0, <3>1, Zenon DEF TypeOK
    <2>f. faults' \in 0 .. MaxFaults
      BY <1>11, <1>f DEF CreateAccount
    <2>a. account' = NoAccount \/ account' = account
      BY <1>11 DEF CreateAccount, Saves
    <2>3. TypeOK'
      BY <1>0, <1>n, <1>11, <2>1, <2>2, <2>a, <2>f DEF TypeOK, CreateAccount, historyVars
    <2>4. Sound(account)'
      BY <1>n, <1>11, <2>1, <2>a DEF IInv, Sound, CreateAccount, historyVars
    <2> QED
      BY <1>0, <1>11, <2>1, <2>3, <2>4, RowsStaySound DEF CreateAccount, historyVars
  <1>12. ASSUME SaveDeposit PROVE IInv'
    <2>1. poller.read \in Amounts /\ Sound(poller.read) /\ Sound(account)
      BY <1>0 DEF IInv, PollerState
    <2>2. account' \in Amounts
      BY <1>0, <1>12, <2>1, AmountsClosed DEF SaveDeposit
    <2>3. /\ account'.total \in {poller.read.total + poller.amount, account.total}
          /\ account'.used = account.used /\ account'.locked = account.locked
      BY <1>0, <1>12 DEF SaveDeposit, AccountAddSmt, Amounts
    <2>4. /\ poller' \in PollerState /\ poller'.amount = 0 /\ poller'.read = NoAccount
          /\ poller'.pc = "idle"
      BY <1>n, <1>12 DEF SaveDeposit, IdlePoller, PollerState
    <2>5. TypeOK'
      BY <1>0, <1>12, <2>2, <2>4 DEF TypeOK, SaveDeposit, historyVars
    <2>6. Sound(account)'
      <3>1. paid' = paid /\ deposited' = deposited
        BY <1>12 DEF SaveDeposit, historyVars
      <3>2. account'.used <= paid /\ account'.used + account'.locked <= deposited
        BY <2>1, <2>3 DEF Sound, Within
      <3>3. account'.total <= deposited
        BY <1>0, <2>1, <2>3 DEF Sound, Within, Amounts
      <3> QED
        BY <2>2, <2>4, <3>1, <3>2, <3>3 DEF Sound, Within, Amounts
    <2>7. Sound(poller.read)'
      BY <1>0, <1>n, <1>12, <2>4, WithinMonotonic DEF Sound, SaveDeposit, historyVars
    <2> QED
      BY <1>0, <1>12, <2>4, <2>5, <2>6, <2>7, RowsStaySound DEF SaveDeposit, historyVars
  <1>13. ASSUME PanicInDeposit PROVE IInv'
    BY <1>0, <1>13, <1>f, RestartSound DEF PanicInDeposit, dbVars, historyVars, TypeOK
  <1>14. ASSUME Crash PROVE IInv'
    <2>1. crashes' \in 0 .. MaxCrashes
      BY <1>0, <1>14, FeeBoundAssumption DEF Crash
    <2> QED
      BY <1>0, <1>14, <1>f, <2>1, RestartSound DEF Crash, dbVars, TypeOK
  <1>15. CASE UNCHANGED vars
    <2>1. TypeOK'
      BY <1>0, <1>15 DEF TypeOK, vars, dbVars, historyVars
    <2> QED
      BY <1>0, <1>15, <2>1, RowsStaySound DEF vars, dbVars, historyVars, IInv
  <1>16. CASE AnswerDelegate
    <2>f. faults' \in 0 .. MaxFaults
      BY <1>16, <1>f DEF AnswerDelegate
    <2>1. TypeOK'
      BY <1>0, <1>16, <2>f DEF TypeOK, AnswerDelegate, dbVars, historyVars
    <2> QED
      BY <1>0, <1>16, <2>1, RowsStaySound DEF AnswerDelegate, dbVars, historyVars, IInv
  <1> QED
    BY <1>1, <1>u, <1>2, <1>3, <1>4, <1>5, <1>6, <1>7, <1>8, <1>9, <1>10, <1>11, <1>12,
       <1>13, <1>14, <1>15, <1>16 DEF Next, WorkerStep, PollerStep

LEMMA SpecIInv == Spec => []IInv
  <1>1. Init => IInv
    BY InitIInv
  <1>2. IInv /\ [Next]_vars => IInv'
    BY NextIInv
  <1> QED
    BY <1>1, <1>2, PTL DEF Spec

\* The four amounts of a row are natural numbers at every time, NeedSmt and
\* LockedSmt included, although they are subtracted from; accountSanity never finds
\* a negative one.
THEOREM FeeTypeCorrect == Spec => []TypeOK
  <1>1. IInv => TypeOK
    BY DEF IInv
  <1> QED
    BY <1>1, SpecIInv, PTL

\* Nobody is ever charged for work that did not succeed.
THEOREM NeverOvercharged == Spec => []NoOvercharge
  <1>1. IInv => NoOvercharge
    BY DEF IInv, Sound, Within, NoOvercharge
  <1> QED
    BY <1>1, SpecIInv, PTL

\* No transfer is credited twice, but for one more credit per statement of the
\* database that fails while the transfer is recorded.
THEOREM NeverOvercredited == Spec => []NoOvercredit
  <1>1. IInv => NoOvercredit
    <2> SUFFICES ASSUME IInv PROVE NoOvercredit
      OBVIOUS
    <2>1. account.total + poller.amount <= deposited
      BY DEF IInv, Sound, Within
    <2>2. account.total \in Nat /\ poller.amount \in Nat /\ deposited \in Nat
      BY DEF IInv, TypeOK, Amounts, PollerState
    <2> QED
      BY <2>1, <2>2 DEF NoOvercredit
  <1> QED
    BY <1>1, SpecIInv, PTL

\* No deposit, counted as in NeverOvercredited, is ever locked or spent twice in the
\* row.
THEOREM NeverOvercommitted == Spec => []CommittedWithinDeposits
  <1>1. IInv => CommittedWithinDeposits
    BY DEF IInv, Sound, Within, CommittedWithinDeposits
  <1> QED
    BY <1>1, SpecIInv, PTL
=============================================================================
