----------------------------- MODULE FeeAccount -----------------------------
(***************************************************************************)
(* Everything the service does to the account of one delegator.  Every     *)
(* operation but the transaction of a delegation reads the row in one step *)
(* and saves all of it (a deposit: one column) in another, and nothing     *)
(* keeps other threads out in between.                                     *)
(*                                                                         *)
(* A worker is a thread charging one kind of work of one delegate:         *)
(*   "secret"  the event loop, registering the secret, again every block   *)
(*             until it succeeds;                                          *)
(*   "update"  the goroutine that sends the balance proof, then unlocks;   *)
(*   "punish"  the goroutine that punishes.                                *)
(* When a worker runs is decided by ChainEvents; here it may run at any    *)
(* time, and punish and unlock again and again (duplicate monitors).       *)
(* Deleting a delegate leaves the account alone, so a channel delegated    *)
(* again after a deletion is another member of Delegate.                   *)
(*                                                                         *)
(* Statements of the database may fail: a row that cannot be read is taken *)
(* for one of zeros, a save that fails is logged and given up.  Those that *)
(* panic where nothing recovers are crashes.                               *)
(***************************************************************************)
EXTENDS Account

CONSTANTS
    Delegate,       \* the delegates (channels) of the delegator
    Fee,            \* fee of one piece of each kind of work
    Contents,       \* the work a delegation may ask for
    Transfer,       \* the transfers of SMT to the service
    AmountOf,       \* their amounts
    Watched,        \* bound: the delegates whose delegations' answers are kept
    MaxRequests,    \* bound: delegations received
    MaxCrashes,     \* bound: restarts
    MaxFaults       \* bound: failed statements of the database

Work == {"secret", "ubp", "unlock", "punish"}

\* A delegation has one balance proof, one charge for all its punishes, one
\* secret here, and any number of unlocks.
Content == {c \in [Work -> Nat] : c["secret"] <= 1 /\ c["ubp"] <= 1 /\ c["punish"] <= 1}

ASSUME FeeAssumption == Fee \in [Work -> Nat]
ASSUME ContentsAssumption == Contents \subseteq Content
ASSUME TransferAssumption == AmountOf \in [Transfer -> Nat]
ASSUME FeeBoundAssumption == MaxRequests \in Nat /\ MaxCrashes \in Nat /\ MaxFaults \in Nat

Worker == Delegate \X {"secret", "update", "punish"}

VARIABLES
    account,        \* the row of the delegator
    stored,         \* the row exists
    asked,          \* the work each delegate asks for
    registered,     \* delegates whose secret the service has registered
    recorded,       \* the ReceivedTransfer table
    worker,         \* the state of each worker
    poller,         \* the state of the deposit poller
    answer,         \* of the last delegation in this run: pending, enough, or no promise
    paid,           \* history: fees of the work reported as successful
    deposited,      \* history: the amount of the transfers taken, each as often as it may be
    credits,        \* history: how often each transfer may still be credited
    requests,
    crashes,
    faults

dbVars == <<account, stored, asked, registered, recorded>>
historyVars == <<paid, deposited, credits, requests, crashes>>
vars == <<dbVars, worker, poller, answer, historyVars, faults>>

\* Nothing is asked of a delegate that is not stored.
Nothing == [x \in Work |-> 0]

\* CalcNeedSMT.
NeedSMT(c) ==
    Fee["ubp"] * c["ubp"] + Fee["unlock"] * c["unlock"]
    + Fee["secret"] * c["secret"] + Fee["punish"] * c["punish"]

\* The work a worker does first.
FirstJob(w) == IF w[2] = "update" THEN "ubp" ELSE w[2]

Fresh(w) == [pc |-> "idle", job |-> FirstJob(w), left |-> 0, read |-> NoAccount]
IdlePoller == [pc |-> "idle", amount |-> 0, read |-> NoAccount]

WorkerState ==
    [pc : {"idle", "lock", "tx", "settle"}, job : Work, left : Nat, read : Amounts]
PollerState ==
    [pc : {"idle", "read", "create", "add"}, amount : Nat, read : Amounts]

TypeOK ==
    /\ account \in Amounts
    /\ stored \in BOOLEAN
    /\ asked \in [Delegate -> Content]
    /\ registered \subseteq Delegate
    /\ recorded \subseteq Transfer
    /\ worker \in [Worker -> WorkerState]
    /\ poller \in PollerState
    /\ answer \in {"none", "pending", "enough"}
    /\ paid \in Nat
    /\ deposited \in Nat
    /\ credits \in [Transfer -> Nat]
    /\ requests \in 0 .. MaxRequests
    /\ crashes \in 0 .. MaxCrashes
    /\ faults \in 0 .. MaxFaults

Init ==
    /\ account = NoAccount
    /\ stored = FALSE
    /\ asked = [d \in Delegate |-> Nothing]
    /\ registered = {}
    /\ recorded = {}
    /\ worker = [w \in Worker |-> Fresh(w)]
    /\ poller = IdlePoller
    /\ answer = "none"
    /\ paid = 0
    /\ deposited = 0
    /\ credits = [tr \in Transfer |-> 1]
    /\ requests = 0
    /\ crashes = 0
    /\ faults = 0

\* n statements of the database fail.
Fail(n) == faults + n <= MaxFaults /\ faults' = faults + n

\* AccountGetAccount and GetAccountInTx: an error is logged, and zeros returned.
Reads(a) ==
    \/ a = account /\ UNCHANGED faults
    \/ a = NoAccount /\ Fail(1)

\* Saving a row: an error leaves what is stored.
Saves(a) ==
    \/ account' = a /\ stored' = TRUE /\ UNCHANGED faults
    \/ UNCHANGED <<account, stored>> /\ Fail(1)

-----------------------------------------------------------------------------
(* Delegations: ReceiveDelegate, one database transaction, and the answer. *)

Started(d) == worker[<<d, "update">>] # Fresh(<<d, "update">>)

\* What a delegate may ask for after another delegation: secrets are always
\* replaced, and so is the charge for punishes, which the deletion of another
\* delegate may take away (it empties the table); balance proof and unlocks are
\* replaced (a proof never by none) until the update is started, then kept.
MayReplace(d, c) ==
    /\ c["ubp"] >= asked[d]["ubp"]
    /\ Started(d) => c["ubp"] = asked[d]["ubp"] /\ c["unlock"] = asked[d]["unlock"]

StoreDelegation(d, c) ==
    /\ requests < MaxRequests
    /\ MayReplace(d, c)
    /\ requests' = requests + 1
    /\ asked' = [asked EXCEPT ![d] = c]
    /\ UNCHANGED <<registered, recorded, worker, poller, paid, deposited, credits,
                   crashes>>

ReceiveDelegate(d, c) ==
    /\ StoreDelegation(d, c)
    /\ \/ /\ NeedSMT(asked[d]) = NeedSMT(c)
          /\ UNCHANGED <<account, stored, faults>>
       \/ /\ NeedSMT(asked[d]) # NeedSMT(c)
          /\ \E a \in {account, NoAccount} :
                Reads(a) /\ account' = UpdateAccountSMT(a, NeedSMT(asked[d]), NeedSMT(c))
          /\ stored' = TRUE
    /\ answer' = IF d \in Watched THEN "pending" ELSE "none"

\* The account cannot be saved: updateAccountSMT panics, the delegation is committed
\* all the same (no error was returned), the HTTP server answers with an error.
ReceiveUncharged(d, c) ==
    /\ StoreDelegation(d, c)
    /\ NeedSMT(asked[d]) # NeedSMT(c)
    /\ Fail(1)
    /\ answer' = "none"
    /\ UNCHANGED <<account, stored>>

\* AccountIsBalanceEnough: status 3 of the answer, or one that promises
\* nothing: status 2, or the error of the HTTP server when accountSanity panics.
AnswerDelegate ==
    /\ answer = "pending"
    /\ \E a \in {account, NoAccount} :
          /\ Reads(a)
          /\ answer' = IF AccountSanity(a) /\ AccountIsBalanceEnough(a)
                       THEN "enough" ELSE "none"
    /\ UNCHANGED <<dbVars, worker, poller, historyVars>>

-----------------------------------------------------------------------------
(* Workers.                                                                *)

Items(w) == asked[w[1]][worker[w].job]
Amount(w) == Fee[worker[w].job] * Items(w)

\* The event loop charges one secret at a time and skips registered ones.
MayRun(w) ==
    /\ worker[w].pc = "idle"
    /\ asked[w[1]] # Nothing
    /\ w[2] = "secret" => /\ w[1] \notin registered
                          /\ \A v \in Worker : v[2] = "secret" => worker[v].pc = "idle"

\* A worker's charge is over.  The loop comes back to a secret at the next
\* block; the update goroutine goes on to the unlocks.
Over(w) ==
    [Fresh(w) EXCEPT !.job = IF worker[w].job = "ubp" THEN "unlock" ELSE worker[w].job]

\* Nothing of this kind was asked for (for a secret: no iteration).
NothingToDo(w) ==
    /\ MayRun(w) /\ Items(w) = 0
    /\ worker' = [worker EXCEPT ![w] = Over(w)]
    /\ UNCHANGED <<dbVars, poller, answer, historyVars, faults>>

\* AccountLockSmt reads the row, and refuses ...
RefuseLock(w) ==
    /\ MayRun(w) /\ Items(w) > 0
    /\ \E a \in {account, NoAccount} : Reads(a) /\ ~CanLock(a, Amount(w))
    /\ worker' = [worker EXCEPT ![w] = Over(w)]
    /\ UNCHANGED <<dbVars, poller, answer, historyVars>>

\* ... or will save it with the fee of all its items locked.
ReadLock(w) ==
    /\ MayRun(w) /\ Items(w) > 0
    /\ \E a \in {account, NoAccount} :
          /\ Reads(a)
          /\ CanLock(a, Amount(w))
          /\ worker' = [worker EXCEPT ![w].pc = "lock", ![w].left = Items(w),
                                      ![w].read = AccountLockSmt(a, Amount(w))]
    /\ UNCHANGED <<dbVars, poller, answer, historyVars>>

SaveLock(w) ==
    /\ worker[w].pc = "lock"
    /\ account' = worker[w].read
    /\ stored' = TRUE
    /\ worker' = [worker EXCEPT ![w].pc = "tx", ![w].read = NoAccount]
    /\ UNCHANGED <<asked, registered, recorded, poller, answer, historyVars, faults>>

\* A row that cannot be saved refuses the work as well.
SaveLockFails(w) ==
    /\ worker[w].pc = "lock"
    /\ Fail(1)
    /\ worker' = [worker EXCEPT ![w] = Over(w)]
    /\ UNCHANGED <<dbVars, poller, answer, historyVars>>

\* One item less, or the charge is over.
ItemDone(w) ==
    IF worker[w].left > 1
    THEN [worker[w] EXCEPT !.pc = "tx", !.left = @ - 1, !.read = NoAccount]
    ELSE Over(w)

\* The transaction of one item ends, its outcome is recorded.
Report(w, ok) ==
    /\ worker[w].pc = "tx"
    /\ paid' = IF ok THEN paid + Fee[worker[w].job] ELSE paid
    /\ registered' = IF ok /\ w[2] = "secret" THEN registered \cup {w[1]} ELSE registered

\* A success is charged, a failure returned; both read the row first.
MutantChargesFailure(a, w, ok) == AccountUseSmt(a, Fee[worker[w].job])
Settled(a, w, ok) ==
    IF ok THEN AccountUseSmt(a, Fee[worker[w].job])
    ELSE AccountUnlockSmt(a, Fee[worker[w].job])

ReadSettle(w, ok) ==
    /\ Report(w, ok)
    /\ \E a \in {account, NoAccount} :
          /\ Reads(a)
          /\ CanSettle(a, Fee[worker[w].job])
          /\ AccountSanity(Settled(a, w, ok))
          /\ worker' = [worker EXCEPT ![w].pc = "settle", ![w].read = Settled(a, w, ok)]
    /\ UNCHANGED <<account, stored, asked, recorded, poller, answer, deposited, credits,
                   requests, crashes>>

\* Less than the fee is locked: the error is logged, nothing is saved.
SettleFails(w, ok) ==
    /\ Report(w, ok)
    /\ \E a \in {account, NoAccount} : Reads(a) /\ ~CanSettle(a, Fee[worker[w].job])
    /\ worker' = [worker EXCEPT ![w] = ItemDone(w)]
    /\ UNCHANGED <<account, stored, asked, recorded, poller, answer, deposited, credits,
                   requests, crashes>>

SaveSettle(w) ==
    /\ worker[w].pc = "settle"
    /\ Saves(worker[w].read)
    /\ worker' = [worker EXCEPT ![w] = ItemDone(w)]
    /\ UNCHANGED <<asked, registered, recorded, poller, answer, historyVars>>

-----------------------------------------------------------------------------
(* The deposit poller.  Its polls return transfers it has seen before.     *)

\* NewReceiveTransferFromReceiveTransfer: a recorded transfer is not taken again,
\* unless the query for its record fails.
MutantTakenAgain(tr, queried) == TRUE
IsNewTransfer(tr, queried) == tr \notin recorded \/ ~queried

\* getNewTransfer finds a new transfer in the answer of the Photon node and
\* records it; if the record is not saved the transfer is taken all the same.
\* A transfer may be credited once, and once more for every statement that fails.
RecordTransfer(tr, queried, saved) ==
    LET failed == (IF queried THEN 0 ELSE 1) + (IF saved THEN 0 ELSE 1)
        allowed == credits[tr] + failed
    IN  /\ poller.pc = "idle"
        /\ IsNewTransfer(tr, queried)
        /\ Fail(failed)
        /\ recorded' = IF saved THEN recorded \cup {tr} ELSE recorded
        /\ deposited' = IF allowed > 0 THEN deposited + AmountOf[tr] ELSE deposited
        /\ credits' = [credits EXCEPT ![tr] = IF allowed > 0 THEN allowed - 1 ELSE 0]
        /\ poller' = [poller EXCEPT !.pc = "read", !.amount = AmountOf[tr]]
        /\ UNCHANGED <<account, stored, asked, registered, worker, answer, paid,
                       requests, crashes>>

\* AccountAddSmt reads the row, ...
ReadDeposit ==
    /\ poller.pc = "read"
    /\ poller' = [poller EXCEPT !.pc = IF stored THEN "add" ELSE "create",
                                !.read = account]
    /\ UNCHANGED <<dbVars, worker, answer, historyVars, faults>>

\* (an error other than "not found" leaves zeros, and no row is made)
ReadDepositFails ==
    /\ poller.pc = "read"
    /\ Fail(1)
    /\ poller' = [poller EXCEPT !.pc = "add", !.read = NoAccount]
    /\ UNCHANGED <<dbVars, worker, answer, historyVars>>

\* ... saves a row of zeros if there was none (even if it was made meanwhile),
CreateAccount ==
    /\ poller.pc = "create"
    /\ Saves(NoAccount)
    /\ poller' = [poller EXCEPT !.pc = "add"]
    /\ UNCHANGED <<asked, registered, recorded, worker, answer, historyVars>>

\* ... and writes the total, if there is a row to write it to.
Credited == AccountAddSmt(poller.read, poller.read, poller.amount)

SaveDeposit ==
    /\ poller.pc = "add"
    /\ AccountSanity(Credited)
    /\ account' = IF stored THEN AccountAddSmt(account, poller.read, poller.amount)
                  ELSE account
    /\ poller' = IdlePoller
    /\ UNCHANGED <<stored, asked, registered, recorded, worker, answer, historyVars,
                   faults>>

-----------------------------------------------------------------------------
(* The process stops, by itself or by the panic of accountSanity, and is   *)
(* started again.  A started balance proof is not sent again.              *)

AfterRestart(w) ==
    IF w[2] = "update" /\ worker[w] # Fresh(w)
    THEN [Fresh(w) EXCEPT !.job = "unlock"] ELSE Fresh(w)

Restart ==
    /\ worker' = [w \in Worker |-> AfterRestart(w)]
    /\ poller' = IdlePoller
    /\ answer' = "none"

Crash ==
    /\ crashes < MaxCrashes
    /\ crashes' = crashes + 1
    /\ Restart
    /\ UNCHANGED <<dbVars, paid, deposited, credits, requests, faults>>

PanicInSettle(w, ok) ==
    /\ Report(w, ok)
    /\ \E a \in {account, NoAccount} :
          /\ Reads(a)
          /\ CanSettle(a, Fee[worker[w].job])
          /\ ~AccountSanity(Settled(a, w, ok))
    /\ Restart
    /\ UNCHANGED <<account, stored, asked, recorded, deposited, credits, requests,
                   crashes>>

PanicInDeposit ==
    /\ poller.pc = "add"
    /\ ~AccountSanity(Credited)
    /\ Restart
    /\ UNCHANGED <<dbVars, historyVars, faults>>

WorkerStep(w) ==
    \/ NothingToDo(w) \/ RefuseLock(w) \/ ReadLock(w) \/ SaveLock(w)
    \/ SaveLockFails(w) \/ SaveSettle(w)
    \/ \E ok \in BOOLEAN :
          ReadSettle(w, ok) \/ SettleFails(w, ok) \/ PanicInSettle(w, ok)

PollerStep ==
    \/ \E tr \in Transfer, queried \in BOOLEAN, saved \in BOOLEAN :
          RecordTransfer(tr, queried, saved)
    \/ ReadDeposit \/ ReadDepositFails \/ CreateAccount \/ SaveDeposit \/ PanicInDeposit

Next ==
    \/ \E d \in Delegate, c \in Contents :
          ReceiveDelegate(d, c) \/ ReceiveUncharged(d, c)
    \/ AnswerDelegate
    \/ \E w \in Worker : WorkerStep(w)
    \/ PollerStep
    \/ Crash

Spec == Init /\ [][Next]_vars

-----------------------------------------------------------------------------
(* Properties.                                                             *)

\* Whatever updates of the row are lost to stale or failed saves, the delegator is
\* never charged (AccountUseSmt) more than the fees of the work that was reported as
\* successful.
NoOvercharge == account.used <= paid

\* The row never shows more SMT received than was transferred, and than was
\* transferred again for each statement that failed: transfers polled again, restarts
\* and stale saves credit nothing twice (AccountAddSmt), a record that is not saved
\* or not found (NewReceiveTransferFromReceiveTransfer) one transfer once more.
NoOvercredit == account.total <= deposited

\* What is locked or used never exceeds what was deposited, counted in the same way,
\* although the lock of one goroutine may be overwritten by another's stale save:
\* AccountLockSmt never commits the same deposit twice in one row.
CommittedWithinDeposits == account.used + account.locked <= deposited

-----------------------------------------------------------------------------
(* Statements of comments that the code does not keep.                     *)

\* Status 3 is "delegated, and the balance is sufficient": until the next delegation
\* or a crash, AccountLockSmt does not refuse the balance proof that was delegated.
EnoughIsEnough ==
    \A d \in Delegate :
        LET w == <<d, "update">>
        IN  answer = "enough" /\ worker[w] = Fresh(w) /\ asked[d]["ubp"] = 1
            => CanLock(account, Fee["ubp"])

\* TotalReceivedSmt "only grows".
TotalNeverShrinks == [][account'.total >= account.total]_vars

Quiet == poller.pc = "idle" /\ \A w \in Worker : worker[w].pc = "idle"

\* doDelegateUnlocks and the others: "if it succeeds it is charged".  When nothing
\* is under way the row shows the fees of all the work that succeeded.
SuccessIsCharged == Quiet /\ crashes = 0 => account.used = paid

\* LockedSmt is charged "or should be returned": when nothing is under way nothing
\* is locked.
LockIsReturned == Quiet => account.locked = 0

\* NeedSmt is "for queries, not what is charged by": it never makes AccountLockSmt
\* refuse work that the balance covers.
RefusedOnlyForBalance ==
    \A w \in Worker :
        MayRun(w) /\ Items(w) > 0 /\ AccountAvailable(account) >= Amount(w)
        => CanLock(account, Amount(w))
=============================================================================
