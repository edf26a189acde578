# Photon-Monitoring: TLA+ specification

Photon-Monitoring is a service to which users of the Photon payment-channel
network delegate the defence of their channels while they are offline. A user
sends it the balance proof, the unlocks, punishes and secrets of a channel and
pays in SMT. When the channel is closed, the service puts the balance proof on
the chain before the settlement window ends, unlocks the locks and punishes a
partner who unlocks what it had given up.

This directory holds TLA+ modules that model the service, TLC configurations
that check them, and TLAPS proofs. Paths below are relative to the repository;
`PROJECT.json` maps every definition to source lines.

## 1. Inventory

| Component | State | Operations | Source |
|---|---|---|---|
| Event loop | last handled block; the handler's local rows | `handleBlockNumber` per notified block, one handler per channel event | `chainservice/events.go`, `helper.go` |
| Goroutines | the delegate row they were started with | update, then unlock; punish | `chainservice/events.go` |
| Delegation | a verified request | `VerifyDelegate` (reads the chain), `ReceiveDelegate` (one database transaction) | `rest/delegate.go`, `chainservice/verifier.go`, `verifier/verifier.go`, `models/service.go` |
| Delegate store | tables of delegates, monitors, punishes, disposes, last block | gorm queries, saves and deletions | `models/delegate*.go`, `blocknumber.go`, `db.go` |
| Fee account | total, used, locked, needed SMT of a delegator | lock, unlock, use, add, change of need | `models/account.go` |
| Deposit poller | table of received transfers | poll the Photon node, record, credit | `smt/listeningsmt.go`, `models/transfer.go` |
| Secret registration | the secrets of every delegate row, the execute records, the item in hand | `doDelegateSecrets` before the monitors of every block: records asked, fee locked, transaction awaited, record saved | `chainservice/events.go`, `models/delegate_secret.go`, `delegate_execute_record.go` |
| Event feed (vendored) | last notified block | notifies blocks, then the events of a block | `vendor/.../Photon/blockchain/events.go` |
| Contract (vendored) | channel records | open, withdraw, close, update, unlock, punish, settle | `vendor/.../contracts/TokensNetwork.sol` |
| Secret registry (vendored) | registered secrets | register, once | `vendor/.../contracts/SecretRegistry.sol` |
| Read-only queries, command line, start-up, debugging | none of interest | | `rest/query.go`, `cmd/`, `internal/debug` |

**Interactions.** The feed sends block notifications and events on one Go
channel. The loop consumes it alone. For a due monitor it starts a goroutine,
which waits for transactions and saves its row minutes later. HTTP handlers run
concurrently with all of them. Everything meets in one SQLite/gorm database;
only the storing of a delegation is a transaction. Nothing else locks anything.
Account rows are written by the loop (secrets), the goroutines, the HTTP
handlers and the poller.

**What is hard.**
Rows are read, kept across a call to the chain, and saved with all columns.
The chain is read in one step and the answer stored in another. Events are
handled after the fact, by a loop that lags behind the chain. A restart delivers
the whole chain again. Some gorm statements do more than they say (a struct
query drops zero fields, a delete without primary key has no condition, a save
of a missing row inserts it). A statement of the database may fail, and what then
happens differs from place to place: the error is logged and the rest given up, or
ignored, or overwritten, or it panics. `PROJECT.json` lists each hazard at its line.

**What makes each component correct.**

- Loop: no trigger missed (but the ones a failed statement costs), none started
  twice, none early; handlers leave no row half done.
- Goroutines: a started delegate is never armed again; the final status is true.
- Delegation: a stored delegate of a closed channel has its monitors; a stored
  nonce never goes back.
- Store: a deletion removes a delegate's records, only its own, and for good.
- Secrets: a due secret is tried soon and never early, and paid for once, when it
  was the service that registered it.
- Account: no overcharge, no overcredit, no overcommitment; locks are returned
  and successes charged; a delegation answered as covered is not refused its fee.
- Feed: as long as blocks are mined and the feed lives, triggers fire.

## 2. Modules

```
TokenNetwork            the contract and the chain of blocks
  DelegateStore         the database records, pure operations
    ChainEvents         loop + goroutines + handlers + faults   (state machine)
      MCChainEvents     instances for TLC
      ChainEventsTypes      type invariant, proved
        ChainEventsProofs   started once, never rearmed, implements DelegateLife, proved
          ChainEventsTriggers   no trigger missed, proved
            ChainEventsMonitors     settle blocks are monitored, proved
              ChainEventsLives      nothing of one life of a channel acts on another, proved
                ChainEventsTimely   updates start and are sent in time, proved
DelegateLife            what the service promises of a delegate  (abstract)
DelegateSecrets         registration of secrets by the loop     (state machine)
  MCDelegateSecrets     instance for TLC
  DelegateSecretsProofs secrets in time, not early, paid once, proved
Account                 the account row, pure operations
  FeeAccount            threads charging and crediting it       (state machine)
    MCFeeAccount        instances for TLC
    FeeAccountProofs    fee safety, proved
```

### TokenNetwork
`channel[c]` is the contract's record: state, open block, settle block, and per
party the nonce of the proof it signed that is on the chain. `blocks` is the
chain: the event of each block. A transaction is mined in a block of its own, so
time and events are one sequence. Actions are the contract's functions with
their `require`s. `updateBalanceProofDelegate` is accepted only in the second
half of the settlement window, and its signatures cover the open block. Balances,
lock roots, Merkle proofs and signature recovery are left out: they decide
nothing the properties tell apart.

### DelegateStore
A delegate row with key (channel, delegator), open block, settle block, status,
nonce and unlocks; a monitor row with type and block; punish and dispose rows.
The operators say what each gorm statement does to its table. Two history fields
are not columns: `gen` numbers the first delegations of a key (so two rows that
follow each other under one key can be told apart), and `due` records whether a
monitor's block was still to come when the monitor was made.

### ChainEvents
A step ends where another thread can run: at each database statement and each
call to the chain.

| Actions | Code |
|---|---|
| `ReceiveBlock`, `HandleSkipped`, `SkipMonitor`, `SpawnMonitor`, `ReadMonitored`, `MarkRunning`, `BlockDone` | `handleBlockNumber`: the skipped blocks first, then the notified one; monitors read, row read, status written, goroutine started, block saved |
| `MarkFails`, `HandleBlockFails` | `handleBlockNumber` when a statement fails: a status that cannot be written costs that trigger, monitors or a row that cannot be read the rest of the block, and the loop moves on |
| `HandleClosed`, `ReadSettleBlock`, `SaveClosed`, `AddClosedMonitor` | `handleClosedStateChange` |
| `HandleBalanceProofUpdated`, `SaveByOther` | `handleBalanceProofUpdatedStateChange` |
| `HandleSettledOrWithdraw`, `DeleteDelegate` | the settled, cooperative-settled and withdraw handlers |
| `HandlerFails`, `DeleteFails` | the handlers when the delegates cannot be read or the chain cannot be asked (the event is given up), and `DeleteDelegate` when a statement fails (only the error of the last one is seen) |
| `UbpLock`, `UbpTx`, `UbpSave`, `UnlockLock`, `UnlockTx`, `UnlockSave` | `doDelegateUpdateBalanceProof`, `doDelegateUnlocks` |
| `PunishLock`, `PunishTx`, `PunishSave` | `doDelegatePunishes` |
| `VerifyDelegate`, `ReceiveFirst`, `ReceiveAgain` | the HTTP handler of a delegation |
| `ReceiveFails`, `ReceiveHalf` | the same when a statement fails: rolled back, or, where adding a monitor panics, committed without the delegate |
| `Crash` | the process stops anywhere and starts again; memory is lost, the database stays, `GetLatestBlockNumber` returns 0 |
| `AlarmFails` | one failed `HeaderByNumber` ends the feed |

**Failed statements.** Every statement of the database whose error the code logs,
ignores or answers may fail, `MaxFaults` times in a behaviour (so may a chain call,
and the feed); `dropped` is the history of the triggers this costs: the delegates
whose turn in a block had not come when a statement of it failed. Statements that
panic in the loop or in a goroutine (`UpdateObject`, `AddDelegateMonitor`,
`GetAllDelegate`, `SaveDelegateExecuteRecord`, the lists a goroutine reads) end the process: they are `Crash`,
which may happen before each of them. The two saves of `AddDelegateMonitor` in the
close handler, which are not in a transaction, are one step; inside a delegation's
transaction they are told apart (`ReceiveHalf`). A panic in an HTTP handler is
recovered by the server and ends nothing.

A transaction a goroutine sends is mined and reported, mined after `WaitMined`
gave up, or fails. The outcome of `AccountLockSmt` is a free choice here. All
unlocks of a delegate that succeed are mined in one block. The monitors of one
block, and the rows of one event, are handled in any order (the queries have no
`ORDER BY`). A request with nothing but secrets, which `VerifyDelegate` accepts, is
one with an empty proof and no locks here.

### DelegateLife
The abstract specification: delegations of a key are numbered, a delegate is
armed or not, and only the newest delegation of a key is ever started, once. No
database, chain or goroutine. `ChainEvents` implements it (`ImplementsLife`) with
`accepted <- gen`, `armed <-` the keys whose row has status "init", and
`started <- launched`. `Rearm` is in it because the service does it: a row read
while it was armed may be saved after somebody marked or deleted it. The
specification says when that is harmless, and the refinement that it is always so.

### DelegateSecrets
Every call of `handleBlockNumber` first works through the secrets of all
delegates. Of a delegate row this module keeps only the secrets; the loop waits
for each transaction while the chain, HTTP handlers and goroutines go on.

| Actions | Code |
|---|---|
| `ReceiveBlock`, `HandleSkipped`, `BlockDone` | `handleBlockNumber`: the skipped blocks by recursive calls, then the notified block. `LastBlockNumber` is the argument of `doDelegateSecrets`: the block before in a recursive call, the number read before the recursion in the outermost one |
| `SkipSecret` | a record of a success says it is registered, or the fee cannot be locked (a free choice) |
| `RegisterSecret` | no record of a success, or the query for it fails (any error reads as "not registered") |
| `RegisterSecret`, `ReceiveReceipt`, `WaitFails`, `SaveDelegateExecuteRecord` | `doRegisterSecret`: transaction created or not, `WaitMined` returning or giving up, the deferred save of the record |
| `MineRegister`, `OtherRegisters`, `MineAbandoned` | `registerSecret` of the contract: by the service, by somebody else, by a transaction the service no longer waits for |
| `ReceiveDelegate`, `DeleteDelegate`, `ReadRow`, `SaveRow` | what changes the secrets of a row: a delegation, a channel event, and a goroutine that saves all columns of the row it was started on |
| `Crash` | memory is lost, a transaction under way may still be mined |
| `AlarmFails` | one failed `HeaderByNumber` ends the feed |

`untried` is history: the stored items that were not tried since they were
stored, with the block the loop was at.

The module is not composed with ChainEvents into one state machine: the two
share the block loop and the rows, but neither reads what the other writes
(secrets do not depend on status or monitors, nor the other way round; that a
channel event deletes a row is possible here whenever the loop is between two
blocks). What the
wait for a transaction does to ChainEvents is the lag of the loop, which
ChainEvents has.

### FeeAccount
Every operation on the row is two steps, a read and a save of all columns (a
deposit: of one), by concurrent workers: the loop registering a secret, an
update goroutine, a punish goroutine per delegate, the poller, and delegations
as one transaction. When a worker runs is left open; ChainEvents decides that,
so FeeAccount has at least the behaviours of the service. `accountSanity`
panics end the process, which restarts. The answer to a delegation
(`AccountIsBalanceEnough` in the HTTP handler, after the transaction) is a step of
its own; a panic there is recovered by the HTTP server. `answer` keeps what the
last delegation of a watched delegate was told. Amounts are unbounded `big.Int`s; their storage as bytes drops
the sign, which `Magnitude` models.

Statements may fail here too, `MaxFaults` times. A row that cannot be read is one of
zeros (`Reads`); one that cannot be saved leaves what is stored, and refuses the work
when it was to lock its fee (`SaveLockFails`); in a delegation the failed save panics
after the delegate is written, and the delegation is committed without being charged
(`ReceiveUncharged`). `NewReceiveTransferFromReceiveTransfer` takes a transfer as new
if the query for its record fails, and also if the record cannot be saved: the transfer
is credited, and credited again by a later poll. That is what the code does, so
`deposited`, the bound in two properties, counts a transfer once, and once more for
each such failure (`credits` is what is still allowed). With that allowance left out
TLC refutes both properties with a single failed statement: 3 SMT transferred are shown
as 6, and more is locked than was transferred.

`MayReplace` leaves the charge for punishes free, because deleting another delegate
empties the punish table and the sum may shrink.

## 3. Runs

Passing runs:

| Run | Checks | Distinct states |
|---|---|---|
| Lifecycle | `NoMissedTrigger`, `SettleIsMonitored`, `SettleOfThisLife`, `DeletesOldLives` over open, withdraw, cooperative settle, close and settle, with a failing statement or call | 1.0 M |
| Lives | `StartedOnTime`, `TriggerStarts` for a channel closed, settled, opened and closed again, with a failing statement or call | 1.0 M |
| Restart | `TypeOK`, `StartedAtMostOnce`, `NeverRearmed`, `NoMissedTrigger`, `SettleIsMonitored`, `UnlocksAfterUpdate`, `SentInWindow`, `ImplementsLife`: goroutines racing the loop and later delegations, a crash at any step and the replay after it, a failing statement or call | 2.8 M |
| Secrets | `TypeOK`, `TriedInTime`, `NeverTriedEarly`, `ChargedForOwn`, `DueIsTried`, with a crash and a failing query or feed | 0.7 M |
| Fees | `TypeOK`, `NoOvercharge`, `NoOvercredit`, `CommittedWithinDeposits`, with a crash and a failing statement | 2.4 M |
| Panic | `NoOvercharge`, `CommittedWithinDeposits` where `accountSanity` panics | 0.5 M |

- `StartedAtMostOnce`: replays and duplicated monitors never start an update twice.
- `NeverRearmed`: no stale save brings a started delegate back to "init".
- `ImplementsLife`: ChainEvents implements DelegateLife.
- `NoMissedTrigger`: although block notifications are not contiguous, a monitor
  made in time has acted once the loop is past its block. The exception is a delegate
  in `dropped`: a statement failed in this very block before, or while, it was marked,
  and the code has no retry (without the exception TLC refutes it with one failed
  statement). Failures in other blocks, in the handlers, in requests and in goroutines,
  or after the delegate's turn, cost no trigger.
- `SettleIsMonitored`: a stored settle block has both monitors, or they are about
  to be added, or (after a crash) the close event is delivered again. After a
  restart this is so of delegates not started yet; a crash followed by a failed
  call does lose their monitors, so that combination is excluded.
- `SettleOfThisLife`: a row made for the life of the channel that lasts (its open
  block is the channel's) has that life's settle block or none. The close handler
  reads the settle block after the row, and a request carries both across a wait, so
  a channel settled and opened again in between could mix them.
- `DeletesOldLives`: a settle, cooperative settle or withdraw event deletes by channel,
  whenever it is handled or replayed. What it deletes is of a life that is over, or of
  one that began with the event or after it. (The second case is a loss too, see
  `DeletesOnlyVoided` below; this says it is the only one.)
- `UnlocksAfterUpdate`: a goroutine that goes on to the unlocks without having failed
  has its proof, or a newer one, on the chain, as long as the life of the channel
  lasts. After a failed update it goes on too, marked "failed": that is the code.
- `StartedOnTime`: until a restart, and while the feed is not further behind than
  `RevealTimeout`, an update never starts earlier than `RevealTimeout` blocks
  before the settle block its row has. If the row is of the life of the channel that
  lasts, the channel is closed and the block is exactly `RevealTimeout` before its
  settle block. A delegation verified in one life of a channel and stored in the next
  may be started by a monitor of the next, later than its own block; its update is
  void. A feed further behind may see a reopened channel's settle block while it
  handles the first close; after a restart run EarlyStart refutes it.
- `SentInWindow`: under the same conditions, and if `RevealTimeout` fits into the
  second half of the settlement window, no update of a life that lasts is sent before
  the channel is closed and the contract takes it. The service has `RevealTimeout` 30
  and the contract opens channels with settle timeouts from 6 blocks on; those under 58
  are outside the premise and their updates are sent too early.
- `TriggerStarts`: a delegate with a monitor made in time does not stay in "init" for
  ever; it is started, marked or deleted, unless a failed statement costs that trigger
  or the feed ends. It is stated as "again and again not waiting, or the feed dead",
  which is the same as leads-to here and needs no memory of when the wait began.
- `TriedInTime`: when the loop has finished with block n, every secret stored by
  the time it was at n - 2 and due by then was tried. The stale argument of the
  outermost call costs one block, not the length of the jump.
- `NeverTriedEarly`: a secret is published only when its block is behind the loop.
- `ChargedForOwn`: a secret is paid once at most, and only if the service's own
  transaction registered it: retries, a shared secret, a crash between the
  transaction and its record, somebody else's registration included.
- `DueIsTried`: every stored secret that is due is tried or replaced in the end,
  unless the feed ends.
- `NoOvercharge`, `NoOvercredit`, `CommittedWithinDeposits`: lost updates of the
  account row always err in these three directions, and failed statements as well,
  except for the transfers credited again, which the last two count as deposited.

Violation runs. Each checks one statement of a comment or a test that the code
does not keep; `PROJECT.json` quotes it.

| Run | Statement refuted | Cause |
|---|---|---|
| EarlyStart | monitors are returned for their block only (`StartedWhenDue`) | the query for block 0 has no condition, and a restart notifies block 0 |
| DeleteAll | a deletion concerns the records of one delegate (`DeletesOwnRecords`) | punish and dispose rows are deleted without a condition |
| StaleSave | a nonce never becomes smaller (`NonceNeverRegresses`) | the close handler saves rows read before its chain call |
| LateStore | the first delegation or the close event adds monitors, an outdated row was deleted (`StoredMatchesChain`) | verified before the close or withdraw, stored after its event |
| WrongStatus | finished by the delegator itself (`FinishedIsUpdated`) | the event names the partner of the party that updated |
| Answer | status 3, "the balance is sufficient" (`EnoughIsEnough`) | the first deposit saves an empty row over the one the delegation made |

Further disagreements, found the same way. The definitions are in the modules;
each is refuted by TLC when it replaces the properties of the configuration
named, with `MaxFaults = 0`.

| Definition | Instance | Statement refuted | Cause |
|---|---|---|---|
| `FailsOnlyForOther` | MCSecrets | `chainservice/events.go:381`: a registration fails only because somebody else registered the secret | the transaction cannot be created, `WaitMined` gives up, or a crash lost the record of the service's own registration, which is then never charged |
| `TotalNeverShrinks` | MCFees, two transfers | `models/account.go:18`: the total "only grows" | a stale save takes a deposit back |
| `SuccessIsCharged` | MCFees | `chainservice/events.go:516`: a success is charged | a stale save takes the charge back |
| `LockIsReturned` | MCFees | `models/account.go:20`: a lock is used or returned | a crash between the two |
| `RefusedOnlyForBalance` | MCFees | `models/account.go:22`: `NeedSmt` is only for queries | it refuses work: zeroed by a racing first deposit, drained by failed secrets |
| `DeletesOnlyVoided` | MCLifecycle | `chainservice/events.go:202`: the *earlier* delegations of the channel can be deleted | deletions are by channel, not by open block: an event handled late deletes delegates made after it, for the next life |
| `SuccessIsUpdated` | MCRestart, `Delegation <- DisposedLock` | `models/delegate.go:27`: "all success finished" | the unlocks' outcome overwrites that of the failed update |

A feed that ended is not started again, although `vendor/.../blockchain/events.go:119`
says that events "can duplicate but cannot lose": `TriggerStarts` and `DueIsTried`
except it, and are refuted without the exception.

Some more things the model shows and no document speaks of. A goroutine's save
inserts again the row that a settlement or withdraw deleted while it ran (never
to be started: `ImplementsLife`). A crash after the status was written leaves a
delegate running for ever, whether or not its transaction was sent. One failed
statement loses a trigger for good, credits a transfer twice, leaves a delegate of a
dead channel behind its deleted punishes (and in the way of the next delegation), or
commits half a delegation.

### Bounds
Channels are independent but for the punish and dispose tables, so one channel
is used (two in DeleteAll). Each has its two parties and one lock.

- Lifecycle: settle timeout 2, `RevealTimeout` 1, the smallest values with a
  trigger block strictly between close and settlement and a delegate window that
  is not the whole settlement window. Five blocks hold open, close, trigger,
  settle and settlement, or a withdraw or cooperative settlement and a second
  life up to its trigger. `MaxLag` 3 lets the loop be behind by more than the
  distance from trigger to settle block. The delegation asks for a punish and no
  proof (what is sent is Restart's question); two goroutine slots. One fault.
- Lives: settle timeout 1, `RevealTimeout` 0 and seven blocks hold two whole lives
  of a channel. `MaxLag` 0 (one block behind) is what the premise of
  `StartedOnTime` allows there. What the goroutines do does not matter here, so
  there is one slot and a delegation that gives them nothing to send. One fault.
- Restart: settle timeout 3, `RevealTimeout` 2, `MaxLag` 2, four blocks: close,
  trigger and the window of delegated updates, with `RevealTimeout` at the limit
  of `SentInWindow`'s premise. One crash, one fault, one unstored request. One
  goroutine slot: a goroutine races the loop, the HTTP handlers and the chain, not
  another goroutine. Two slots with a fault do not fit into the time of a run; the
  proofs hold for any number of them.
- Secrets: two delegates sharing a secret with different register blocks; four
  blocks, so that the feed can skip two; one crash, one fault. Goroutines hold
  one row at a time.
- Violation runs use the smallest instance with the case: two nonces in StaleSave,
  two channels in DeleteAll, a crash in EarlyStart, one delegation and one deposit
  in Answer.
- Fees: one delegate with a secret and an update worker, two delegations, a transfer
  worth three fees that may be polled at any time, one crash and one fault: enough
  for a transfer credited twice and both credits locked. Panic: two
  delegates with fees so unequal that lost updates can leave more used than
  received; equal transfers and the delegates are interchangeable (symmetry).

A run with one fault has every place a statement may fail at, one at a time; the
theorems are for any number.

`CHECK_DEADLOCK FALSE`: a bounded chain ends, and a service whose feed has died
does nothing more.

### Fairness
`TriggerStarts` and `DueIsTried` assume weak fairness of mining (blocks keep
coming) and of the loop, `TriggerStarts` also of each goroutine (the Go scheduler
runs every runnable goroutine, and calls, `WaitMined` included, return within a
timeout; so a transaction that is never mined does not stop the loop). No fairness is assumed of users, HTTP
handlers, successes of transactions, the choice of the notified block or faults.
Each fair action stays enabled until it is taken, so strong fairness is not
needed. `MaxLag` delays mining until the feed moves on; it never blocks the loop.

## 4. Proofs

All theorems hold for every value of the constants allowed by the named
assumptions: any channels, locks, delegations, timeouts, lag, number of
goroutines, crashes and faults; any secrets; any fees, transfers and delegates.

**`ChainEventsTypes`: `TypeCorrect`, Spec => []TypeOK.** The type says that the
loop never handles a block the chain does not have. That is not inductive:
`HandleSkipped` handles `blockNumber + 1`. `TypeInv` adds that while skipped
blocks are handled `blockNumber < goal`, and that a block whose event is being
handled has one. One step per action.

**`ChainEventsProofs`: `NeverStartedTwice` ([]StartedAtMostOnce) and
`StartedStaysStarted` ([]NeverRearmed).** A stale copy of a row in status "init"
is what could rearm a delegate. `StartInv` adds to `TypeInv` that every copy in
flight is harmless: a row, or a copy the loop holds, that was started is not
"init" (`RowsInv`, `CopiesInv`); what a goroutine saves is never "init"
(`GoroutinesInv`); and a number in `launched` was given out before, so a new
delegation is a new number (`LaunchedInv`). The argument is that only the loop
starts updates, and that it holds no copy of a channel event while it handles a
block: it cannot save an "init" row that it read before its own start.

**`ChainEventsProofs`: `ServiceImplementsLife`, Spec => ImplementsLife.** The
refinement, from `StartInv` and one more invariant. `NewestInv` says that a stored
row, and the copies the close handler and the monitor loop hold, are of the newest
delegation of their key, and that the rows behind those copies exist: only the loop
deletes rows, and a first delegation needs a missing one. Every action then falls
into one of a few kinds (it saves a finished row, saves a copy of the newest,
starts, accepts, deletes, touches no status), and each kind is a step of
DelegateLife or a stutter.

**`ChainEventsTriggers`: `NoTriggerIsMissed`, Spec => []NoMissedTrigger.**
`TriggersInv` adds that a copy the loop may save is not one that missed its trigger
(`CopiesNotMissed`), that within a block an armed delegate with a due monitor is
still in the loop's list, being marked, or in `dropped` (`BlockTriggersInv`), that a monitor is of
a delegation that was made, so that no later one inherits it (`MonitorsKnown`), and
where the feed and the loop are relative to each other (`FeedInv`). A monitor is
"due" if its block was not mined when it was made, so the loop cannot be past it.
Triggers in `dropped` are not due in these invariants. A half-stored delegation leaves
a monitor of number 0, which no delegation has.

**`ChainEventsMonitors`: `SettleBlocksAreMonitored`, Spec => []SettleIsMonitored.**
`MonitoredInv` has two halves, because a crash changes what is true. Until the
first crash every settle block in a row, or in a copy that may be saved, is covered
by monitors or being covered (`UnrestartedInv`). After it only of armed rows, which
are covered, or whose close event is still ahead of the feed (`ArmedInv`): a
goroutine never saves an armed row, and the loop saves one only while it handles
that event. `EventInv` says which event the loop is at, and that the feed jumps
over none.

**`ChainEventsLives`: `SettleBlocksOfOneLife` ([]SettleOfThisLife),
`UnlocksFollowUpdates` ([]UnlocksAfterUpdate) and `DeletionsAreOfOldLives`
([]DeletesOldLives).** No premise: restarts, faults and any lag are included. A life
of a channel is named by its open block. The central fact is about one step of the
chain (`LifeStays`): a life that lasts after the step lasted before it, or began in
the block just mined; within a life the settle block is set once and the nonces only
grow. `HeldInv` says of every row, goroutine, copy of the loop and unstored request
that its life has begun (open block between 1 and the height) and, if it lasts, its
settle block is the channel's or 0 (`Lived`). The settle block alone would not do: a
copy of a life not begun yet could be caught up by it. `Updated` is the same kind of
statement about nonces (`ProofOnChain`: the contract has it), `OpenInv` puts the present life after every event that ended
one, and `DeletingInv` says which event the deleting loop is at.

**`ChainEventsTimely`: `UpdatesStartOnTime` ([]StartedOnTime) and
`UpdatesAreSentInWindow` ([]SentInWindow).** A settle block is read at one time and
acted on at another. `SettlesInv` says that each one the service holds, in a row, a
monitor, a copy or a request, is still the channel's or its time is over: it is
mined, and the feed is past the block of its update (`Seen`). A settlement takes a
settle block from a channel only after that block, when by the bound on the lag the
feed is past the update; transactions of the service do not change it (`SeenStays`).
The loop handles blocks ahead of the feed (`PositionInv`), so a monitor it finds there
is of the channel's present settle block, and the row it starts, if it is of the
present life, is due at this very block. From then on `LifeStays` keeps the channel
closed with that settle block until the life is over, so the update is still in its
window when it is sent (`SentOnTime`). Both theorems have the properties' premises: no
restart so far, `MaxLag` at most `RevealTimeout`.

**`DelegateSecretsProofs`: `TypeCorrect`, `NoSecretOverlooked`,
`NothingPublishedEarly`, `OnlyOwnRegistrationCharged`.** `IInv` follows the calls
of `handleBlockNumber` (`CallInv`: which block, goal and argument belong together).
While a block is handled, an item that waits is newer than the block, not due for
its argument, or in the loop's hands (`HandsInv`); after a jump the outermost call,
whose argument is stale, is saved by the recursive call just before it (`JumpInv`).
What is in the loop's hands is not ahead of the argument (`EarlyInv`). For the
charges, `CurInv` says that the secret being registered has no record yet, and that
a receipt or status of success means the registry names the service.

**`FeeAccountProofs`: `FeeTypeCorrect`, `NeverOvercharged`, `NeverOvercredited`,
`NeverOvercommitted`.** `IInv` says that every row that may still be saved, the
account, the row each worker holds and the row the poller holds, is `Sound`:
charged at most what was reported as successful, with room for the deposit under
way, committed within the deposits. A row of zeros, which is what a failed read
gives, is sound too, and `deposited` grows before each credit it allows. Saving a sound row, however stale, is then
safe. Lemmas say that each account operation keeps a row sound.

The inductive invariants were model-checked before they were proved.

Only model-checked: `TriggerStarts` and `DueIsTried` (liveness is outside the
prover's reach), and all the violation runs. Not stated, because they are false or say
no more: a `NoMissedTrigger` for punish monitors (a row that a goroutine's save brought
back can meet a punish monitor of the next life when `RevealTimeout` exceeds the settle
timeout); the exact balance of the account when workers do not overlap (a sum over
workers, which is induction over data).

## 5. Not modelled

- Chain reorganisations, and the feed's repeated queries of recent blocks with
  their de-duplication. Fork confirmation (`EnableForkConfirm`), which delays
  events, is off by default.
- Statements of the database that fail between the two saves of `AddDelegateMonitor`
  in the close handler (section 2), and corrupt answers of it. All other failing
  statements are modelled.
- Signatures and encodings: a request is accepted or is not an input.
- `DebugMode`, which skips the checks of `updateDelegate`.
- Whether the poller runs at all: it is started only if a fee is not zero.
- Timestamps, error texts, the execute records of updates, unlocks and punishes
  (written, never read by the service), REST queries, command line, key handling,
  debugging.

## 6. Plan

Done: contract, store, loop, goroutines, delegations, faults, secrets, fee account
with the answers to delegations, the abstract life cycle; the theorems of section 4.

Next, in this order:

1. Timely service from end to end: without faults the balance proof is on the
   chain before the settlement, if the settle timeout is long enough. The safety half
   is `UpdatesAreSentInWindow`; what is left is liveness.
2. What a restart leaves true of `StartedOnTime`: only what block 0 starts is early.
3. Re-queried and late events of the feed; both parties as delegators.
