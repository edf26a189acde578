-------------------------- MODULE DelegateSecrets ---------------------------
(***************************************************************************)
(* The registration of secrets: doDelegateSecrets, which the event loop    *)
(* runs for every block before it looks at the monitors, the execute       *)
(* records it leaves, and the contract SecretRegistry.                     *)
(*                                                                         *)
(* Of a delegate row only the secrets are kept; a key without a row has    *)
(* none.  The loop waits for each transaction, while the chain, the HTTP   *)
(* handlers and the goroutines go on.  Whether AccountLockSmt finds the    *)
(* money is a free choice (see FeeAccount).                                *)
(***************************************************************************)
EXTENDS Integers, FiniteSets

CONSTANTS
    Key,            \* delegate keys
    Secret,
    Ask,            \* the delegations users send: a key and its list of secrets
    MaxBlock,       \* bound: length of the chain explored
    MaxCrashes,     \* bound: restarts of the service
    MaxFaults       \* bound: failed calls to the chain node, failed queries

\* DelegateSecret: a secret and the block it is to be registered at.
Item == [secret : Secret, at : Nat]

ASSUME AskAssumption == Ask \subseteq [key : Key, items : SUBSET Item]
ASSUME NonEmptyAssumption == Key # {} /\ Secret # {}
ASSUME SecretBoundAssumption == MaxBlock \in Nat \ {0} /\ MaxCrashes \in Nat
                                /\ MaxFaults \in Nat

VARIABLES
    \* the chain
    height,         \* newest block
    registry,       \* SecretRegistry: who registered a secret
    abandoned,      \* secrets with a transaction nobody waits for, not mined yet
    \* the database
    secrets,        \* SecretsGobBytes of every delegate row
    records,        \* number of records of a successful registration
    \* the memory of the process
    alarm,          \* the feed is running
    fresh,          \* block 0 is still to be notified
    blockNumber,    \* ChainEvents.blockNumber
    goal,           \* the notified block, whose call of handleBlockNumber is outermost
    last,           \* lastBlockNumber of that call
    pc,             \* what the loop does next
    todo,           \* items of GetAllDelegate still to be looked at
    cur,            \* the item being registered
    receipt,        \* the receipt of its transaction
    status,         \* ExecuteStatus of its record
    held,           \* rows a goroutine has read and may save
    \* history and bounds
    untried,        \* stored items not tried since they were stored
    crashes,
    faults

chainVars == <<height, registry, abandoned>>
dbVars == <<secrets, records>>
loopVars == <<alarm, fresh, blockNumber, goal, last, pc, todo, cur, receipt, status>>
vars == <<chainVars, dbVars, loopVars, held, untried, crashes, faults>>

Entry == [key : Key, secret : Secret, at : Nat]

\* Of a DelegateExecuteRecord its status is kept, and its secret (cur).
ExecuteStatus == {"notExecute", "success", "error"}

\* An item that waits, and the block the loop was at when it was stored.
Waiting == [key : Key, secret : Secret, at : Nat, since : Nat]

SomeEntry ==
    [key |-> CHOOSE k \in Key : TRUE, secret |-> CHOOSE s \in Secret : TRUE, at |-> 0]

\* Types, and: the loop never handles a block that the chain does not have.
TypeOK ==
    /\ height \in 1 .. MaxBlock
    /\ registry \in [Secret -> {"none", "service", "other"}]
    /\ abandoned \subseteq Secret
    /\ secrets \in [Key -> SUBSET Item]
    /\ records \in [Secret -> Nat]
    /\ alarm \in BOOLEAN
    /\ fresh \in BOOLEAN
    /\ blockNumber \in 0 .. height
    /\ goal \in 0 .. height
    /\ last \in 0 .. height
    /\ pc \in {"idle", "skipped", "secrets", "wait", "save"}
    /\ todo \subseteq Entry
    /\ cur \in Entry
    /\ receipt \in {"none", "ok", "reverted"}
    /\ status \in ExecuteStatus
    /\ held \subseteq [key : Key, items : SUBSET Item]
    /\ untried \subseteq Waiting
    /\ crashes \in 0 .. MaxCrashes
    /\ faults \in 0 .. MaxFaults

\* NewChainEvents and Start: the feed starts from block 0 again.
Started ==
    /\ alarm' = TRUE
    /\ fresh' = TRUE
    /\ blockNumber' = 0 /\ goal' = 0 /\ last' = 0
    /\ pc' = "idle"
    /\ todo' = {}
    /\ cur' = SomeEntry /\ receipt' = "none" /\ status' = "notExecute"
    /\ held' = {}

Init ==
    /\ height = 1
    /\ registry = [s \in Secret |-> "none"]
    /\ abandoned = {}
    /\ secrets = [k \in Key |-> {}]
    /\ records = [s \in Secret |-> 0]
    /\ alarm = TRUE
    /\ fresh = TRUE
    /\ blockNumber = 0 /\ goal = 0 /\ last = 0
    /\ pc = "idle"
    /\ todo = {}
    /\ cur = SomeEntry /\ receipt = "none" /\ status = "notExecute"
    /\ held = {}
    /\ untried = {}
    /\ crashes = 0
    /\ faults = 0

Fault == faults < MaxFaults /\ faults' = faults + 1

EntryOf(k, i) == [key |-> k, secret |-> i.secret, at |-> i.at]

\* The item of e leaves the items not tried yet.
Tried(e) ==
    untried' = {w \in untried : ~(w.key = e.key /\ w.secret = e.secret /\ w.at = e.at)}

-----------------------------------------------------------------------------
(* handleBlockNumber.                                                      *)

\* The feed: block 0 at the start, block 1 (which deployed the contracts),
\* and then any later block.
NextNotified(n) ==
    IF fresh THEN n = 0
    ELSE IF blockNumber = 0 THEN n = 1 ELSE blockNumber < n

\* Skipped blocks are handled first, except after a start (last block 0).
MutantSkipsBlocks(n) == n
MutantOneTooFar(n) == n + 1
FirstToHandle(n) ==
    IF blockNumber # 0 /\ blockNumber < n - 1 THEN blockNumber + 1 ELSE n

\* The argument of doDelegateSecrets in the handling of block n: a recursive
\* call has just seen block n - 1, the outermost call keeps the number it
\* read before the recursion.
MutantStaleArgument(n, g, l) == l
MutantCurrentBlock(n, g, l) == n
LastBlockNumber(n, g, l) == IF n < g THEN n - 1 ELSE l

\* handleBlockNumber(n), inside the call for g: doDelegateSecrets takes the
\* items that are due from all delegates.
HandleBlock(n, g, l) ==
    /\ blockNumber' = n
    /\ todo' = UNION {{EntryOf(k, i) : i \in {x \in secrets[k] :
                                                 x.at <= LastBlockNumber(n, g, l)}} :
                         k \in Key}
    /\ pc' = "secrets"
    /\ UNCHANGED <<chainVars, dbVars, cur, receipt, status, held, untried, crashes,
                   faults>>

\* The loop takes a BlockStateChange from the channel.
ReceiveBlock ==
    /\ pc = "idle" /\ alarm
    /\ \E n \in 0 .. height :
          /\ NextNotified(n)
          /\ goal' = n
          /\ last' = blockNumber
          /\ HandleBlock(FirstToHandle(n), n, blockNumber)
    /\ fresh' = FALSE
    /\ UNCHANGED alarm

HandleSkipped ==
    /\ pc = "skipped"
    /\ HandleBlock(blockNumber + 1, goal, last)
    /\ UNCHANGED <<alarm, fresh, goal, last>>

\* doDelegateSecrets returns; the monitors of the block are another module's.
BlockDone ==
    /\ pc = "secrets" /\ todo = {}
    /\ pc' = IF blockNumber < goal THEN "skipped" ELSE "idle"
    /\ UNCHANGED <<chainVars, dbVars, alarm, fresh, blockNumber, goal, last, todo, cur,
                   receipt, status, held, untried, crashes, faults>>

-----------------------------------------------------------------------------
(* doDelegateSecrets, for one secret of one delegate.                      *)

HasSecretAlreadyRegister(s) == records[s] > 0

\* The secret was registered for this delegate or another one, or the fee
\* cannot be locked.
SkipSecret(e) ==
    /\ pc = "secrets" /\ e \in todo
    /\ todo' = todo \ {e}
    /\ Tried(e)
    /\ UNCHANGED <<chainVars, dbVars, alarm, fresh, blockNumber, goal, last, pc, cur,
                   receipt, status, held, crashes, faults>>

\* There is no record of the secret, or the query for it fails (any error reads as
\* "not registered"): doRegisterSecret creates the transaction, or fails to and
\* saves the record.
RegisterSecret(e) ==
    /\ pc = "secrets" /\ e \in todo
    /\ \/ ~HasSecretAlreadyRegister(e.secret) /\ UNCHANGED faults
       \/ HasSecretAlreadyRegister(e.secret) /\ Fault
    /\ todo' = todo \ {e}
    /\ cur' = e
    /\ receipt' = "none"
    /\ \/ pc' = "wait" /\ status' = "error"
       \/ pc' = "save" /\ status' = "notExecute"
    /\ UNCHANGED <<chainVars, dbVars, alarm, fresh, blockNumber, goal, last, held,
                   untried, crashes>>

\* SecretRegistry.registerSecret reverts if the secret is registered.
Registered(s, who) ==
    registry' = IF registry[s] = "none" THEN [registry EXCEPT ![s] = who] ELSE registry

MineRegister ==
    /\ pc = "wait" /\ receipt = "none"
    /\ receipt' = IF registry[cur.secret] = "none" THEN "ok" ELSE "reverted"
    /\ Registered(cur.secret, "service")
    /\ UNCHANGED <<height, abandoned, dbVars, alarm, fresh, blockNumber, goal, last, pc,
                   todo, cur, status, held, untried, crashes, faults>>

\* The status doRegisterSecret gives to its record, from the receipt.
MutantReceiptUnchecked(r) == "success"
ReceiptStatus(r) == IF r = "ok" THEN "success" ELSE "error"

\* WaitMined returns the receipt ...
ReceiveReceipt ==
    /\ pc = "wait" /\ receipt # "none"
    /\ status' = ReceiptStatus(receipt)
    /\ pc' = "save"
    /\ UNCHANGED <<chainVars, dbVars, alarm, fresh, blockNumber, goal, last, todo, cur,
                   receipt, held, untried, crashes, faults>>

\* ... or gives up; the transaction may still be mined.
Abandon ==
    abandoned' = IF pc = "wait" /\ receipt = "none" THEN abandoned \cup {cur.secret}
                 ELSE abandoned

WaitFails ==
    /\ pc = "wait"
    /\ Abandon
    /\ pc' = "save"
    /\ UNCHANGED <<height, registry, dbVars, alarm, fresh, blockNumber, goal, last, todo,
                   cur, receipt, status, held, untried, crashes, faults>>

\* SaveDelegateExecuteRecord, and AccountUseSmt after a success.
SaveDelegateExecuteRecord ==
    /\ pc = "save"
    /\ records' = IF status = "success" THEN [records EXCEPT ![cur.secret] = @ + 1]
                  ELSE records
    /\ Tried(cur)
    /\ cur' = SomeEntry
    /\ receipt' = "none"
    /\ status' = "notExecute"
    /\ pc' = "secrets"
    /\ UNCHANGED <<chainVars, secrets, alarm, fresh, blockNumber, goal, last, todo, held,
                   crashes, faults>>

LoopStep ==
    \/ ReceiveBlock \/ HandleSkipped \/ BlockDone
    \/ \E e \in todo : SkipSecret(e) \/ RegisterSecret(e)
    \/ ReceiveReceipt \/ WaitFails \/ SaveDelegateExecuteRecord

-----------------------------------------------------------------------------
(* Everything else that touches the secrets of a delegate.                 *)

\* The row of k is written with these secrets.
StoreSecrets(k, items) ==
    /\ secrets' = [secrets EXCEPT ![k] = items]
    /\ untried' = {w \in untried : w.key = k => [secret |-> w.secret, at |-> w.at] \in items}
                  \cup {[key |-> k, secret |-> i.secret, at |-> i.at, since |-> blockNumber] :
                           i \in items \ secrets[k]}

\* updateDelegate replaces all secrets, whatever the status of the delegate.
ReceiveDelegate(r) ==
    /\ StoreSecrets(r.key, r.items)
    /\ UNCHANGED <<chainVars, records, loopVars, held, crashes, faults>>

\* DeleteDelegate, by the loop when it handles a channel event.
DeleteDelegate(k) ==
    /\ pc = "idle"
    /\ StoreSecrets(k, {})
    /\ UNCHANGED <<chainVars, records, loopVars, held, crashes, faults>>

\* A goroutine is started on a row ...
ReadRow(k) ==
    /\ held = {}
    /\ held' = {[key |-> k, items |-> secrets[k]]}
    /\ UNCHANGED <<chainVars, dbVars, loopVars, untried, crashes, faults>>

\* ... and UpdateObject saves every column of it, the secrets included.
SaveRow(r) ==
    /\ StoreSecrets(r.key, r.items)
    /\ held' = held \ {r}
    /\ UNCHANGED <<chainVars, records, loopVars, crashes, faults>>

-----------------------------------------------------------------------------
(* The chain, and a restart.                                               *)

Mine ==
    /\ height < MaxBlock
    /\ height' = height + 1
    /\ UNCHANGED <<registry, abandoned, dbVars, loopVars, held, untried, crashes, faults>>

OtherRegisters(s) ==
    /\ Registered(s, "other")
    /\ UNCHANGED <<height, abandoned, dbVars, loopVars, held, untried, crashes, faults>>

MineAbandoned(s) ==
    /\ s \in abandoned
    /\ abandoned' = abandoned \ {s}
    /\ Registered(s, "service")
    /\ UNCHANGED <<height, dbVars, loopVars, held, untried, crashes, faults>>

Crash ==
    /\ crashes < MaxCrashes
    /\ crashes' = crashes + 1
    /\ Abandon
    /\ Started
    /\ UNCHANGED <<height, registry, dbVars, untried, faults>>

\* One failed call to the chain node ends the alarm task of the feed for good.
AlarmFails ==
    /\ alarm
    /\ Fault
    /\ alarm' = FALSE
    /\ UNCHANGED <<chainVars, dbVars, fresh, blockNumber, goal, last, pc, todo, cur,
                   receipt, status, held, untried, crashes>>

Next ==
    \/ LoopStep
    \/ MineRegister
    \/ \E r \in Ask : ReceiveDelegate(r)
    \/ \E k \in Key : DeleteDelegate(k) \/ ReadRow(k)
    \/ \E r \in held : SaveRow(r)
    \/ Mine
    \/ \E s \in Secret : OtherRegisters(s) \/ MineAbandoned(s)
    \/ Crash
    \/ AlarmFails

\* Blocks are mined, and the loop keeps running: WaitMined has a deadline.
Spec == Init /\ [][Next]_vars /\ WF_vars(Mine) /\ WF_vars(LoopStep)

-----------------------------------------------------------------------------
(* Properties.                                                             *)

\* No due secret is overlooked, whatever blocks the feed skips and however stale
\* the argument of the outermost handleBlockNumber is: when the loop has finished
\* with block n, every secret that was stored when it was at block n - 2 and is due
\* by then was tried, after a restart too.
TriedInTime ==
    pc = "idle" =>
        \A w \in untried : w.since > blockNumber - 2 \/ w.at > blockNumber - 2

\* A secret is published only when its register block is behind the loop.
NeverTriedEarly ==
    pc \in {"wait", "save"} => cur.at < blockNumber \/ cur.at = 0

\* The delegator is charged once for a secret, and only if the transaction that
\* registered it was the service's own: retries, a shared secret, a crash between
\* the transaction and its record, and somebody else's registration included.
ChargedForOwn ==
    \A s \in Secret : records[s] <= 1 /\ (records[s] = 1 => registry[s] = "service")

\* Every stored secret that is due in time for the chain explored is tried, or
\* replaced, in the end, unless the feed ends first.
Stored(k, i) == i \in secrets[k] /\ blockNumber <= MaxBlock - 2 /\ i.at <= MaxBlock - 2

NotTried(k, i) ==
    \E w \in untried : w.key = k /\ w.secret = i.secret /\ w.at = i.at

DueIsTried ==
    \A r \in Ask : \A i \in r.items : Stored(r.key, i) ~> (~NotTried(r.key, i) \/ ~alarm)

-----------------------------------------------------------------------------
(* A statement of a comment that the code does not keep.                   *)

\* A registration "can only fail because another user registered" the secret: a
\* secret the service itself registered has its record.
FailsOnlyForOther ==
    pc = "save" /\ status # "success" => registry[cur.secret] = "other"
=============================================================================
