--------------------------- MODULE DelegateStore ----------------------------
(***************************************************************************)
(* The records of the service's database (package models) and the pure     *)
(* part of its operations: what is stored by a delegation, what a deletion *)
(* removes, which monitors a delegate gets and which are due at a block.   *)
(*                                                                         *)
(* A delegate row is a record; a key without a row has status "absent".    *)
(* gen is a history variable, the number of the first delegation that      *)
(* created the row; the program has no such column.  Timestamps, error     *)
(* texts, fees (see FeeAccount) and secrets are left out.                  *)
(***************************************************************************)
EXTENDS TokenNetwork

CONSTANTS
    Lock,           \* hash locks: unlocks, punishes and disposes refer to them
    RevealTimeout   \* params.RevealTimeout

ASSUME RevealAssumption == RevealTimeout \in Nat

\* BuildDelegateKey: one delegate per channel and delegator.
Key == [channel : Channel, delegator : Participant]

Status ==
    {"absent", "init", "running", "success", "partial", "byOther", "failed"}

Delegate ==
    [key : Key, open : Nat, settle : Nat, status : Status, nonce : Nat,
     unlocks : SUBSET Lock, gen : Nat]

NoDelegate(k) ==
    [key |-> k, open |-> 0, settle |-> 0, status |-> "absent", nonce |-> 0,
     unlocks |-> {}, gen |-> 0]

Exists(d) == d.status # "absent"

\* The rows of one channel, as read by every handler of a channel event.
GetDelegateListByChannelIdentifier(rows, c) ==
    {rows[k] : k \in {x \in Key : x.channel = c /\ Exists(rows[x])}}

\* UpdateDelegateStatus: one column of the row the key has now, if it has one.
MutantStatusNotWritten(table, k, status) == table
UpdateDelegateStatus(table, k, status) ==
    IF Exists(table[k]) THEN [table EXCEPT ![k].status = status] ELSE table

\* handleClosedStateChange: the row that was read, with the settle block.
MutantClosedRearms(d, n) == [d EXCEPT !.settle = n, !.status = "init"]
WithSettleBlock(d, n) == [d EXCEPT !.settle = n]

-----------------------------------------------------------------------------
(* Monitors: when a delegate is to be executed.  The table keeps no order; *)
(* two equal monitors are two rows (their primary key is random).  gen and *)
(* due are history: the row the monitor was made for, and whether its      *)
(* block was still to come when it was made.                               *)

MonitorType == {"update", "punish"}

Monitor ==
    [key : Key, type : MonitorType, block : Int, gen : Nat, due : BOOLEAN]

\* AddDelegateMonitorInTx: update and unlock RevealTimeout blocks before the
\* settle block, punish at the settle block.
MutantOneEarlier(table, d, head) ==
    LET at(type, n) == [key |-> d.key, type |-> type, block |-> n,
                        gen |-> d.gen, due |-> n > head]
    IN  table \o << at("update", d.settle - RevealTimeout - 1),
                    at("punish", d.settle) >>
AddDelegateMonitor(table, d, head) ==
    LET at(type, n) == [key |-> d.key, type |-> type, block |-> n,
                        gen |-> d.gen, due |-> n > head]
    IN  table \o << at("update", d.settle - RevealTimeout),
                    at("punish", d.settle) >>

\* AddDelegateMonitorInTx, stopped by a panic after its first monitor.
AddUpdateMonitor(table, d, head) ==
    Append(table, AddDelegateMonitor(table, d, head)[Len(table) + 1])

\* updateDelegate, first delegation: monitors only if the channel is closed.
MutantNoFirstMonitor(table, d, head) == table
FirstMonitor(table, d, head) ==
    IF d.settle > 0 THEN AddDelegateMonitor(table, d, head) ELSE table

\* GetDelegateMonitorList: the query is built from the non-zero fields of a
\* struct, so for block 0 it has no condition and returns the whole table.
MutantOverdue(table, n) == {i \in DOMAIN table : table[i].block <= n}
MutantNextBlock(table, n) == {i \in DOMAIN table : table[i].block = n - 1}
GetDelegateMonitorList(table, n) ==
    {i \in DOMAIN table : n = 0 \/ table[i].block = n}

-----------------------------------------------------------------------------
(* Delegations.  A request is what VerifyDelegate accepted: the parts the  *)
(* delegator signed, and the settle block read from the chain.             *)

Request ==
    [key : Key, open : Nat, settle : Nat, nonce : Nat, unlocks : SUBSET Lock,
     punishes : SUBSET Lock, disposes : SUBSET Lock]

\* updateDelegate, first delegation of a key.
MutantOpenReadLate(r, g) ==
    [key |-> r.key, open |-> channel[r.key.channel].open, settle |-> r.settle,
     status |-> "init", nonce |-> r.nonce, unlocks |-> r.unlocks, gen |-> g]
FirstDelegate(r, g) ==
    [key |-> r.key, open |-> r.open, settle |-> r.settle, status |-> "init",
     nonce |-> r.nonce, unlocks |-> r.unlocks, gen |-> g]

\* updateDelegate, the errors of a later delegation, which roll back the
\* whole request.
Refuses(d, r) ==
    \/ r.open # d.open
    \/ d.status = "init" /\ d.nonce > r.nonce

\* updateDelegate, a later delegation: proof and unlocks are replaced only
\* while the delegate has not been started; SettleBlockNumber is kept.
MutantRedelegateRearms(d, r) ==
    [d EXCEPT !.status = "init", !.nonce = r.nonce, !.unlocks = r.unlocks]
Redelegate(d, r) ==
    IF d.status = "init"
    THEN [d EXCEPT !.nonce = r.nonce, !.unlocks = r.unlocks]
    ELSE d

\* appendDelegatePunish, appendDelegateAnnounceDispose: rows are appended per
\* delegate key, a lock that is already there is skipped.
LockRow == [key : Key, lock : Lock]

AppendLocks(table, k, locks) == table \cup {[key |-> k, lock |-> l] : l \in locks}

LocksOf(table, k) == {l \in Lock : [key |-> k, lock |-> l] \in table}

\* DeleteDelegate on the punish and dispose tables: DelegateKey is not their
\* primary key, so the statement has no condition and empties the table.
DeleteLocks(table, k) == {}
=============================================================================
