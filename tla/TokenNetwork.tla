---------------------------- MODULE TokenNetwork ----------------------------
(***************************************************************************)
(* The payment-channel contract TokensNetwork as the monitoring service    *)
(* sees it: the state of every channel, and the chain of blocks the event  *)
(* feed is read from.  Balances, locks and signatures are abstracted; what *)
(* is kept is what decides whether a transaction of the service is         *)
(* accepted (channel state, open block, settle block, nonce of each        *)
(* participant's balance proof) and which event it emits.                  *)
(*                                                                         *)
(* A transaction is mined in a block of its own, so time and events are    *)
(* one sequence: blocks[n] is the event of block n, Height the newest block. *)
(***************************************************************************)
EXTENDS Integers, Sequences, FiniteSets

CONSTANTS
    Channel,        \* channel identifiers
    Participant,    \* the two parties of every channel
    SettleTimeout,  \* settle_timeout of every channel
    PunishBlocks,   \* punish_block_number of the contract
    Traffic,        \* bound: the transactions the participants send
    MaxNonce,       \* bound: largest nonce of a signed balance proof
    MaxBlock        \* bound: length of the chain explored

EventType ==
    {"open", "close", "update", "withdraw", "cooperative", "settle", "other"}

ASSUME ParticipantAssumption ==
    \A p \in Participant : \E q \in Participant : q # p
ASSUME ContractAssumption ==
    /\ SettleTimeout \in Nat \ {0}
    /\ PunishBlocks \in Nat
    /\ Traffic \subseteq EventType
    /\ MaxNonce \in Nat
    /\ MaxBlock \in Nat

VARIABLES
    blocks,         \* the events of blocks 1, 2, ..., Height
    channel         \* channel[c]: the contract's record of channel c

chainVars == <<blocks, channel>>

Height == Len(blocks)

\* The other party of a channel.
Partner(p) == CHOOSE q \in Participant : q # p

\* nonce[p] is the nonce of the balance proof signed BY p that the contract
\* holds; it is presented by p's partner, whom it pays.
ChannelInfo ==
    [state : {0, 1, 2}, open : Nat, settle : Nat, nonce : [Participant -> Nat]]

Event == [type : EventType, channel : Channel, participant : Participant]

\* A block without an event of the contract.
EmptyBlock == [type |-> "none"]

\* The party named by an event whose participant the service never reads.
SomeParty == CHOOSE p \in Participant : TRUE

NoProof == [p \in Participant |-> 0]

\* A settled channel: its record is deleted, every field reads as zero.
Deleted == [state |-> 0, open |-> 0, settle |-> 0, nonce |-> NoProof]

Opened(n) == [state |-> 1, open |-> n, settle |-> 0, nonce |-> NoProof]

\* The next block carries one transaction on channel c, which leaves the
\* channel in state info and emits an event naming participant p.
Transact(type, c, p, info) ==
    /\ Height < MaxBlock
    /\ blocks' = Append(blocks, [type |-> type, channel |-> c, participant |-> p])
    /\ channel' = [channel EXCEPT ![c] = info]

\* The highest nonce is reserved for a punished party (0xffffffffffffffff).
MaxUint64 == MaxNonce + 1

ChainTypeOK ==
    /\ blocks \in Seq(Event \cup {EmptyBlock})
    /\ channel \in [Channel -> ChannelInfo]

\* The service is deployed when every channel has just been opened.
ChainInit ==
    /\ \E c \in Channel :
          blocks = << [type |-> "open", channel |-> c, participant |-> SomeParty] >>
    /\ channel = [c \in Channel |-> Opened(1)]

-----------------------------------------------------------------------------
(* Transactions of the participants.                                       *)

\* A block in which nothing of interest happens.
Mine ==
    /\ Height < MaxBlock
    /\ blocks' = Append(blocks, EmptyBlock)
    /\ UNCHANGED channel

\* deposit on a settled channel opens it again.
Deposit(c) ==
    /\ channel[c].state = 0
    /\ Transact("open", c, SomeParty, Opened(Height + 1))

\* withDraw: "settled and opened again", every older signature is void.
WithDraw(c) ==
    /\ channel[c].state = 1
    /\ Transact("withdraw", c, SomeParty, [channel[c] EXCEPT !.open = Height + 1])

\* prepareSettle: p closes, presenting a proof of nonce n of its partner.
PrepareSettle(c, p, n) ==
    /\ channel[c].state = 1
    /\ Transact("close", c, p,
                [channel[c] EXCEPT !.state = 2,
                                   !.settle = SettleTimeout + Height + 1,
                                   !.nonce[Partner(p)] = n])

\* updateBalanceProof: p itself presents a newer proof of its partner.  The
\* event names the PARTNER, whose proof was updated.
UpdateBalanceProof(c, p, n) ==
    /\ channel[c].state = 2
    /\ channel[c].settle >= Height + 1
    /\ n > channel[c].nonce[Partner(p)]
    /\ Transact("update", c, Partner(p), [channel[c] EXCEPT !.nonce[Partner(p)] = n])

\* settle, once the settlement window and the punish window are over.
Settle(c) ==
    /\ channel[c].state = 2
    /\ channel[c].settle + PunishBlocks < Height + 1
    /\ Transact("settle", c, SomeParty, Deleted)

CooperativeSettle(c) ==
    /\ channel[c].state = 1
    /\ Transact("cooperative", c, SomeParty, Deleted)

-----------------------------------------------------------------------------
(* Transactions the service sends for delegator p.                         *)

\* The window of updateBalanceProofDelegate: the second half of the
\* settlement window; its signatures cover the open block.
AcceptsDelegateUpdate(c, p, open, n) ==
    /\ channel[c].state = 2
    /\ channel[c].settle >= Height + 1
    /\ Height + 1 >= channel[c].settle - SettleTimeout \div 2
    /\ n > channel[c].nonce[Partner(p)]
    /\ open = channel[c].open

UpdateBalanceProofDelegate(c, p, open, n) ==
    /\ AcceptsDelegateUpdate(c, p, open, n)
    /\ Transact("update", c, Partner(p), [channel[c] EXCEPT !.nonce[Partner(p)] = n])

\* unlockDelegate needs a proof of the partner on chain to hold the lock.
UnlockDelegate(c, p, open) ==
    /\ channel[c].state = 2
    /\ channel[c].settle >= Height + 1
    /\ channel[c].nonce[Partner(p)] > 0
    /\ open = channel[c].open
    /\ Transact("other", c, Partner(p), channel[c])

\* punishObsoleteUnlock: the cheater unlocked a lock of p's proof.
PunishObsoleteUnlock(c, p, open) ==
    /\ channel[c].state = 2
    /\ channel[c].nonce[p] \in 1 .. MaxNonce
    /\ open = channel[c].open
    /\ Transact("other", c, p, [channel[c] EXCEPT !.nonce[p] = MaxUint64])

ChainNext ==
    \/ Mine
    \/ \E c \in Channel :
          \/ "open" \in Traffic /\ Deposit(c)
          \/ "withdraw" \in Traffic /\ WithDraw(c)
          \/ "cooperative" \in Traffic /\ CooperativeSettle(c)
          \/ "settle" \in Traffic /\ Settle(c)
          \/ \E p \in Participant, n \in 0 .. MaxNonce :
                "close" \in Traffic /\ PrepareSettle(c, p, n)
          \/ \E p \in Participant, n \in 1 .. MaxNonce :
                "update" \in Traffic /\ UpdateBalanceProof(c, p, n)
=============================================================================
