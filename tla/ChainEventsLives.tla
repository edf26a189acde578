-------------------------- MODULE ChainEventsLives --------------------------
(***************************************************************************)
(* What the service holds of a channel is of one life of it.               *)
(*                                                                         *)
(* A channel that is settled can be opened again, and a withdraw starts it *)
(* afresh; each life is named by its open block.  Rows, copies of rows and *)
(* requests keep an open block and a settle block that were not always     *)
(* read together.  The invariant is about lives: within one, the settle    *)
(* block is set once, the proofs only become newer, and it never comes     *)
(* back when it is over (LifeStays); whatever the service holds for the    *)
(* life that lasts has its settle block or none (Lived).                   *)
(***************************************************************************)
EXTENDS ChainEventsMonitors

\* Only a closed channel has a settle block and balance proofs.
ClosedInv == \A c \in Channel : channel[c].state # 2 => channel[c].settle = 0
ProofsInv ==
    \A c \in Channel, p \in Participant : channel[c].state # 2 => channel[c].nonce[p] = 0

VoidType == {"settle", "cooperative", "withdraw"}

\* Block n ends a life of channel c.
Voids(n, c) == blocks[n].type \in VoidType /\ blocks[n].channel = c

\* The life of a channel that lasts began with the newest event that ended one, or
\* after it.
OpenInv ==
    \A c \in Channel :
        /\ channel[c].open <= Height
        /\ \A n \in 1 .. Height : Voids(n, c) => channel[c].open = 0 \/ channel[c].open >= n

ChannelsInv == ClosedInv /\ ProofsInv /\ OpenInv

\* What is held for channel d.key.channel was made for a life of it that has begun, and
\* if that life lasts, with its settle block.
Lived(d) ==
    /\ 1 <= d.open /\ d.open <= Height
    /\ d.settle # 0 /\ channel[d.key.channel].open = d.open =>
           channel[d.key.channel].settle = d.settle

LivedRows(table) == \A k \in Key : Exists(table[k]) => Lived(table[k])
LivedTasks(ts) == \A t \in TaskId : ts[t].pc # "free" => Lived(ts[t].d)
LivedCopies(S) == \A d \in S : Lived(d)
LivedCur(at, d) == at \in {"mark", "addMonitor", "byOther"} => Lived(d)

HeldInv ==
    /\ LivedRows(rows) /\ LivedTasks(tasks) /\ LivedCopies(dsTodo)
    /\ LivedCur(pc, cur) /\ LivedCopies(inflight)

\* The proof of a goroutine that has passed its update without failing is on the chain.
ProofOnChain(d) ==
    channel[d.key.channel].open = d.open =>
        channel[d.key.channel].nonce[Partner(d.key.delegator)] >= d.nonce

Updated(ts) ==
    \A t \in TaskId :
        /\ ts[t].pc \in {"unlock", "unlockTx"} /\ ts[t].d.status = "running" =>
               ProofOnChain(ts[t].d)
        /\ ts[t].pc = "ubpSave" => ts[t].d.status # "running"

\* The event whose delegates are being deleted.
DeletingInv ==
    pc = "delete" => \A d \in dsTodo : Voids(goal, d.key.channel)

LivesInv == ChannelsInv /\ HeldInv /\ Updated(tasks) /\ DeletingInv

-----------------------------------------------------------------------------
(* What a transaction does to the lives of a channel.                      *)

\* A life that lasts is one that lasted; its settle block and state stay once it is
\* closed, and its proofs only become newer.
LifeStays ==
    \A c \in Channel, o \in 1 .. Height :
        channel'[c].open = o =>
            /\ channel[c].open = o
            /\ channel[c].settle # 0 => channel'[c].settle = channel[c].settle
            /\ channel[c].state = 2 => /\ channel'[c].state = 2
                                       /\ channel'[c].settle = channel[c].settle
            /\ \A p \in Participant : channel'[c].nonce[p] >= channel[c].nonce[p]

\* Record info goes on with the life of record old.
SameLife(old, info) ==
    /\ info.open = old.open
    /\ old.settle # 0 => info.settle = old.settle
    /\ old.state = 2 => info.state = 2 /\ info.settle = old.settle
    /\ \A p \in Participant : info.nonce[p] >= old.nonce[p]

LEMMA ChannelTyped ==
    ASSUME TypeInv
    PROVE  /\ channel \in [Channel -> ChannelInfo] /\ Height \in Nat
           /\ \A c \in Channel : /\ channel[c].open \in Nat /\ channel[c].settle \in Nat
                                 /\ \A p \in Participant : channel[c].nonce[p] \in Nat
  <1>1. channel \in [Channel -> ChannelInfo] /\ Height \in Nat
    BY LoopTyped DEF TypeInv, ChainTypeOK
  <1>2. \A c \in Channel : channel[c] \in ChannelInfo
    BY <1>1
  <1> QED
    BY <1>1, <1>2 DEF ChannelInfo

LEMMA NothingEnds ==
    ASSUME TypeInv, ChannelsInv, ChainGrows, UNCHANGED channel,
           \A n \in Height + 1 .. Height', c \in Channel : ~Voids(n, c)'
    PROVE  ChannelsInv' /\ LifeStays
  <1>0. /\ Height \in Nat /\ Height' \in Nat /\ Height <= Height'
        /\ \A n \in 1 .. Height : blocks'[n] = blocks[n]
        /\ \A c \in Channel : channel[c].open \in Nat /\ channel[c].settle \in Nat
        /\ \A c \in Channel, p \in Participant : channel[c].nonce[p] \in Nat
    BY ChannelTyped DEF ChainGrows, Height
  <1>1. ClosedInv' /\ ProofsInv'
    BY DEF ChannelsInv, ClosedInv, ProofsInv
  <1>2. OpenInv'
    <2> SUFFICES ASSUME NEW c \in Channel
                 PROVE  /\ channel[c].open <= Height'
                        /\ \A n \in 1 .. Height' :
                              Voids(n, c)' => channel[c].open = 0 \/ channel[c].open >= n
      BY DEF OpenInv
    <2>1. channel[c].open <= Height'
      BY <1>0 DEF ChannelsInv, OpenInv
    <2>2. ASSUME NEW n \in 1 .. Height', Voids(n, c)'
          PROVE  channel[c].open = 0 \/ channel[c].open >= n
      <3>1. n \in 1 .. Height
        BY <1>0, <2>2
      <3>2. Voids(n, c)
        BY <1>0, <2>2, <3>1 DEF Voids
      <3> QED
        BY <3>1, <3>2 DEF ChannelsInv, OpenInv
    <2> QED
      BY <2>1, <2>2
  <1>3. LifeStays
    BY <1>0 DEF LifeStays
  <1> QED
    BY <1>1, <1>2, <1>3 DEF ChannelsInv

\* One transaction: the life of its channel goes on, is over, or another one begins.
LEMMA OneChanges ==
    ASSUME TypeInv, ChannelsInv, NEW type \in EventType, NEW c \in Channel,
           NEW p \in Participant, NEW info \in ChannelInfo, Transact(type, c, p, info),
           info.state # 2 => info.settle = 0 /\ \A q \in Participant : info.nonce[q] = 0,
           \/ type \notin VoidType /\ SameLife(channel[c], info)
           \/ info.open = 0
           \/ info.open = Height + 1
    PROVE  ChannelsInv' /\ LifeStays
  <1> DEFINE e == [type |-> type, channel |-> c, participant |-> p]
  <1>0. /\ Height \in Nat /\ channel \in [Channel -> ChannelInfo]
        /\ \A x \in Channel : channel[x].open \in Nat /\ channel[x].settle \in Nat
        /\ \A x \in Channel, q \in Participant : channel[x].nonce[q] \in Nat
        /\ info.open \in Nat
    BY ChannelTyped DEF ChannelInfo
  <1>1. /\ blocks' = Append(blocks, e) /\ e.type = type /\ e.channel = c
        /\ channel' = [channel EXCEPT ![c] = info]
    BY DEF Transact
  <1>2. \A x \in Channel : channel'[x] = IF x = c THEN info ELSE channel[x]
    BY <1>0, <1>1
  <1>3. /\ Height' = Height + 1 /\ blocks'[Height + 1] = e
        /\ \A n \in 1 .. Height : blocks'[n] = blocks[n]
    <2>1. blocks \in Seq(Event \cup {EmptyBlock}) /\ e \in Event \cup {EmptyBlock}
      BY DEF TypeInv, ChainTypeOK, Event
    <2> HIDE DEF e
    <2> QED
      BY <1>1, <2>1, AppendProperties DEF Height
  <1> HIDE DEF e
  <1>4. ClosedInv' /\ ProofsInv'
    BY <1>2 DEF ChannelsInv, ClosedInv, ProofsInv
  <1>5. OpenInv'
    <2> SUFFICES ASSUME NEW x \in Channel
                 PROVE  /\ channel'[x].open <= Height + 1
                        /\ \A n \in 1 .. Height + 1 :
                              Voids(n, x)' => channel'[x].open = 0 \/ channel'[x].open >= n
      BY <1>3 DEF OpenInv
    <2>1. \/ channel'[x].open = channel[x].open
          \/ channel'[x].open = 0
          \/ channel'[x].open = Height + 1
      BY <1>2 DEF SameLife
    <2>2. channel[x].open <= Height /\ channel[x].open \in Nat
      BY <1>0 DEF ChannelsInv, OpenInv
    <2>3. channel'[x].open <= Height + 1
      BY <1>0, <2>1, <2>2
    <2>4. ASSUME NEW n \in 1 .. Height, Voids(n, x)'
          PROVE  channel'[x].open = 0 \/ channel'[x].open >= n
      <3>1. Voids(n, x)
        BY <1>3, <2>4 DEF Voids
      <3>2. channel[x].open = 0 \/ channel[x].open >= n
        BY <3>1 DEF ChannelsInv, OpenInv
      <3> QED
        BY <1>0, <2>1, <2>2, <3>2
    <2>5. ASSUME NEW n \in Nat, n = Height + 1, Voids(n, x)'
          PROVE  channel'[x].open = 0 \/ channel'[x].open >= n
      <3>1. x = c /\ type \in VoidType
        BY <1>1, <1>3, <2>5 DEF Voids
      <3> QED
        BY <1>0, <1>2, <2>5, <3>1
    <2>6. ASSUME NEW n \in 1 .. Height + 1 PROVE n \in 1 .. Height \/ n = Height + 1
      BY <1>0, <2>6
    <2> QED
      BY <1>0, <2>3, <2>4, <2>5, <2>6
  <1>6. LifeStays
    <2> SUFFICES ASSUME NEW x \in Channel, NEW o \in 1 .. Height, channel'[x].open = o
                 PROVE  SameLife(channel[x], channel'[x])
      BY DEF LifeStays, SameLife
    <2>1. CASE x # c
      BY <1>0, <1>2, <2>1 DEF SameLife
    <2>2. CASE x = c
      BY <1>0, <1>2, <2>2
    <2> QED
      BY <2>1, <2>2
  <1> QED
    BY <1>4, <1>5, <1>6 DEF ChannelsInv

LEMMA ChainKeepsLives ==
    ASSUME TypeInv, ChannelsInv, ChainNext
    PROVE  ChannelsInv' /\ LifeStays
  <1>0. /\ Height \in Nat /\ SettleTimeout \in Nat /\ MaxNonce \in Nat /\ ChainTypeOK
        /\ \A c \in Channel : channel[c] \in ChannelInfo
        /\ \A c \in Channel, p \in Participant : channel[c].nonce[p] \in Nat
    BY ChannelTyped, ContractAssumption DEF TypeInv
  <1>1. CASE Mine
    <2>1. ChainGrows /\ UNCHANGED channel
      BY <1>0, <1>1, ChainNextGrows DEF Mine
    <2>2. Height' = Height + 1 /\ blocks'[Height + 1] = EmptyBlock
      <3>1. blocks \in Seq(Event \cup {EmptyBlock}) /\ blocks' = Append(blocks, EmptyBlock)
        BY <1>1 DEF TypeInv, ChainTypeOK, Mine
      <3> QED
        BY <3>1, AppendProperties DEF Height
    <2>3. ASSUME NEW n \in Height + 1 .. Height', NEW c \in Channel PROVE ~Voids(n, c)'
      <3>1. blocks'[n] = EmptyBlock
        BY <1>0, <2>2
      <3> QED
        BY <3>1 DEF Voids, VoidType, EmptyBlock
    <2> QED
      BY <2>1, <2>3, NothingEnds
  <1>2. ASSUME NEW c \in Channel, Deposit(c) PROVE ChannelsInv' /\ LifeStays
    <2> DEFINE info == Opened(Height + 1)
    <2>1. /\ info \in ChannelInfo /\ info.settle = 0 /\ info.open = Height + 1
          /\ \A q \in Participant : info.nonce[q] = 0
      BY <1>0 DEF Opened, NoProof, ChannelInfo
    <2>2. Transact("open", c, SomeParty, info) /\ SomeParty \in Participant
      BY <1>2, PartyTypes DEF Deposit
    <2> HIDE DEF info
    <2> QED
      BY <2>1, <2>2, OneChanges DEF EventType
  <1>3. ASSUME NEW c \in Channel, WithDraw(c) PROVE ChannelsInv' /\ LifeStays
    <2> DEFINE info == [channel[c] EXCEPT !.open = Height + 1]
    <2>1. /\ info \in ChannelInfo /\ info.open = Height + 1
          /\ info.settle = channel[c].settle /\ info.nonce = channel[c].nonce
      BY <1>0 DEF ChannelInfo
    <2>2. Transact("withdraw", c, SomeParty, info) /\ SomeParty \in Participant
          /\ channel[c].state = 1
      BY <1>3, PartyTypes DEF WithDraw
    <2>3. info.settle = 0 /\ \A q \in Participant : info.nonce[q] = 0
      BY <2>1, <2>2 DEF ChannelsInv, ClosedInv, ProofsInv
    <2> HIDE DEF info
    <2> QED
      BY <2>1, <2>2, <2>3, OneChanges DEF EventType
  <1>4. ASSUME NEW c \in Channel, CooperativeSettle(c) \/ Settle(c)
        PROVE  ChannelsInv' /\ LifeStays
    <2>1. /\ Deleted \in ChannelInfo /\ Deleted.settle = 0 /\ Deleted.open = 0
          /\ \A q \in Participant : Deleted.nonce[q] = 0
      BY DEF Deleted, NoProof, ChannelInfo
    <2>2. PICK type \in {"cooperative", "settle"} : Transact(type, c, SomeParty, Deleted)
      BY <1>4 DEF CooperativeSettle, Settle
    <2> QED
      BY <2>1, <2>2, PartyTypes, OneChanges DEF EventType
  <1>5. ASSUME NEW c \in Channel, NEW p \in Participant, NEW n \in 0 .. MaxNonce,
               PrepareSettle(c, p, n)
        PROVE  ChannelsInv' /\ LifeStays
    <2> DEFINE b == [channel[c] EXCEPT !.state = 2, !.settle = SettleTimeout + Height + 1]
               info == [channel[c] EXCEPT !.state = 2,
                                          !.settle = SettleTimeout + Height + 1,
                                          !.nonce[Partner(p)] = n]
    <2>1. SettleTimeout + Height + 1 \in Nat /\ n \in Nat /\ Partner(p) \in Participant
      BY <1>0, PartyTypes
    <2>2. b \in ChannelInfo /\ b.state = 2 /\ b.open = channel[c].open
      BY <1>0, <2>1 DEF ChannelInfo
    <2>3. info = [b EXCEPT !.nonce[Partner(p)] = n]
      BY <1>0 DEF ChannelInfo
    <2>4. Transact("close", c, p, info) /\ channel[c].state = 1
      BY <1>5 DEF PrepareSettle
    <2>5. channel[c].settle = 0 /\ \A q \in Participant : channel[c].nonce[q] = 0
      BY <2>4 DEF ChannelsInv, ClosedInv, ProofsInv
    <2> HIDE DEF b, info
    <2>6. info \in ChannelInfo
      BY <2>1, <2>2, <2>3, NonceTypes
    <2>7. info.state = b.state /\ info.open = b.open
      BY <2>2, <2>3 DEF ChannelInfo
    <2>8. \A q \in Participant : info.nonce[q] \in Nat
      BY <2>6 DEF ChannelInfo
    <2>9. SameLife(channel[c], info)
      BY <2>2, <2>4, <2>5, <2>7, <2>8 DEF SameLife
    <2> QED
      BY <2>2, <2>4, <2>6, <2>7, <2>9, OneChanges DEF EventType, VoidType
  <1>6. ASSUME NEW c \in Channel, NEW p \in Participant, NEW n \in 1 .. MaxNonce,
               UpdateBalanceProof(c, p, n)
        PROVE  ChannelsInv' /\ LifeStays
    <2> DEFINE info == [channel[c] EXCEPT !.nonce[Partner(p)] = n]
    <2>1. n \in Nat /\ Partner(p) \in Participant
      BY <1>0, PartyTypes
    <2>2. /\ Transact("update", c, Partner(p), info) /\ channel[c].state = 2
          /\ n > channel[c].nonce[Partner(p)]
      BY <1>6 DEF UpdateBalanceProof
    <2>3. info \in ChannelInfo
      BY <1>0, <2>1, NonceTypes
    <2>4. /\ info.state = channel[c].state /\ info.settle = channel[c].settle
          /\ info.open = channel[c].open
          /\ \A q \in Participant :
                info.nonce[q] = IF q = Partner(p) THEN n ELSE channel[c].nonce[q]
      BY <1>0, <2>1 DEF ChannelInfo
    <2> HIDE DEF info
    <2>5. SameLife(channel[c], info)
      BY <1>0, <2>1, <2>2, <2>4 DEF SameLife
    <2> QED
      BY <2>1, <2>2, <2>3, <2>4, <2>5, OneChanges DEF EventType, VoidType
  <1> QED
    BY <1>1, <1>2, <1>3, <1>4, <1>5, <1>6 DEF ChainNext

\* The transactions of the service; an update leaves its proof.
LEMMA ServiceKeepsLives ==
    ASSUME TypeInv, ChannelsInv, NEW c \in Channel, NEW p \in Participant, NEW o,
           NEW n \in Nat,
           \/ UpdateBalanceProofDelegate(c, p, o, n)
           \/ UnlockDelegate(c, p, o)
           \/ PunishObsoleteUnlock(c, p, o)
    PROVE  /\ ChannelsInv' /\ LifeStays
           /\ UpdateBalanceProofDelegate(c, p, o, n) => channel'[c].nonce[Partner(p)] = n
  <1>0. /\ channel[c] \in ChannelInfo /\ channel \in [Channel -> ChannelInfo]
        /\ \A q \in Participant : channel[c].nonce[q] \in Nat
        /\ MaxNonce \in Nat /\ MaxUint64 \in Nat /\ Partner(p) \in Participant
    BY ChannelTyped, ContractAssumption, PartyTypes DEF MaxUint64
  \* A newer proof of party s.
  <1>1. ASSUME NEW s \in Participant, NEW m \in Nat, m >= channel[c].nonce[s],
               NEW type \in {"update", "other"}, NEW q \in Participant, channel[c].state = 2,
               Transact(type, c, q, [channel[c] EXCEPT !.nonce[s] = m])
        PROVE  ChannelsInv' /\ LifeStays /\ channel'[c].nonce[s] = m
    <2> DEFINE info == [channel[c] EXCEPT !.nonce[s] = m]
    <2>1. info \in ChannelInfo
      BY <1>0, NonceTypes
    <2>2. /\ info.state = channel[c].state /\ info.settle = channel[c].settle
          /\ info.open = channel[c].open
          /\ \A x \in Participant : info.nonce[x] = IF x = s THEN m ELSE channel[c].nonce[x]
      BY <1>0 DEF ChannelInfo
    <2>3. Transact(type, c, q, info) /\ channel[c].state = 2
      BY <1>1
    <2>4. channel'[c] = info
      BY <1>0, <2>3 DEF Transact
    <2> HIDE DEF info
    <2>5. SameLife(channel[c], info)
      BY <1>0, <1>1, <2>2 DEF SameLife
    <2>6. type \in EventType /\ type \notin VoidType
      BY DEF EventType, VoidType
    <2> QED
      BY <2>1, <2>2, <2>3, <2>4, <2>5, <2>6, OneChanges
  <1>2. CASE UpdateBalanceProofDelegate(c, p, o, n)
    <2>1. /\ n >= channel[c].nonce[Partner(p)] /\ channel[c].state = 2
          /\ Transact("update", c, Partner(p), [channel[c] EXCEPT !.nonce[Partner(p)] = n])
      BY <1>0, <1>2 DEF UpdateBalanceProofDelegate, AcceptsDelegateUpdate
    <2> QED
      BY <1>0, <1>1, <2>1
  <1>3. CASE UnlockDelegate(c, p, o) /\ ~UpdateBalanceProofDelegate(c, p, o, n)
    <2>1. Transact("other", c, Partner(p), channel[c]) /\ channel[c].state = 2
      BY <1>3 DEF UnlockDelegate
    <2>2. SameLife(channel[c], channel[c])
      BY <1>0 DEF SameLife
    <2> QED
      BY <1>0, <1>3, <2>1, <2>2, OneChanges DEF EventType, VoidType
  <1>4. CASE PunishObsoleteUnlock(c, p, o) /\ ~UpdateBalanceProofDelegate(c, p, o, n)
    <2>1. /\ MaxUint64 >= channel[c].nonce[p] /\ channel[c].state = 2
          /\ Transact("other", c, p, [channel[c] EXCEPT !.nonce[p] = MaxUint64])
      BY <1>0, <1>4 DEF PunishObsoleteUnlock, MaxUint64
    <2> QED
      BY <1>0, <1>1, <1>4, <2>1
  <1> QED
    BY <1>2, <1>3, <1>4

LEMMA SameChainKeepsLives ==
    ASSUME TypeInv, ChannelsInv, UNCHANGED chainVars
    PROVE  ChannelsInv' /\ LifeStays /\ Height' = Height
  <1>1. ChainGrows /\ UNCHANGED channel /\ Height' = Height /\ Height \in Nat
    BY UnchangedGrows, LoopTyped DEF TypeInv, chainVars, Height
  <1> QED
    BY <1>1, NothingEnds

-----------------------------------------------------------------------------
(* What is held stays of its life.                                         *)

LEMMA HeldTyped ==
    ASSUME TypeInv
    PROVE  /\ \A k \in Key : rows[k].open \in Nat /\ rows[k].key.channel \in Channel
           /\ \A t \in TaskId : /\ tasks[t].d.open \in Nat /\ tasks[t].d.nonce \in Nat
                                /\ tasks[t].d.key.channel \in Channel
                                /\ tasks[t].d.key.delegator \in Participant
           /\ \A d \in dsTodo : d.open \in Nat /\ d.key.channel \in Channel
           /\ cur.open \in Nat /\ cur.key.channel \in Channel
           /\ \A r \in inflight : r.open \in Nat /\ r.key.channel \in Channel
  <1>1. \A d \in Delegate : /\ d.open \in Nat /\ d.nonce \in Nat
                            /\ d.key.channel \in Channel /\ d.key.delegator \in Participant
    BY DEF Delegate, Key
  <1>2. \A r \in Request : r.open \in Nat /\ r.key.channel \in Channel
    BY DEF Request, Key
  <1> QED
    BY <1>1, <1>2, Typed

LEMMA LivedStays ==
    ASSUME TypeInv, LifeStays, Height <= Height', Height' \in Nat, NEW d,
           d.open \in Nat, d.key.channel \in Channel, Lived(d)
    PROVE  Lived(d)'
  <1>1. d.open \in 1 .. Height /\ Height \in Nat
    BY ChannelTyped DEF Lived
  <1>2. d.open <= Height'
    BY <1>1
  <1>3. channel'[d.key.channel].open = d.open =>
            /\ channel[d.key.channel].open = d.open
            /\ channel[d.key.channel].settle # 0 =>
                   channel'[d.key.channel].settle = channel[d.key.channel].settle
    BY <1>1 DEF LifeStays
  <1> QED
    BY <1>1, <1>2, <1>3 DEF Lived

LEMMA ProofStays ==
    ASSUME TypeInv, TypeInv', LifeStays, NEW d, d.open \in Nat, d.nonce \in Nat,
           d.key.channel \in Channel, d.key.delegator \in Participant, Lived(d), ProofOnChain(d)
    PROVE  ProofOnChain(d)'
  <1> DEFINE c == d.key.channel
             q == Partner(d.key.delegator)
  <1>1. d.open \in 1 .. Height /\ q \in Participant
    BY ChannelTyped, PartyTypes DEF Lived
  <1>2. channel[c].nonce[q] \in Nat /\ channel'[c].nonce[q] \in Nat
    <2>1. channel'[c] \in ChannelInfo
      BY DEF TypeInv, ChainTypeOK
    <2> QED
      BY <1>1, <2>1, ChannelTyped DEF ChannelInfo
  <1>3. channel'[c].open = d.open =>
            channel[c].open = d.open /\ channel'[c].nonce[q] >= channel[c].nonce[q]
    BY <1>1 DEF LifeStays
  <1> QED
    BY <1>2, <1>3 DEF ProofOnChain

\* Everything a step writes is of its life.
LEMMA WritesLived ==
    ASSUME TypeInv, TypeInv', ChannelsInv', LifeStays, Height <= Height',
           LivedRows(rows'), LivedTasks(tasks'), LivedCopies(dsTodo'), LivedCur(pc', cur'),
           LivedCopies(inflight'), Updated(tasks)', DeletingInv'
    PROVE  LivesInv'
  <1>0. Height' \in Nat
    BY LenProperties DEF TypeInv, ChainTypeOK, Height
  <1>1. /\ \A k \in Key : rows'[k].open \in Nat /\ rows'[k].key.channel \in Channel
        /\ \A t \in TaskId : /\ tasks'[t].d.open \in Nat
                             /\ tasks'[t].d.key.channel \in Channel
        /\ \A d \in dsTodo' : d.open \in Nat /\ d.key.channel \in Channel
        /\ cur'.open \in Nat /\ cur'.key.channel \in Channel
        /\ \A r \in inflight' : r.open \in Nat /\ r.key.channel \in Channel
    <2>1. \A d \in Delegate : d.open \in Nat /\ d.key.channel \in Channel
      BY DEF Delegate, Key
    <2>2. \A r \in Request : r.open \in Nat /\ r.key.channel \in Channel
      BY DEF Request, Key
    <2>3. /\ rows' \in [Key -> Delegate] /\ tasks' \in [TaskId -> Task]
          /\ cur' \in Delegate /\ dsTodo' \subseteq Delegate /\ inflight' \subseteq Request
      BY DEF TypeInv, DbTypeOK, LoopInv, LoopTypeOK, TaskTypeOK
    <2>4. \A t \in TaskId : tasks'[t].d \in Delegate
      BY <2>3 DEF Task
    <2> QED
      BY <2>1, <2>2, <2>3, <2>4
  <1>2. \A d : d.open \in Nat /\ d.key.channel \in Channel /\ Lived(d) => Lived(d)'
    BY <1>0, LivedStays
  <1>3. LivedRows(rows)' /\ LivedTasks(tasks)'
    BY <1>1, <1>2 DEF LivedRows, LivedTasks
  <1>4. LivedCopies(dsTodo)' /\ LivedCopies(inflight)'
    BY <1>1, <1>2 DEF LivedCopies
  <1>5. LivedCur(pc, cur)'
    BY <1>1, <1>2 DEF LivedCur
  <1> QED
    BY <1>3, <1>4, <1>5 DEF LivesInv, HeldInv

\* Goroutines that are as they were.
LEMMA SameTasksUpdated ==
    ASSUME TypeInv, TypeInv', LivesInv, LifeStays, UNCHANGED tasks
    PROVE  Updated(tasks)' /\ LivedTasks(tasks')
  <1>1. \A t \in TaskId : /\ tasks[t].d.open \in Nat /\ tasks[t].d.nonce \in Nat
                          /\ tasks[t].d.key.channel \in Channel
                          /\ tasks[t].d.key.delegator \in Participant
    BY HeldTyped
  <1>2. LivedTasks(tasks) /\ Updated(tasks)
    BY DEF LivesInv, HeldInv
  <1>3. ASSUME NEW t \in TaskId, tasks[t].pc # "free", ProofOnChain(tasks[t].d)
        PROVE  ProofOnChain(tasks[t].d)'
    <2>1. \A d : d = tasks[t].d => ProofOnChain(d)'
      BY <1>1, <1>2, <1>3, ProofStays DEF LivedTasks
    <2> QED
      BY <2>1 DEF ProofOnChain
  <1> QED
    BY <1>2, <1>3 DEF Updated

\* The event of a deletion stays on the chain.
LEMMA DeletingStays ==
    ASSUME TypeInv, MonitoredInv, DeletingInv, ChainGrows, UNCHANGED <<pc, goal, dsTodo>>
    PROVE  DeletingInv'
  <1>1. pc = "delete" => EventAt(goal) /\ goal \in Int /\ goal <= Height
    BY TypedCounts DEF MonitoredInv, EventInv
  <1>2. pc = "delete" => blocks'[goal] = blocks[goal]
    BY <1>1, BlockStays
  <1> QED
    BY <1>2 DEF DeletingInv, Voids

-----------------------------------------------------------------------------
(* Goroutines and requests.                                                *)

\* The same delegation for the same life of the channel.
SameDelegation(e, d) ==
    e.key = d.key /\ e.open = d.open /\ e.settle = d.settle /\ e.nonce = d.nonce

\* How goroutine t may come to its unlocks without having failed.
PassedUpdate(t) ==
    LET d == tasks[t].d
    IN  \/ d.nonce = 0
        \/ UpdateBalanceProofDelegate(d.key.channel, d.key.delegator, d.open, d.nonce)
        \/ tasks[t].pc \in {"unlock", "ubpSave"} /\ d.status = "running"

LEMMA TaskLife ==
    ASSUME TypeInv, NEW t \in TaskId, TaskStep(t)
    PROVE  /\ tasks[t].pc # "free"
           /\ \A u \in TaskId : u # t => tasks'[u] = tasks[u]
           /\ tasks'[t].pc = "free" \/ SameDelegation(tasks'[t].d, tasks[t].d)
           /\ tasks'[t].pc \in {"unlock", "unlockTx"} /\ tasks'[t].d.status = "running" =>
                  PassedUpdate(t)
           /\ tasks'[t].pc = "ubpSave" => tasks'[t].d.status # "running"
  <1> DEFINE d == tasks[t].d
  <1>0. /\ tasks \in [TaskId -> Task] /\ tasks[t] \in Task /\ d \in Delegate
    BY Typed, TaskTypes
  <1>1. ASSUME NEW at, Advance(t, at)
        PROVE  /\ \A u \in TaskId : u # t => tasks'[u] = tasks[u]
               /\ tasks'[t].pc = at /\ tasks'[t].d = d
    BY <1>0, <1>1 DEF Advance, Task
  <1>2. ASSUME NEW at, Fail(t, at)
        PROVE  /\ \A u \in TaskId : u # t => tasks'[u] = tasks[u]
               /\ tasks'[t].pc = at /\ tasks'[t].d.status = "failed"
               /\ SameDelegation(tasks'[t].d, d)
    BY <1>0, <1>2 DEF Fail, Task, Delegate, SameDelegation
  <1>3. ASSUME Finish(t)
        PROVE  (\A u \in TaskId : u # t => tasks'[u] = tasks[u]) /\ tasks'[t].pc = "free"
    BY <1>0, <1>3 DEF Finish, IdleTask
  <1>4. SameDelegation(d, d)
    BY DEF SameDelegation
  <1>5. CASE UbpLock(t)
    <2>1. /\ tasks[t].pc = "ubp"
          /\ \/ d.nonce = 0 /\ Advance(t, "unlock")
             \/ Advance(t, "ubpTx")
             \/ Fail(t, "unlock")
      BY <1>5 DEF UbpLock
    <2> QED
      BY <1>1, <1>2, <1>4, <2>1 DEF PassedUpdate
  <1>6. CASE UbpTx(t)
    <2>1. /\ tasks[t].pc = "ubpTx"
          /\ \/ /\ UpdateBalanceProofDelegate(d.key.channel, d.key.delegator, d.open, d.nonce)
                /\ Advance(t, "unlock")
             \/ Fail(t, "ubpSave")
      BY <1>6 DEF UbpTx
    <2> QED
      BY <1>1, <1>2, <1>4, <2>1 DEF PassedUpdate
  <1>7. CASE UbpSave(t)
    <2>1. tasks[t].pc = "ubpSave" /\ Advance(t, "unlock")
      BY <1>7 DEF UbpSave
    <2> QED
      BY <1>1, <1>4, <2>1 DEF PassedUpdate
  <1>8. CASE UnlockLock(t)
    <2> DEFINE das == LocksOf(disposes, d.key)
    <2>1. /\ tasks[t].pc = "unlock"
          /\ \/ Finish(t)
             \/ tasks' = [tasks EXCEPT ![t].pc = "unlockTx", ![t].das = das]
      BY <1>8 DEF UnlockLock
    <2>2. ASSUME tasks' = [tasks EXCEPT ![t].pc = "unlockTx", ![t].das = das]
          PROVE  /\ \A u \in TaskId : u # t => tasks'[u] = tasks[u]
                 /\ tasks'[t].pc = "unlockTx" /\ tasks'[t].d = d
      BY <1>0, <2>2 DEF Task
    <2> QED
      BY <1>3, <1>4, <2>1, <2>2 DEF PassedUpdate
  <1>9. CASE UnlockTx(t)
    <2>1. PICK st : tasks' = [tasks EXCEPT ![t].pc = "unlockSave", ![t].d.status = st]
      BY <1>9 DEF UnlockTx
    <2>2. tasks[t].pc = "unlockTx"
      BY <1>9 DEF UnlockTx
    <2>3. /\ \A u \in TaskId : u # t => tasks'[u] = tasks[u]
          /\ tasks'[t].pc = "unlockSave" /\ SameDelegation(tasks'[t].d, d)
      BY <1>0, <2>1 DEF Task, Delegate, SameDelegation
    <2> QED
      BY <2>2, <2>3
  <1>10. CASE UnlockSave(t) \/ PunishLock(t) \/ PunishTx(t) \/ PunishSave(t)
    <2>1. /\ tasks[t].pc \in {"unlockSave", "punish", "punishTx", "punishSave"}
          /\ Finish(t) \/ Advance(t, "punishTx") \/ Fail(t, "punishSave")
      BY <1>10 DEF UnlockSave, PunishLock, PunishTx, PunishSave
    <2> QED
      BY <1>1, <1>2, <1>3, <1>4, <2>1
  <1> QED
    BY <1>5, <1>6, <1>7, <1>8, <1>9, <1>10 DEF TaskStep

LEMMA TaskSaves ==
    ASSUME TypeInv, NEW t \in TaskId, TaskStep(t)
    PROVE  \/ UNCHANGED rows
           \/ \E e \in Delegate : /\ UpdateObject(e) /\ SameDelegation(e, tasks[t].d)
  <1> DEFINE d == tasks[t].d
             f == [d EXCEPT !.status = "failed"]
  <1>1. d \in Delegate
    BY TaskTypes
  <1>2. UNCHANGED rows \/ UpdateObject(f) \/ UpdateObject(d)
    BY DEF TaskStep, UbpLock, UbpTx, UbpSave, UnlockLock, UnlockTx, UnlockSave, PunishLock,
           PunishTx, PunishSave
  <1>3. f \in Delegate
    BY <1>1, DelegateTypes DEF Status
  <1>4. SameDelegation(f, d) /\ SameDelegation(d, d)
    BY <1>1 DEF Delegate, SameDelegation
  <1> HIDE DEF d, f
  <1>5. UNCHANGED rows \/ \E e \in Delegate : UpdateObject(e) /\ SameDelegation(e, d)
    BY <1>1, <1>2, <1>3, <1>4
  <1> QED
    BY <1>5 DEF d

\* Saving a row that is of its life.
LEMMA SavedIsLived ==
    ASSUME TypeInv, LivedRows(rows), NEW e \in Delegate, UpdateObject(e), Lived(e)
    PROVE  LivedRows(rows')
  <1>1. rows \in [Key -> Delegate] /\ e.key \in Key
    BY Typed, DelegateTypes
  <1>2. \A k \in Key : rows'[k] = IF k = e.key THEN e ELSE rows[k]
    BY <1>1 DEF UpdateObject
  <1> QED
    BY <1>2 DEF LivedRows

LEMMA TaskKeepsLives ==
    ASSUME TypeInv, TypeInv', StartInv, MonitoredInv, LivesInv, NEW t \in TaskId, TaskStep(t)
    PROVE  LivesInv'
  <1> DEFINE d == tasks[t].d
  <1>0. /\ d.key.channel \in Channel /\ d.key.delegator \in Participant /\ d.nonce \in Nat
        /\ d.open \in Nat /\ TaskFrame /\ ChannelsInv /\ HeldInv /\ Updated(tasks) /\ Lived(d)
        /\ Partner(d.key.delegator) \in Participant
    BY HeldTyped, TaskRows, TaskLife, PartyTypes DEF LivesInv, HeldInv, LivedTasks
  <1>1. /\ UNCHANGED <<pc, goal, dsTodo, cur, inflight>>
    BY <1>0 DEF TaskFrame, loopVars
  <1>2. Height <= Height' /\ ChainGrows
    BY TaskGrows DEF ChainGrows, Height
  <1>3. \/ UNCHANGED chainVars
        \/ UpdateBalanceProofDelegate(d.key.channel, d.key.delegator, d.open, d.nonce)
        \/ UnlockDelegate(d.key.channel, d.key.delegator, d.open)
        \/ PunishObsoleteUnlock(d.key.channel, d.key.delegator, d.open)
    BY DEF TaskStep, UbpLock, UbpTx, UbpSave, UnlockLock, UnlockTx, UnlockSave, PunishLock,
           PunishTx, PunishSave
  <1>4. /\ ChannelsInv' /\ LifeStays
        /\ UpdateBalanceProofDelegate(d.key.channel, d.key.delegator, d.open, d.nonce) =>
               channel'[d.key.channel].nonce[Partner(d.key.delegator)] = d.nonce
    <2> HIDE DEF d
    <2> QED
      BY <1>0, <1>3, SameChainKeepsLives, ServiceKeepsLives
  <1>5. LivedRows(rows')
    <2>1. ASSUME NEW e \in Delegate, UpdateObject(e), SameDelegation(e, d)
          PROVE  LivedRows(rows')
      <3>1. Lived(e)
        BY <1>0, <2>1 DEF SameDelegation, Lived
      <3> QED
        BY <1>0, <2>1, <3>1, SavedIsLived DEF HeldInv
    <2>2. UNCHANGED rows => LivedRows(rows')
      BY <1>0 DEF HeldInv
    <2> QED
      BY <2>1, <2>2, TaskSaves
  <1>6. LivedTasks(tasks')
    <2>1. tasks'[t].pc # "free" => Lived(tasks'[t].d)
      BY <1>0, TaskLife DEF SameDelegation, Lived
    <2>2. \A u \in TaskId : u # t => tasks'[u] = tasks[u]
      BY TaskLife
    <2> QED
      BY <1>0, <2>1, <2>2 DEF HeldInv, LivedTasks
  <1>7. ASSUME NEW u \in TaskId, tasks[u].pc # "free", ProofOnChain(tasks[u].d)
        PROVE  \A x : SameDelegation(x, tasks[u].d) => ProofOnChain(x)'
    <2>1. \A x : x = tasks[u].d => ProofOnChain(x)'
      BY <1>0, <1>4, <1>7, HeldTyped, ProofStays DEF HeldInv, LivedTasks
    <2> QED
      BY <2>1 DEF ProofOnChain, SameDelegation
  <1>8. Updated(tasks)'
    <2>0. \A u \in TaskId : SameDelegation(tasks[u].d, tasks[u].d)
      BY DEF SameDelegation
    <2>1. ASSUME NEW u \in TaskId, u # t
          PROVE  /\ tasks'[u].pc \in {"unlock", "unlockTx"} /\ tasks'[u].d.status = "running" =>
                        ProofOnChain(tasks[u].d)'
                 /\ tasks'[u].pc = "ubpSave" => tasks'[u].d.status # "running"
      <3>1. tasks'[u] = tasks[u]
        BY <2>1, TaskLife
      <3>2. ASSUME ProofOnChain(tasks[u].d), tasks[u].pc # "free" PROVE ProofOnChain(tasks[u].d)'
        <4>1. \A x : x = tasks[u].d => ProofOnChain(x)'
          BY <1>7, <2>0, <3>2
        <4> QED
          BY <3>1, <4>1 DEF ProofOnChain
      <3> QED
        BY <1>0, <3>1, <3>2 DEF Updated
    <2>2. tasks'[t].pc = "ubpSave" => tasks'[t].d.status # "running"
      BY TaskLife
    <2>3. ASSUME tasks'[t].pc \in {"unlock", "unlockTx"}, tasks'[t].d.status = "running"
          PROVE  ProofOnChain(tasks[t].d)'
      <3>1. PassedUpdate(t) /\ SameDelegation(tasks'[t].d, d)
        BY <2>3, TaskLife
      <3>2. channel'[d.key.channel].nonce[Partner(d.key.delegator)] \in Nat
        <4>1. channel'[d.key.channel] \in ChannelInfo
          BY <1>0 DEF TypeInv, ChainTypeOK
        <4> QED
          BY <1>0, <4>1 DEF ChannelInfo
      <3>3. CASE d.nonce = 0
        BY <3>1, <3>2, <3>3 DEF ProofOnChain, SameDelegation
      <3>4. CASE UpdateBalanceProofDelegate(d.key.channel, d.key.delegator, d.open, d.nonce)
        BY <1>0, <1>4, <3>1, <3>4 DEF ProofOnChain, SameDelegation
      <3>5. CASE tasks[t].pc \in {"unlock", "ubpSave"} /\ d.status = "running"
        <4>1. ProofOnChain(d) /\ tasks[t].pc # "free"
          BY <1>0, <3>5 DEF Updated
        <4>2. \A x : SameDelegation(x, tasks[t].d) => ProofOnChain(x)'
          BY <1>7, <4>1
        <4>3. \A x : x = tasks'[t].d => ProofOnChain(x)'
          BY <3>1, <4>2
        <4> QED
          BY <4>3 DEF ProofOnChain
      <3> QED
        BY <3>1, <3>3, <3>4, <3>5 DEF PassedUpdate
    <2> QED
      BY <2>1, <2>2, <2>3 DEF Updated
  <1>9. DeletingInv'
    BY <1>1, <1>2, DeletingStays DEF LivesInv
  <1> QED
    BY <1>0, <1>1, <1>2, <1>4, <1>5, <1>6, <1>8, <1>9, WritesLived DEF HeldInv

\* Steps that leave the chain alone.
LEMMA OffChainKeepsLives ==
    ASSUME TypeInv, TypeInv', LivesInv, UNCHANGED chainVars,
           LivedRows(rows'), LivedTasks(tasks'), LivedCopies(dsTodo'), LivedCur(pc', cur'),
           LivedCopies(inflight'), Updated(tasks'), DeletingInv'
    PROVE  LivesInv'
  <1>1. ChannelsInv' /\ LifeStays /\ Height <= Height'
    BY SameChainKeepsLives, LoopTyped DEF LivesInv
  <1>2. Updated(tasks)'
    BY DEF Updated, ProofOnChain, chainVars
  <1> QED
    BY <1>1, <1>2, WritesLived

LEMMA RequestKeepsLives ==
    ASSUME TypeInv, TypeInv', LivesInv,
           \/ \E x \in Delegation : VerifyDelegate(x)
           \/ \E r \in inflight :
                 ReceiveFirst(r) \/ ReceiveAgain(r) \/ ReceiveFails(r) \/ ReceiveHalf(r)
    PROVE  LivesInv'
  <1>0. /\ rows \in [Key -> Delegate] /\ inflight \subseteq Request /\ gen \in [Key -> Nat]
        /\ LivedRows(rows) /\ LivedTasks(tasks) /\ LivedCopies(dsTodo) /\ LivedCur(pc, cur)
        /\ LivedCopies(inflight) /\ Updated(tasks) /\ DeletingInv /\ OpenInv
    BY Typed DEF LivesInv, HeldInv, ChannelsInv
  <1>1. UNCHANGED <<chainVars, tasks, pc, goal, dsTodo, cur>>
    BY DEF VerifyDelegate, ReceiveFirst, ReceiveAgain, ReceiveFails, ReceiveHalf, loopVars
  <1>2. DeletingInv'
    BY <1>0, <1>1 DEF DeletingInv, Voids, chainVars
  <1>k. ASSUME LivedRows(rows'), LivedCopies(inflight') PROVE LivesInv'
    BY <1>0, <1>1, <1>2, <1>k, OffChainKeepsLives
  \* Both blocks are read at once.
  <1>3. ASSUME NEW x \in Delegation, VerifyDelegate(x) PROVE LivesInv'
    <2> DEFINE info == channel[x.key.channel]
               r == [key |-> x.key, open |-> info.open, settle |-> info.settle,
                     nonce |-> x.nonce, unlocks |-> x.unlocks,
                     punishes |-> x.punishes, disposes |-> x.disposes]
    <2>1. inflight' = inflight \cup {r} /\ UNCHANGED rows /\ info.open # 0
      BY <1>3 DEF VerifyDelegate, dbVars
    <2>2. x.key.channel \in Channel
      BY DelegationAssumption DEF Key
    <2>3. info.open \in Nat /\ info.open <= Height
      BY <1>0, <2>2, ChannelTyped DEF OpenInv
    <2>4. Lived(r)
      BY <2>1, <2>3 DEF Lived
    <2> HIDE DEF r
    <2> QED
      BY <1>0, <1>k, <2>1, <2>4 DEF LivedCopies
  <1>4. ASSUME NEW r \in inflight, ReceiveFirst(r) PROVE LivesInv'
    <2> DEFINE d == FirstDelegate(r, gen[r.key] + 1)
    <2>1. r.key \in Key /\ Lived(r)
      BY <1>0, RequestTypes DEF LivedCopies
    <2>2. rows' = [rows EXCEPT ![r.key] = d] /\ inflight' \subseteq inflight
      BY <1>4 DEF ReceiveFirst
    <2>3. Lived(d)
      BY <2>1 DEF FirstDelegate, Lived
    <2> HIDE DEF d
    <2>4. \A k \in Key : rows'[k] = IF k = r.key THEN d ELSE rows[k]
      BY <1>0, <2>1, <2>2
    <2> QED
      BY <1>0, <1>k, <2>2, <2>3, <2>4 DEF LivedRows, LivedCopies
  <1>5. ASSUME NEW r \in inflight, ReceiveAgain(r) PROVE LivesInv'
    <2> DEFINE d == rows[r.key]
               e == Redelegate(d, r)
    <2>1. r.key \in Key /\ d \in Delegate
      BY <1>0, RequestTypes
    <2>2. Exists(d) /\ Lived(d)
      BY <1>0, <1>5, <2>1 DEF ReceiveAgain, LivedRows
    <2>3. e.key = d.key /\ e.open = d.open /\ e.settle = d.settle
      BY <2>1 DEF Redelegate, Delegate
    <2>4. /\ rows' = rows \/ rows' = [rows EXCEPT ![r.key] = e]
          /\ inflight' \subseteq inflight
      BY <1>5 DEF ReceiveAgain
    <2> HIDE DEF e
    <2>5. Lived(e)
      BY <2>2, <2>3 DEF Lived
    <2>6. \A k \in Key : rows'[k] = rows[k] \/ rows'[k] = e
      BY <1>0, <2>1, <2>4
    <2> QED
      BY <1>0, <1>k, <2>4, <2>5, <2>6 DEF LivedRows, LivedCopies
  <1>6. ASSUME NEW r \in inflight, ReceiveFails(r) \/ ReceiveHalf(r) PROVE LivesInv'
    <2>1. UNCHANGED rows /\ inflight' \subseteq inflight
      BY <1>6 DEF ReceiveFails, ReceiveHalf, dbVars
    <2> QED
      BY <1>0, <1>k, <2>1 DEF LivedCopies
  <1> QED
    BY <1>3, <1>4, <1>5, <1>6

-----------------------------------------------------------------------------
(* Steps of the loop.                                                      *)

LEMMA SpawnedLived ==
    ASSUME TypeInv, LivedTasks(tasks), Updated(tasks), NEW at, NEW d, Spawn(at, d), Lived(d),
           at \in {"ubp", "punish"} \/ (at = "unlock" /\ d.status # "running")
    PROVE  LivedTasks(tasks') /\ Updated(tasks')
  <1> DEFINE free == {t \in TaskId : tasks[t].pc = "free"}
             s == CHOOSE t \in free : TRUE
             task == [pc |-> at, d |-> d, das |-> {}]
  <1>1. s \in TaskId /\ tasks' = [tasks EXCEPT ![s] = task]
    BY DEF Spawn
  <1>2. task.d = d /\ task.pc = at /\ tasks \in [TaskId -> Task]
    BY Typed
  <1> HIDE DEF s, task
  <1>3. \A t \in TaskId : tasks'[t] = IF t = s THEN task ELSE tasks[t]
    BY <1>1, <1>2
  <1>4. LivedTasks(tasks')
    BY <1>2, <1>3 DEF LivedTasks
  <1>5. Updated(tasks')
    BY <1>2, <1>3 DEF Updated
  <1> QED
    BY <1>4, <1>5

LEMMA BlockKeepsLives ==
    ASSUME TypeInv, TypeInv', StartInv, LivesInv,
           \/ ReceiveBlock \/ HandleSkipped \/ MarkRunning \/ MarkFails
           \/ BlockDone \/ HandleBlockFails
           \/ \E i \in monTodo : SkipMonitor(i) \/ SpawnMonitor(i) \/ ReadMonitored(i)
    PROVE  LivesInv'
  <1>0. /\ rows \in [Key -> Delegate] /\ cur \in Delegate /\ cur.key \in Key
        /\ \A i \in monTodo : monitors[i].key \in Key
        /\ LivedRows(rows) /\ LivedTasks(tasks) /\ LivedCopies(dsTodo) /\ LivedCur(pc, cur)
        /\ LivedCopies(inflight) /\ Updated(tasks)
    BY Typed, LoopTyped, TypedCounts DEF LivesInv, HeldInv
  <1>1. UNCHANGED <<chainVars, dsTodo, inflight>> /\ pc' # "delete"
    <2>1. UNCHANGED <<chainVars, dsTodo, inflight>>
      BY DEF ReceiveBlock, HandleSkipped, HandleBlock, MarkRunning, MarkFails, BlockDone,
             HandleBlockFails, LeaveBlock, SkipMonitor, SpawnMonitor, ReadMonitored
    <2>2. pc' # "delete"
      BY DEF ReceiveBlock, HandleSkipped, HandleBlock, MarkRunning, MarkFails, BlockDone,
             HandleBlockFails, LeaveBlock, SkipMonitor, SpawnMonitor, ReadMonitored
    <2> QED
      BY <2>1, <2>2
  <1>k. ASSUME LivedRows(rows'), LivedTasks(tasks'), Updated(tasks'), LivedCur(pc', cur')
        PROVE  LivesInv'
    BY <1>0, <1>1, <1>k, OffChainKeepsLives DEF DeletingInv
  <1>2. CASE \/ ReceiveBlock \/ HandleSkipped \/ BlockDone \/ MarkFails \/ HandleBlockFails
             \/ \E i \in monTodo : SkipMonitor(i)
    <2>1. UNCHANGED <<rows, tasks>> /\ pc' \notin {"mark", "addMonitor", "byOther"}
      BY <1>2 DEF ReceiveBlock, HandleSkipped, HandleBlock, MarkFails, BlockDone,
                  HandleBlockFails, LeaveBlock, SkipMonitor, dbVars
    <2> QED
      BY <1>0, <1>k, <2>1 DEF LivedCur
  <1>3. ASSUME NEW i \in monTodo, SpawnMonitor(i) PROVE LivesInv'
    <2> DEFINE d == rows[monitors[i].key]
    <2>1. /\ UNCHANGED rows /\ pc' = "monitors" /\ Exists(d)
          /\ Spawn("punish", d) \/ (d.status = "byOther" /\ Spawn("unlock", d))
      BY <1>3 DEF SpawnMonitor, Exists, dbVars
    <2>2. Lived(d)
      BY <1>0, <2>1 DEF LivedRows
    <2> HIDE DEF d
    <2>3. LivedTasks(tasks') /\ Updated(tasks')
      BY <1>0, <2>1, <2>2, SpawnedLived
    <2> QED
      BY <1>0, <1>k, <2>1, <2>3 DEF LivedCur
  <1>4. ASSUME NEW i \in monTodo, ReadMonitored(i) PROVE LivesInv'
    <2>1. /\ UNCHANGED <<rows, tasks>> /\ cur' = rows[monitors[i].key]
          /\ rows[monitors[i].key].status = "init"
      BY <1>4 DEF ReadMonitored, dbVars
    <2>2. Lived(cur')
      BY <1>0, <2>1 DEF LivedRows, Exists
    <2> QED
      BY <1>0, <1>k, <2>1, <2>2 DEF LivedCur
  <1>5. CASE MarkRunning
    <2> DEFINE d == [cur EXCEPT !.status = "running"]
    <2>1. /\ pc = "mark" /\ pc' = "monitors" /\ Spawn("ubp", d)
          /\ rows' = UpdateDelegateStatus(rows, cur.key, "running")
      BY <1>5 DEF MarkRunning
    <2>2. d.key = cur.key /\ d.open = cur.open /\ d.settle = cur.settle
      BY <1>0 DEF Delegate
    <2> HIDE DEF d
    <2>3. Lived(cur) /\ Lived(d)
      BY <1>0, <2>1, <2>2 DEF LivedCur, Lived
    <2>4. LivedTasks(tasks') /\ Updated(tasks')
      BY <1>0, <2>1, <2>3, SpawnedLived
    <2>5. LivedRows(rows')
      <3> DEFINE old == rows[cur.key]
                 row == [old EXCEPT !.status = "running"]
      <3>1. old \in Delegate /\ row.key = old.key /\ row.open = old.open
            /\ row.settle = old.settle
        BY <1>0 DEF Delegate
      <3>2. rows' = rows \/ (Exists(old) /\ rows' = [rows EXCEPT ![cur.key] = row])
        BY <1>0, <2>1 DEF UpdateDelegateStatus
      <3>3. Exists(old) => Lived(old)
        BY <1>0 DEF LivedRows
      <3> HIDE DEF row
      <3>4. Exists(old) => Lived(row)
        BY <3>1, <3>3 DEF Lived
      <3>5. \A k \in Key : rows'[k] = rows[k] \/ (Exists(old) /\ rows'[k] = row)
        BY <1>0, <3>2
      <3> QED
        BY <1>0, <3>4, <3>5 DEF LivedRows
    <2> QED
      BY <1>k, <2>1, <2>4, <2>5 DEF LivedCur
  <1> QED
    BY <1>2, <1>3, <1>4, <1>5

LEMMA EventKeepsLives ==
    ASSUME TypeInv, TypeInv', StartInv, EventInv, LivesInv,
           \/ HandleClosed \/ ReadSettleBlock \/ HandlerFails \/ AddClosedMonitor
           \/ \E d \in dsTodo : SaveClosed(d) \/ DeleteDelegate(d) \/ DeleteFails(d)
           \/ HandleBalanceProofUpdated \/ SaveByOther
           \/ HandleSettledOrWithdraw \/ IgnoreEvent
    PROVE  LivesInv'
  <1>0. /\ rows \in [Key -> Delegate] /\ dsTodo \subseteq Delegate /\ cur \in Delegate
        /\ \A k \in Key : rows[k].key = k
        /\ LivedRows(rows) /\ LivedTasks(tasks) /\ LivedCopies(dsTodo) /\ LivedCur(pc, cur)
        /\ LivedCopies(inflight) /\ Updated(tasks) /\ DeletingInv
    BY Typed DEF LivesInv, HeldInv, StartInv, RowsInv
  <1>1. UNCHANGED <<chainVars, goal, tasks, inflight>>
    BY DEF HandleClosed, ReadSettleBlock, HandlerFails, AddClosedMonitor, SaveClosed,
           DeleteDelegate, DeleteFails, HandleBalanceProofUpdated, SaveByOther, HandleSettledOrWithdraw,
           IgnoreEvent
  <1>k. ASSUME LivedRows(rows'), LivedCopies(dsTodo'), LivedCur(pc', cur'), DeletingInv'
        PROVE  LivesInv'
    BY <1>0, <1>1, <1>k, OffChainKeepsLives
  \* The rows of the event's channel.
  <1>r. \A e \in EventDelegates :
           Exists(e) /\ Lived(e) /\ e.key.channel = blocks[goal].channel
    <2>1. ASSUME NEW e \in EventDelegates
          PROVE  Exists(e) /\ Lived(e) /\ e.key.channel = blocks[goal].channel
      <3>1. PICK k \in Key : k.channel = blocks[goal].channel /\ Exists(rows[k]) /\ e = rows[k]
        BY DEF EventDelegates, GetDelegateListByChannelIdentifier
      <3> QED
        BY <1>0, <3>1 DEF LivedRows
    <2> QED
      BY <2>1
  <1>2. CASE HandleClosed \/ HandleSettledOrWithdraw
    <2>1. /\ UNCHANGED rows /\ dsTodo' = EventDelegates /\ pc' \in {"idle", "rpc", "delete"}
          /\ pc' = "delete" => blocks[goal].type \in VoidType
      BY <1>2 DEF HandleClosed, HandleSettledOrWithdraw, dbVars, VoidType
    <2>2. DeletingInv'
      BY <1>1, <1>r, <2>1 DEF DeletingInv, Voids, chainVars
    <2> QED
      BY <1>0, <1>k, <1>r, <2>1, <2>2 DEF LivedCopies, LivedCur
  \* The settle block the channel has now: right if the copy's life lasts.
  <1>3. CASE ReadSettleBlock
    <2> DEFINE n == channel[blocks[goal].channel].settle
    <2>1. /\ pc = "rpc" /\ pc' = "save" /\ UNCHANGED rows
          /\ dsTodo' = {WithSettleBlock(d, n) : d \in dsTodo}
      BY <1>3 DEF ReadSettleBlock, dbVars
    <2>2. \A d \in dsTodo : d.key.channel = blocks[goal].channel
      BY <2>1 DEF EventInv
    <2>3. ASSUME NEW d \in dsTodo PROVE Lived(WithSettleBlock(d, n))
      <3>1. /\ WithSettleBlock(d, n).key = d.key /\ WithSettleBlock(d, n).settle = n
            /\ WithSettleBlock(d, n).open = d.open
        BY <1>0 DEF WithSettleBlock, Delegate
      <3>2. Lived(d) /\ channel[d.key.channel].settle = n
        BY <1>0, <2>2 DEF LivedCopies
      <3> QED
        BY <3>1, <3>2 DEF Lived
    <2> HIDE DEF n
    <2>4. LivedCopies(dsTodo')
      BY <2>1, <2>3 DEF LivedCopies
    <2> QED
      BY <1>0, <1>k, <2>1, <2>4 DEF LivedCur, DeletingInv
  <1>4. CASE HandlerFails \/ IgnoreEvent \/ AddClosedMonitor
    <2>1. UNCHANGED rows /\ dsTodo' \subseteq dsTodo /\ pc' \in {"idle", "save"}
      BY <1>4 DEF HandlerFails, IgnoreEvent, AddClosedMonitor, dbVars
    <2> QED
      BY <1>0, <1>k, <2>1 DEF LivedCopies, LivedCur, DeletingInv
  <1>5. CASE HandleBalanceProofUpdated
    <2> DEFINE k == [channel |-> blocks[goal].channel, delegator |-> blocks[goal].participant]
    <2>1. /\ pc = "event" /\ blocks[goal].type = "update" /\ UNCHANGED <<rows, dsTodo>>
          /\ pc' = "idle" \/ (pc' = "byOther" /\ cur' = rows[k] /\ rows[k].status = "init")
      BY <1>5 DEF HandleBalanceProofUpdated, dbVars
    <2>2. k \in Key
      <3>1. EventAt(goal) /\ goal \in Nat /\ goal <= Height
        BY <2>1, TypedCounts DEF EventInv
      <3>2. blocks \in Seq(Event \cup {EmptyBlock}) /\ goal \in 1 .. Len(blocks)
        BY <3>1 DEF TypeInv, ChainTypeOK, Height, EventAt
      <3>3. blocks[goal] \in Event \cup {EmptyBlock}
        BY <3>2, ElementOfSeq
      <3>4. blocks[goal] \in Event
        BY <2>1, <3>3 DEF EmptyBlock
      <3> QED
        BY <3>4 DEF Event, Key
    <2> HIDE DEF k
    <2>3. LivedCur(pc', cur')
      BY <1>0, <2>1, <2>2 DEF LivedCur, LivedRows, Exists
    <2> QED
      BY <1>0, <1>k, <2>1, <2>3 DEF DeletingInv
  <1>6. ASSUME NEW d \in dsTodo, SaveClosed(d) PROVE LivesInv'
    <2>1. UpdateObject(d) /\ cur' = d /\ dsTodo' \subseteq dsTodo /\ pc' = "addMonitor"
      BY <1>6 DEF SaveClosed
    <2>2. d \in Delegate /\ Lived(d)
      BY <1>0 DEF LivedCopies
    <2>3. LivedRows(rows')
      BY <1>0, <2>1, <2>2, SavedIsLived
    <2> QED
      BY <1>0, <1>k, <2>1, <2>2, <2>3 DEF LivedCopies, LivedCur, DeletingInv
  <1>7. CASE SaveByOther
    <2> DEFINE d == [cur EXCEPT !.status = "byOther"]
    <2>1. pc = "byOther" /\ UpdateObject(d) /\ UNCHANGED dsTodo /\ pc' = "idle"
      BY <1>7 DEF SaveByOther
    <2>2. d \in Delegate /\ d.key = cur.key /\ d.settle = cur.settle /\ d.open = cur.open
      <3>1. d \in Delegate
        BY <1>0, DelegateTypes DEF Status
      <3> QED
        BY <1>0, <3>1 DEF Delegate
    <2> HIDE DEF d
    <2>3. Lived(d)
      BY <1>0, <2>1, <2>2 DEF LivedCur, Lived
    <2>4. LivedRows(rows')
      BY <1>0, <2>1, <2>2, <2>3, SavedIsLived
    <2> QED
      BY <1>0, <1>k, <2>1, <2>4 DEF LivedCur, DeletingInv
  <1>8. ASSUME NEW d \in dsTodo, DeleteDelegate(d) \/ DeleteFails(d) PROVE LivesInv'
    <2>1. /\ rows' = rows \/ rows' = [rows EXCEPT ![d.key] = NoDelegate(d.key)]
          /\ dsTodo' \subseteq dsTodo
          /\ pc = "delete" /\ pc' \in {"idle", "delete"}
      BY <1>8 DEF DeleteDelegate, DeleteFails
    <2>2. \A k \in Key : rows'[k] = rows[k] \/ ~Exists(rows'[k])
      BY <1>0, <2>1 DEF NoDelegate, Exists
    <2>3. LivedRows(rows')
      BY <1>0, <2>2 DEF LivedRows
    <2>4. DeletingInv'
      BY <1>0, <1>1, <2>1 DEF DeletingInv, Voids, chainVars
    <2> QED
      BY <1>0, <1>k, <2>1, <2>3, <2>4 DEF LivedCopies, LivedCur
  <1> QED
    BY <1>2, <1>3, <1>4, <1>5, <1>6, <1>7, <1>8

-----------------------------------------------------------------------------
LEMMA InitLives == Init => LivesInv
  <1> SUFFICES ASSUME Init PROVE LivesInv
    OBVIOUS
  <1>1. PICK c0 \in Channel :
           blocks = << [type |-> "open", channel |-> c0, participant |-> SomeParty] >>
    BY DEF Init, ChainInit
  <1>2. Height = 1 /\ blocks[1].type = "open"
    BY <1>1 DEF Height
  <1>3. \A c \in Channel : channel[c] = Opened(1)
    BY DEF Init, ChainInit
  <1>4. ClosedInv /\ ProofsInv
    BY <1>3 DEF ClosedInv, ProofsInv, Opened, NoProof
  <1>5. OpenInv
    BY <1>2, <1>3 DEF OpenInv, Opened, Voids, VoidType
  <1>6. LivedRows(rows) /\ LivedTasks(tasks)
    BY DEF Init, LivedRows, LivedTasks, Exists, NoDelegate, IdleTask
  <1>7. /\ LivedCopies(dsTodo) /\ LivedCur(pc, cur) /\ LivedCopies(inflight) /\ DeletingInv
    BY DEF Init, LivedCopies, LivedCur, DeletingInv
  <1>8. Updated(tasks)
    BY DEF Init, Updated, IdleTask
  <1> QED
    BY <1>4, <1>5, <1>6, <1>7, <1>8 DEF LivesInv, ChannelsInv, HeldInv

LEMMA NextLives ==
    TypeInv /\ TypeInv' /\ StartInv /\ MonitoredInv /\ LivesInv /\ [Next]_vars => LivesInv'
  <1> SUFFICES ASSUME TypeInv, TypeInv', StartInv, MonitoredInv, LivesInv, [Next]_vars
               PROVE  LivesInv'
    OBVIOUS
  <1>0. ChannelsInv /\ HeldInv /\ DeletingInv /\ EventInv /\ ChainTypeOK
    BY DEF LivesInv, MonitoredInv, TypeInv
  <1>s. ASSUME ChannelsInv', LifeStays, ChainGrows,
               UNCHANGED <<rows, tasks, inflight, loopVars>>
        PROVE  LivesInv'
    <2>1. UNCHANGED <<pc, goal, dsTodo, cur>> /\ Height <= Height'
      BY <1>s DEF loopVars, ChainGrows, Height
    <2>2. Updated(tasks)' /\ LivedTasks(tasks')
      BY <1>s, SameTasksUpdated
    <2>3. DeletingInv'
      BY <1>0, <1>s, <2>1, DeletingStays
    <2> QED
      BY <1>0, <1>s, <2>1, <2>2, <2>3, WritesLived DEF HeldInv
  <1>1. CASE ChainStep
    <2>1. ChainNext /\ UNCHANGED <<rows, tasks, inflight, loopVars>>
      BY <1>1 DEF ChainStep, ServiceUnchanged, dbVars
    <2> QED
      BY <1>0, <1>s, <2>1, ChainKeepsLives, ChainNextGrows
  <1>2. CASE AlarmFails \/ UNCHANGED vars
    <2>1. UNCHANGED <<chainVars, rows, tasks, inflight, loopVars>>
      BY <1>2 DEF AlarmFails, vars, dbVars
    <2> QED
      BY <1>0, <1>s, <2>1, SameChainKeepsLives, UnchangedGrows
  <1>3. CASE LoopStep \/ LoopFails
    BY <1>0, <1>3, BlockKeepsLives, EventKeepsLives DEF LoopStep, LoopFails
  <1>4. ASSUME NEW t \in TaskId, TaskStep(t) PROVE LivesInv'
    BY <1>4, TaskKeepsLives
  <1>5. CASE \/ \E x \in Delegation : VerifyDelegate(x)
             \/ \E r \in inflight :
                   ReceiveFirst(r) \/ ReceiveAgain(r) \/ ReceiveFails(r) \/ ReceiveHalf(r)
    BY <1>5, RequestKeepsLives
  <1>6. CASE Crash
    <2>1. /\ UNCHANGED <<chainVars, rows>> /\ pc' = "idle" /\ dsTodo' = {} /\ inflight' = {}
          /\ \A t \in TaskId : tasks'[t].pc = "free"
      BY <1>6 DEF Crash, Started, dbVars, IdleTask
    <2>2. LivedTasks(tasks') /\ Updated(tasks')
      BY <2>1 DEF LivedTasks, Updated
    <2>3. /\ LivedCopies(dsTodo') /\ LivedCopies(inflight') /\ LivedCur(pc', cur')
          /\ DeletingInv'
      BY <2>1 DEF LivedCopies, LivedCur, DeletingInv
    <2> QED
      BY <1>0, <2>1, <2>2, <2>3, OffChainKeepsLives DEF HeldInv
  <1> QED
    BY <1>1, <1>2, <1>3, <1>4, <1>5, <1>6 DEF Next

LEMMA LivesIsEnough ==
    ASSUME TypeInv, StartInv, MonitoredInv, LivesInv
    PROVE  SettleOfThisLife /\ UnlocksAfterUpdate /\ DeletesOldLives
  <1>1. SettleOfThisLife
    <2>1. \A k \in Key : rows[k].key = k
      BY DEF StartInv, RowsInv
    <2> QED
      BY <2>1 DEF SettleOfThisLife, LivesInv, HeldInv, LivedRows, Lived
  <1>2. UnlocksAfterUpdate
    BY DEF UnlocksAfterUpdate, LivesInv, Updated, ProofOnChain
  <1>3. DeletesOldLives
    <2> SUFFICES ASSUME pc = "delete", NEW d \in dsTodo, Exists(rows[d.key]),
                        rows[d.key].open = channel[d.key.channel].open
                 PROVE  rows[d.key].open >= goal
      BY DEF DeletesOldLives
    <2>1. d.key \in Key /\ d.key.channel \in Channel /\ goal \in 1 .. Height
      BY TypedCounts, HeldTyped, LoopTyped DEF MonitoredInv, EventInv, EventAt
    <2>2. Voids(goal, d.key.channel)
      BY DEF LivesInv, DeletingInv
    <2>3. rows[d.key].open >= 1 /\ rows[d.key].open \in Nat
      BY <2>1, HeldTyped DEF LivesInv, HeldInv, LivedRows, Lived
    <2>4. channel[d.key.channel].open = 0 \/ channel[d.key.channel].open >= goal
      BY <2>1, <2>2 DEF LivesInv, ChannelsInv, OpenInv
    <2> QED
      BY <2>3, <2>4
  <1> QED
    BY <1>1, <1>2, <1>3

LEMMA SpecLives == Spec => [](TypeInv /\ StartInv /\ MonitoredInv /\ LivesInv)
  <1> QED
    BY SpecTypeInv, InitStart, NextStart, InitMonitored, NextMonitored, InitLives, NextLives,
       PTL DEF Spec

\* Settle blocks are never mixed up between lives of a channel: however late the close
\* handler reads the settle block for the rows it has, and however late a verified
\* delegation is stored, a row whose open block is the channel's has the channel's
\* settle block or none, for any lag of the feed, restarts and failed calls.
THEOREM SettleBlocksOfOneLife == Spec => []SettleOfThisLife
  <1> QED
    BY SpecLives, LivesIsEnough, PTL

\* A goroutine that did not fail its update reaches doDelegateUnlocks only with its
\* balance proof, or a newer one, in the contract, if the channel is still the one the
\* proof was made for.
THEOREM UnlocksFollowUpdates == Spec => []UnlocksAfterUpdate
  <1> QED
    BY SpecLives, LivesIsEnough, PTL

\* handleSettledStateChange and its like delete nothing that is valid and older than
\* their event: a delegate of the life that lasts is deleted only if that life began
\* with the event or after it.
THEOREM DeletionsAreOfOldLives == Spec => []DeletesOldLives
  <1> QED
    BY SpecLives, LivesIsEnough, PTL
=============================================================================
