---------------------------- MODULE DelegateLife ----------------------------
(***************************************************************************)
(* What the monitoring service promises of the delegates it stores, without *)
(* a database, a chain or goroutines: delegations of a key are numbered, a *)
(* delegate is armed or not, and only the newest delegation of a key is    *)
(* ever started, once.                                                     *)
(*                                                                         *)
(* ChainEvents implements this specification (ImplementsLife there).       *)
(***************************************************************************)
EXTENDS Naturals

CONSTANT Key        \* channel and delegator

VARIABLES
    accepted,       \* accepted[k]: number of first delegations of k
    armed,          \* the keys whose delegate waits to be started
    started         \* the delegations that were started: key and number

vars == <<accepted, armed, started>>

Init ==
    /\ accepted = [k \in Key |-> 0]
    /\ armed = {}
    /\ started = {}

\* The newest delegation of k has not been started.
Startable(k) == accepted[k] > 0 /\ <<k, accepted[k]>> \notin started

\* A first delegation: nothing of an earlier one is waiting.
Accept(k) ==
    /\ k \notin armed
    /\ accepted' = [accepted EXCEPT ![k] = @ + 1]
    /\ armed' = armed \cup {k}
    /\ UNCHANGED started

\* The update is started; somebody may have disarmed the delegate since it was
\* decided to.
Start(k) ==
    /\ Startable(k)
    /\ started' = started \cup {<<k, accepted[k]>>}
    /\ armed' = armed \ {k}
    /\ UNCHANGED accepted

\* It failed, was done by somebody else, or was deleted.
Disarm(k) ==
    /\ armed' = armed \ {k}
    /\ UNCHANGED <<accepted, started>>

\* A row that was read while it was armed is saved again: harmless only if the
\* delegation it holds is the newest and was not started meanwhile.
Rearm(k) ==
    /\ Startable(k)
    /\ armed' = armed \cup {k}
    /\ UNCHANGED <<accepted, started>>

Next == \E k \in Key : Accept(k) \/ Start(k) \/ Disarm(k) \/ Rearm(k)

Spec == Init /\ [][Next]_vars
=============================================================================
