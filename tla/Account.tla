------------------------------ MODULE Account -------------------------------
(***************************************************************************)
(* The fee account of a delegator (models/account.go) as a value: the four *)
(* amounts of its row, and what each operation makes of the row it read.   *)
(* Saving the result is a separate step of the caller: see FeeAccount.     *)
(***************************************************************************)
EXTENDS Integers

Amounts == [total : Nat, used : Nat, locked : Nat, need : Nat]

\* An account without a row reads as zeros.
NoAccount == [total |-> 0, used |-> 0, locked |-> 0, need |-> 0]

MutantIgnoresLocked(a) == a.total - a.used
AccountAvailable(a) == a.total - a.used - a.locked

\* What the answer to a delegation says: the balance covers NeedSmt.
AccountIsBalanceEnough(a) == AccountAvailable(a) >= a.need

\* AccountLockSmt refuses for two reasons: the balance, and NeedSmt.
CanLock(a, amount) == AccountAvailable(a) >= amount /\ a.need >= amount

AccountLockSmt(a, amount) ==
    [a EXCEPT !.locked = @ + amount, !.need = @ - amount]

\* AccountUnlockSmt and AccountUseSmt return an error, and change nothing,
\* when less than the amount is locked.
MutantSettlesUnlocked(a, amount) == TRUE
CanSettle(a, amount) == a.locked >= amount

AccountUnlockSmt(a, amount) == [a EXCEPT !.locked = @ - amount]

AccountUseSmt(a, amount) ==
    [a EXCEPT !.locked = @ - amount, !.used = @ + amount]

\* AccountAddSmt writes one column, the total it read plus the deposit.
AccountAddSmt(a, read, amount) == [a EXCEPT !.total = read.total + amount]

\* The bytes of a big.Int hold its magnitude: a negative amount is stored
\* without its sign.
Magnitude(n) == IF n < 0 THEN -n ELSE n

\* updateAccountSMT: a delegate's need changes from old to new.
UpdateAccountSMT(a, old, new) ==
    IF old = new THEN a ELSE [a EXCEPT !.need = Magnitude(@ + new - old)]

\* accountSanity panics on a row that is not sane; the amounts of a row that
\* was read are never negative.
AccountSanity(a) == a.used <= a.total
=============================================================================
