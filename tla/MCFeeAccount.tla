---------------------------- MODULE MCFeeAccount ----------------------------
EXTENDS FeeAccount, TLC

CONSTANTS d1, d2, t1, t2, t3, t4

\* Every fee is 1.
UnitFee == [x \in Work |-> 1]

\* An unlock costs more than three of the small deposits together.
UnequalFee == [UnitFee EXCEPT !["unlock"] = 4]

Ask(secret, ubp, unlock, punish) ==
    [secret |-> secret, ubp |-> ubp, unlock |-> unlock, punish |-> punish]

\* Two workers of one delegate, the secret and the update; and an unlock with it.
SecretAndUnlock == { Ask(1, 1, 0, 0), Ask(1, 1, 1, 0) }

\* A balance proof, or two unlocks.
ProofOrUnlocks == { Ask(0, 1, 0, 0), Ask(0, 0, 2, 0) }

\* A secret and a balance proof.
SecretAndProof == { Ask(1, 1, 0, 0) }

TwoEach == [t \in Transfer |-> 2]
ThreeEach == [t \in Transfer |-> 3]
LargeSecond == [t \in Transfer |-> IF t = t2 THEN 8 ELSE 1]

\* The small transfers of LargeSecond are interchangeable, and so are delegates.
Interchangeable == Permutations({t1, t3, t4}) \cup Permutations({d1, d2})
=============================================================================
