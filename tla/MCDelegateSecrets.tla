------------------------- MODULE MCDelegateSecrets --------------------------
EXTENDS DelegateSecrets

CONSTANTS k1, k2, s1

At(n) == {[secret |-> s1, at |-> n]}

\* Two delegators share the secret, with different register blocks.
SharedSecret ==
    { [key |-> k1, items |-> At(1)], [key |-> k2, items |-> At(2)] }
=============================================================================
